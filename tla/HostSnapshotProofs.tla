------------------------- MODULE HostSnapshotProofs -------------------------
(***************************************************************************)
(* For any numbers of sessions, steps, bets and renders: in a world whose  *)
(* channels keep their order, a random word is filed under the request it  *)
(* answers (WordsAnswerTheirRequests); and in any world the session bytes  *)
(* an action echoes to the host are a committed step that is never older   *)
(* than the last one echoed, a result that is shown is the one on the      *)
(* chain (SettledAsOnChain), and no render takes a session or its result   *)
(* back or changes it, but for the time it is said to be of (ResultsStay). *)
(***************************************************************************)
EXTENDS HostSnapshot, SequenceTheorems, FiniteSetTheorems, TLAPS

Phases == {"NONE"} \cup OpenPhases \cup TerminalPhases
Event ==
  [kind : {"opened", "advanced", "settled"}, id : Int, step : Int, phase : Phases,
   gameState : Int, payout : Int, randomness : Int]

-----------------------------------------------------------------------------
(* What the consumer of a channel knows of session i: the store, or the    *)
(* patches.                                                                *)

\* A word that comes with no step of its own is filed under request k, or nowhere.
Known(c, i, k) ==
  IF c = "indexed" THEN Row(i).step = k
  ELSE i \in DOMAIN patches => OrElse(patches[i].requestNonce, patches[i].step) \in {k, Undefined}

\* An advance to step k is taken.
Fresh(c, i, k) ==
  IF c = "indexed" THEN Row(i).status # "settled" /\ Row(i).step < k
  ELSE i \in DOMAIN patches => ~patches[i].settled /\ patches[i].step < k

-----------------------------------------------------------------------------
(* What is on a channel.                                                   *)

IsAdvance(e, i) == e.kind = "advanced" /\ e.id = i

\* When event n arrives, request k is the last the consumer has seen of session i.
Requested(c, i, n, k) ==
  \/ \E m \in 1..(n - 1) : /\ IsAdvance(transit[c][m], i) /\ transit[c][m].step = k
                           /\ MakesRequest(transit[c][m])
  \/ /\ \A m \in 1..(n - 1) : ~IsAdvance(transit[c][m], i)
     /\ Known(c, i, k)

\* Event n on its own.
EventOK(c, n) ==
  LET e == transit[c][n]
  IN  /\ e.id \in DOMAIN chain
      /\ e.kind = "advanced" =>
           /\ e.step > 0 /\ e.randomness \in {Undefined, e.step - 1}
           /\ chain[e.id].kind = "advanced" => e.step <= chain[e.id].step
           /\ Fresh(c, e.id, e.step)
      /\ e.kind = "settled" =>
           /\ chain[e.id].kind = "settled"
           /\ e.randomness # Undefined => e.randomness > 0 /\ Requested(c, e.id, n, e.randomness)

\* Event m before event n of the same session.
OrderOK(c, m, n) ==
  LET e == transit[c][m]
      f == transit[c][n]
  IN  e.id = f.id =>
        /\ e.kind # "settled"
        /\ e.kind = "advanced" /\ f.kind = "advanced" => e.step < f.step
        /\ e.kind = "advanced" /\ f.kind = "settled" /\ f.randomness # Undefined =>
             e.step <= f.randomness

\* Session i on the chain, as its next event will find it.
SessionOK(c, i) ==
  chain[i].kind = "advanced" =>
    /\ Fresh(c, i, chain[i].step + 1)
    /\ MakesRequest(chain[i]) => Requested(c, i, Len(transit[c]) + 1, chain[i].step)

Feed(c) ==
  /\ transit[c] \in Seq(Event)
  /\ \A n \in 1..Len(transit[c]) : EventOK(c, n)
  /\ \A n \in 1..Len(transit[c]) : \A m \in 1..(n - 1) : OrderOK(c, m, n)
  /\ \A i \in 1..Len(chain) : SessionOK(c, i)

ChainOK ==
  /\ chain \in Seq(Event)
  /\ \A i \in 1..Len(chain) :
       /\ chain[i].id = i /\ chain[i].kind \in {"advanced", "settled"}
       /\ chain[i].kind = "advanced" => chain[i].step > 0

-----------------------------------------------------------------------------
(* What was filed.                                                         *)

Filed(requests) == \A n \in DOMAIN requests : requests[n] \in {n, Undefined}

RowOK(row) ==
  /\ row = [known |-> row.known, status |-> row.status, phase |-> row.phase, step |-> row.step,
            gameState |-> row.gameState, encodedSession |-> row.encodedSession,
            randomnessFulfilled |-> row.randomnessFulfilled,
            randomnessRequests |-> row.randomnessRequests, payout |-> row.payout,
            settledAt |-> row.settledAt]
  /\ row.step \in Int /\ Filed(row.randomnessRequests)

PatchFields == {"step", "phase", "gameState", "encodedSession", "requestNonce", "fulfilledNonce",
                "randomness", "settled", "payout", "settledAt"}

PatchOK(patch) ==
  /\ patch = [f \in PatchFields |-> patch[f]]
  /\ patch.step \in Int /\ patch.requestNonce \in Int
  /\ patch.fulfilledNonce # Undefined => patch.randomness \in {patch.fulfilledNonce, Undefined}
  /\ patch.step = Undefined /\ ~patch.settled => patch.fulfilledNonce = Undefined

RowsOK == \A i \in DOMAIN rows : i \in 1..Len(chain) /\ RowOK(rows[i])
PatchesOK == \A i \in DOMAIN patches : i \in 1..Len(chain) /\ PatchOK(patches[i])

Calm ==
  /\ ChainOK /\ RowsOK /\ PatchesOK
  /\ transit = [c \in Channels |-> transit[c]]
  /\ Feed("indexed") /\ Feed("flashblock")

CalmInv == ~world.rough => Calm

-----------------------------------------------------------------------------
(* Sequences of events.                                                    *)

LEMMA Concatenated ==
  ASSUME NEW s \in Seq(Event), NEW t \in Seq(Event)
  PROVE  /\ s \o t \in Seq(Event) /\ Len(s \o t) = Len(s) + Len(t)
         /\ \A k \in 1..Len(s) : (s \o t)[k] = s[k]
         /\ \A k \in 1..Len(t) : (s \o t)[Len(s) + k] = t[k]
OBVIOUS

LEMMA HeadRemoved ==
  ASSUME NEW s \in Seq(Event), Len(s) > 0
  PROVE  /\ RemoveAt(s, 1) \in Seq(Event) /\ Len(RemoveAt(s, 1)) = Len(s) - 1
         /\ \A k \in 1..(Len(s) - 1) : RemoveAt(s, 1)[k] = s[k + 1]
<1> DEFINE first == SubSeq(s, 1, 0)
           rest == SubSeq(s, 2, Len(s))
<1>1. first \in Seq(Event) /\ Len(first) = 0
  OBVIOUS
<1>2. rest \in Seq(Event) /\ Len(rest) = Len(s) - 1 /\ \A k \in 1..(Len(s) - 1) : rest[k] = s[k + 1]
  <2>1. \A k \in 2..Len(s) : s[k] \in Event
    OBVIOUS
  <2>2. /\ Len(rest) = IF 2 <= Len(s) THEN Len(s) - 2 + 1 ELSE 0
        /\ \A k \in 1..(Len(s) - 2 + 1) : rest[k] = s[2 + k - 1]
    BY SubSeqProperties
  <2>3. rest \in Seq(Event)
    <3>1. rest = Tail(s)
      BY TailIsSubSeq, s # <<>>
    <3>2. Tail(s) \in Seq(Event)
      OBVIOUS
    <3> QED BY <3>1, <3>2
  <2>4. \A k \in 1..(Len(s) - 1) : k \in 1..(Len(s) - 2 + 1) /\ 2 + k - 1 = k + 1
    OBVIOUS
  <2>5. Len(s) \in Nat /\ Len(s) > 0
    OBVIOUS
  <2> HIDE DEF rest
  <2>6. Len(rest) = Len(s) - 1
    <3>1. Len(rest) = IF 2 <= Len(s) THEN Len(s) - 2 + 1 ELSE 0
      BY <2>2
    <3>2. \A n \in Nat : n > 0 => (n = 1 \/ 2 <= n) /\ n - 2 + 1 = n - 1 /\ 1 - 1 = 0
      OBVIOUS
    <3>3. (Len(s) = 1 \/ 2 <= Len(s)) /\ Len(s) - 2 + 1 = Len(s) - 1 /\ 1 - 1 = 0
      BY <2>5, <3>2, Zenon
    <3>4. Len(s) = 1 => ~(2 <= Len(s))
      BY SMT
    <3> QED BY <3>1, <3>3, <3>4, Zenon
  <2> QED BY <2>2, <2>3, <2>4, <2>6
<1>3. RemoveAt(s, 1) = first \o rest
  BY DEF RemoveAt
<1> HIDE DEF first, rest
<1>4. first \o rest \in Seq(Event) /\ Len(first \o rest) = Len(s) - 1
  BY <1>1, <1>2, Concatenated
<1>5. \A k \in 1..Len(rest) : (first \o rest)[Len(first) + k] = rest[k]
  BY <1>1, <1>2, Concatenated
<1>6. \A k \in 1..(Len(s) - 1) : (first \o rest)[k] = s[k + 1]
  BY <1>1, <1>2, <1>5
<1> QED BY <1>3, <1>4, <1>6

\* The fields of an event.
LEMMA EventFields ==
  ASSUME NEW e \in Event
  PROVE  /\ e.kind \in {"opened", "advanced", "settled"} /\ e.id \in Int /\ e.step \in Int
         /\ e.randomness \in Int
BY DEF Event

-----------------------------------------------------------------------------
(* A channel between its steps.                                            *)

\* The consumer may learn, or forget, what does not count.
LEMMA KnowingMoreKeepsFeed ==
  ASSUME NEW c \in Channels, Feed(c), transit'[c] = transit[c], UNCHANGED chain,
         \A i, k : Known(c, i, k) => Known(c, i, k)',
         \A i, k : Fresh(c, i, k) => Fresh(c, i, k)'
  PROVE  Feed(c)'
<1>1. \A i, n, k : Requested(c, i, n, k) => Requested(c, i, n, k)'
  BY DEF Requested, IsAdvance
<1>2. \A n \in 1..Len(transit[c]) : EventOK(c, n)'
  BY <1>1 DEF Feed, EventOK
<1>3. \A n \in 1..Len(transit[c]) : \A m \in 1..(n - 1) : OrderOK(c, m, n)'
  BY DEF Feed, OrderOK
<1>4. \A i \in 1..Len(chain) : SessionOK(c, i)'
  BY <1>1 DEF Feed, SessionOK
<1> QED BY <1>2, <1>3, <1>4 DEF Feed

\* The first event is delivered: what it tells is what the events behind it rely on.
LEMMA DeliveryKeepsFeed ==
  ASSUME NEW c \in Channels, Feed(c), ChainOK, UNCHANGED chain, Len(transit[c]) > 0,
         NEW s, s = transit[c], NEW t, t = transit'[c], t = RemoveAt(s, 1), NEW h, h = s[1],
         \A i, k : i # h.id =>
           /\ Known(c, i, k) => Known(c, i, k)'
           /\ Fresh(c, i, k) => Fresh(c, i, k)',
         h.kind = "opened" => \A k : /\ Known(c, h.id, k) => Known(c, h.id, k)'
                                     /\ k \in Nat /\ k > 0 /\ Fresh(c, h.id, k) => Fresh(c, h.id, k)',
         h.kind = "advanced" => /\ MakesRequest(h) => Known(c, h.id, h.step)'
                                /\ \A k \in Int : h.step < k => Fresh(c, h.id, k)'
  PROVE  Feed(c)'
<1>1. /\ s \in Seq(Event) /\ Len(s) \in Nat /\ Len(s) > 0
      /\ \A n \in 1..Len(s) : EventOK(c, n)
      /\ \A n \in 1..Len(s) : \A m \in 1..(n - 1) : OrderOK(c, m, n)
      /\ \A i \in 1..Len(chain) : SessionOK(c, i)
  BY DEF Feed
<1>2. t \in Seq(Event) /\ Len(t) = Len(s) - 1 /\ \A k \in 1..(Len(s) - 1) : t[k] = s[k + 1]
  BY <1>1, HeadRemoved
<1>a. \A n \in 1..Len(s) : \A m \in 1..(n - 1) :
        s[m].id = s[n].id =>
          /\ s[m].kind # "settled"
          /\ s[m].kind = "advanced" /\ s[n].kind = "advanced" => s[m].step < s[n].step
          /\ s[m].kind = "advanced" /\ s[n].kind = "settled" /\ s[n].randomness # Undefined =>
               s[m].step <= s[n].randomness
  BY <1>1 DEF OrderOK
<1>b. \A n \in 1..Len(s) :
        /\ s[n].id \in DOMAIN chain
        /\ s[n].kind = "advanced" =>
             /\ s[n].step > 0 /\ s[n].randomness \in {Undefined, s[n].step - 1}
             /\ chain[s[n].id].kind = "advanced" => s[n].step <= chain[s[n].id].step
             /\ Fresh(c, s[n].id, s[n].step)
        /\ s[n].kind = "settled" =>
             /\ chain[s[n].id].kind = "settled"
             /\ s[n].randomness # Undefined =>
                  s[n].randomness > 0 /\ Requested(c, s[n].id, n, s[n].randomness)
  BY <1>1 DEF EventOK
<1>c. \A n \in 1..Len(s) : s[n].step \in Int /\ s[n].randomness \in Int
  BY <1>1, EventFields
<1>3. h = s[1] /\ h \in Event /\ \A n \in 1..Len(s) : s[n] \in Event
  BY <1>1
<1>4. h.kind \in {"opened", "advanced", "settled"} /\ h.step \in Int
  BY <1>3, EventFields
<1>5. chain \in Seq(Event)
  BY DEF ChainOK
<1>6. ASSUME NEW i, NEW n \in 2..(Len(s) + 1), NEW k, Requested(c, i, n, k),
             ~(h.kind = "settled" /\ h.id = i),
             IsAdvance(h, i) /\ h.step = k => \A m \in 2..(n - 1) : ~IsAdvance(s[m], i)
      PROVE  Requested(c, i, n - 1, k)'
  <2>1. \A m \in 1..(n - 2) : t[m] = s[m + 1] /\ m + 1 \in 2..(n - 1)
    BY <1>1, <1>2
  <2>2. CASE \E m \in 2..(n - 1) : IsAdvance(s[m], i) /\ s[m].step = k /\ MakesRequest(s[m])
    <3>1. PICK m \in 2..(n - 1) : IsAdvance(s[m], i) /\ s[m].step = k /\ MakesRequest(s[m])
      BY <2>2
    <3>2. m - 1 \in 1..(n - 2) /\ t[m - 1] = s[m]
      BY <1>1, <1>2, <3>1
    <3> QED BY <3>1, <3>2 DEF Requested
  <2>3. CASE IsAdvance(s[1], i) /\ s[1].step = k /\ MakesRequest(s[1])
    <3>1. Known(c, i, k)'
      BY <1>3, <2>3 DEF IsAdvance
    <3>2. \A m \in 1..(n - 2) : ~IsAdvance(t[m], i)
      BY <1>3, <1>6, <2>1, <2>3
    <3> QED BY <3>1, <3>2 DEF Requested
  <2>4. CASE (\A m \in 1..(n - 1) : ~IsAdvance(s[m], i)) /\ Known(c, i, k)
    <3>1. ~IsAdvance(h, i)
      BY <1>3, <2>4
    <3>2. h.id = i => h.kind = "opened"
      BY <1>4, <1>6, <3>1 DEF IsAdvance
    <3>3. Known(c, i, k)'
      BY <2>4, <3>2
    <3>4. \A m \in 1..(n - 2) : ~IsAdvance(t[m], i)
      BY <2>1, <2>4
    <3> QED BY <3>3, <3>4 DEF Requested
  <2>5. \A m \in 1..(n - 1) : m = 1 \/ m \in 2..(n - 1)
    OBVIOUS
  <2> QED BY <1>6, <2>2, <2>3, <2>4, <2>5 DEF Requested
<1>7. ASSUME NEW n \in 1..Len(t) PROVE EventOK(c, n)'
  <2>a. PICK e : e = s[n + 1]
    OBVIOUS
  <2>1. /\ n + 1 \in 2..Len(s) /\ t[n] = e /\ e \in Event
        /\ EventOK(c, n + 1) /\ OrderOK(c, 1, n + 1)
    BY <1>1, <1>2, <1>3, <2>a
  <2>2. e.id = h.id => /\ h.kind # "settled"
                       /\ h.kind = "advanced" /\ e.kind = "advanced" => h.step < e.step
    <3>1. 1 \in 1..((n + 1) - 1) /\ n + 1 \in 1..Len(s)
      BY <1>1, <2>1
    <3> QED BY <1>3, <1>a, <2>a, <3>1
  <2>3. ASSUME e.kind = "advanced" PROVE Fresh(c, e.id, e.step)'
    <3>1. Fresh(c, e.id, e.step) /\ e.step \in Int
      BY <1>b, <1>c, <2>a, <2>1, <2>3
    <3>2. e.step > 0
      BY <1>b, <2>a, <2>1, <2>3
    <3> QED BY <1>4, <2>2, <2>3, <3>1, <3>2
  <2>4. ASSUME e.kind = "settled", e.randomness # Undefined
        PROVE  Requested(c, e.id, n, e.randomness)'
    <3>1. Requested(c, e.id, n + 1, e.randomness)
      BY <1>b, <2>a, <2>1, <2>4
    <3>2. ASSUME IsAdvance(h, e.id), h.step = e.randomness, NEW m \in 2..n, IsAdvance(s[m], e.id)
          PROVE  FALSE
      <4>1. m \in 1..Len(s) /\ 1 \in 1..(m - 1) /\ m \in 1..((n + 1) - 1) /\ n + 1 \in 1..Len(s)
        BY <1>1, <2>1
      <4>2. s[m].step \in Int
        BY <1>c, <4>1
      <4>3. h.step < s[m].step
        BY <1>3, <1>a, <3>2, <4>1 DEF IsAdvance
      <4>4. s[m].step <= e.randomness
        BY <1>a, <2>a, <2>4, <3>2, <4>1 DEF IsAdvance
      <4> QED BY <1>4, <3>2, <4>2, <4>3, <4>4
    <3>3. n + 1 \in 2..(Len(s) + 1) /\ (n + 1) - 1 = n
      BY <1>1, <2>1
    <3>4. \A m \in 2..((n + 1) - 1) :
            IsAdvance(h, e.id) /\ h.step = e.randomness => ~IsAdvance(s[m], e.id)
      BY <3>2, <3>3
    <3>5. Requested(c, e.id, (n + 1) - 1, e.randomness)'
      BY <1>6, <2>2, <3>1, <3>3, <3>4
    <3> QED BY <3>3, <3>5
  <2>5. e.kind = "advanced" =>
          e.step > 0 /\ e.randomness \in {Undefined, e.step - 1}
          /\ (chain[e.id].kind = "advanced" => e.step <= chain[e.id].step)
    BY <1>b, <2>a, <2>1
  <2>6. e.id \in DOMAIN chain /\ (e.kind = "settled" => chain[e.id].kind = "settled")
    BY <1>b, <2>a, <2>1
  <2>7. e.kind = "settled" /\ e.randomness # Undefined => e.randomness > 0
    BY <1>b, <2>a, <2>1
  <2> QED BY <2>1, <2>3, <2>4, <2>5, <2>6, <2>7 DEF EventOK
<1>8. ASSUME NEW n \in 1..Len(t), NEW m \in 1..(n - 1) PROVE OrderOK(c, m, n)'
  <2>0. Len(t) \in Nat /\ n \in Nat /\ m \in Nat /\ m < n /\ n <= Len(s) - 1 /\ m > 0
    BY <1>1, <1>2
  <2>1. /\ n \in 1..(Len(s) - 1) /\ m \in 1..(Len(s) - 1)
        /\ n + 1 \in 1..Len(s) /\ m + 1 \in 1..((n + 1) - 1)
    BY <1>1, <2>0
  <2>2. t[n] = s[n + 1] /\ t[m] = s[m + 1]
    BY <1>2, <2>1
  <2> QED BY <1>a, <2>1, <2>2 DEF OrderOK
<1>9. ASSUME NEW i \in 1..Len(chain) PROVE SessionOK(c, i)'
  <2> SUFFICES ASSUME chain[i].kind = "advanced"
               PROVE  /\ Fresh(c, i, chain[i].step + 1)'
                      /\ MakesRequest(chain[i]) => Requested(c, i, Len(s), chain[i].step)'
    BY <1>1, <1>2 DEF SessionOK
  <2>1. /\ Fresh(c, i, chain[i].step + 1)
        /\ MakesRequest(chain[i]) => Requested(c, i, Len(s) + 1, chain[i].step)
        /\ chain[i].step \in Int
    <3>1. chain[i] \in Event
      BY <1>5
    <3> QED BY <1>1, <3>1, EventFields DEF SessionOK
  <2>2. h.id = i => h.kind # "settled" /\ (h.kind = "advanced" => h.step <= chain[i].step)
    BY <1>1, <1>3, <1>b
  <2>3. Fresh(c, i, chain[i].step + 1)'
    <3>1. h.kind = "advanced" /\ h.id = i => h.step < chain[i].step + 1
      BY <1>4, <2>1, <2>2
    <3>2. chain[i].step + 1 \in Nat /\ chain[i].step + 1 > 0
      BY <2>1 DEF ChainOK
    <3>3. CASE h.id # i
      BY <2>1, <3>3
    <3>4. CASE h.id = i /\ h.kind = "opened"
      BY <2>1, <3>2, <3>4
    <3>5. CASE h.id = i /\ h.kind = "advanced"
      BY <3>1, <3>2, <3>5
    <3> QED BY <1>4, <2>2, <3>3, <3>4, <3>5
  <2>4. ASSUME MakesRequest(chain[i]) PROVE Requested(c, i, Len(s), chain[i].step)'
    <3>1. ASSUME IsAdvance(h, i), h.step = chain[i].step, NEW m \in 2..Len(s), IsAdvance(s[m], i)
          PROVE  FALSE
      <4>1. m \in 1..Len(s) /\ 1 \in 1..(m - 1)
        BY <1>1
      <4>2. s[m].step \in Int
        BY <1>c, <4>1
      <4>3. h.step < s[m].step /\ s[m].step <= chain[i].step
        BY <1>3, <1>a, <1>b, <3>1, <4>1 DEF IsAdvance
      <4> QED BY <1>4, <2>1, <3>1, <4>2, <4>3
    <3>2. Len(s) + 1 \in 2..(Len(s) + 1) /\ (Len(s) + 1) - 1 = Len(s)
      BY <1>1, <1>2
    <3>3. \A m \in 2..((Len(s) + 1) - 1) :
            IsAdvance(h, i) /\ h.step = chain[i].step => ~IsAdvance(s[m], i)
      BY <3>1, <3>2
    <3>4. Requested(c, i, (Len(s) + 1) - 1, chain[i].step)'
      BY <1>6, <2>1, <2>2, <2>4, <3>2, <3>3
    <3> QED BY <3>2, <3>4
  <2> QED BY <2>3, <2>4
<1> QED BY <1>2, <1>7, <1>8, <1>9 DEF Feed


\* The chain emits the next event of a session that is open.
LEMMA EmissionKeepsFeed ==
  ASSUME NEW c \in Channels, Feed(c), ChainOK, RowsOK, PatchesOK, UNCHANGED <<rows, patches>>,
         NEW s, s = transit[c], NEW t, t = transit'[c], NEW e \in Event, t = s \o <<e>>,
         NEW i \in DOMAIN chain, NEW d, d = chain[i], d.kind = "advanced",
         e.id = i, chain' = [chain EXCEPT ![i] = e], e.kind \in {"advanced", "settled"},
         e.kind = "advanced" => e.step = d.step + 1,
         e.randomness \in {Undefined, d.step}, e.randomness # Undefined => MakesRequest(d)
  PROVE  Feed(c)'
<1>1. /\ s \in Seq(Event) /\ Len(s) \in Nat
      /\ \A n \in 1..Len(s) : s[n] \in Event
  BY DEF Feed
<1>2. /\ t \in Seq(Event) /\ Len(t) = Len(s) + 1 /\ t[Len(s) + 1] = e
      /\ \A n \in 1..Len(s) : t[n] = s[n]
  <2>1. <<e>> \in Seq(Event) /\ Len(<<e>>) = 1 /\ <<e>>[1] = e
    OBVIOUS
  <2> QED BY <1>1, <2>1, Concatenated
<1>3. /\ chain \in Seq(Event) /\ Len(chain') = Len(chain) /\ DOMAIN chain' = DOMAIN chain
      /\ chain'[i] = e /\ \A j \in DOMAIN chain : j # i => chain'[j] = chain[j]
      /\ DOMAIN chain = 1..Len(chain)
  BY DEF ChainOK
<1>4. d \in Event /\ d.step \in Int /\ d.step > 0 /\ e.step \in Int
  BY <1>3, EventFields DEF ChainOK
<1>5. \A j, k : (Known(c, j, k)' <=> Known(c, j, k)) /\ (Fresh(c, j, k)' <=> Fresh(c, j, k))
  BY DEF Known, Fresh, Row
<1>6. \A n \in 1..Len(s) : \A m \in 1..(n - 1) :
        s[m].id = s[n].id =>
          /\ s[m].kind # "settled"
          /\ s[m].kind = "advanced" /\ s[n].kind = "advanced" => s[m].step < s[n].step
          /\ s[m].kind = "advanced" /\ s[n].kind = "settled" /\ s[n].randomness # Undefined =>
               s[m].step <= s[n].randomness
  BY DEF Feed, OrderOK
<1>7. \A n \in 1..Len(s) :
        /\ s[n].id \in DOMAIN chain
        /\ s[n].kind = "advanced" =>
             /\ s[n].step > 0 /\ s[n].randomness \in {Undefined, s[n].step - 1}
             /\ chain[s[n].id].kind = "advanced" => s[n].step <= chain[s[n].id].step
             /\ Fresh(c, s[n].id, s[n].step)
        /\ s[n].kind = "settled" =>
             /\ chain[s[n].id].kind = "settled"
             /\ s[n].randomness # Undefined =>
                  s[n].randomness > 0 /\ Requested(c, s[n].id, n, s[n].randomness)
  BY DEF Feed, EventOK
<1>8. ASSUME NEW j, NEW n \in 1..(Len(s) + 1), NEW k, Requested(c, j, n, k)
      PROVE  Requested(c, j, n, k)'
  <2>1. \A m \in 1..(n - 1) : t[m] = s[m]
    BY <1>1, <1>2
  <2> QED BY <1>5, <1>8, <2>1 DEF Requested
<1>9. /\ Fresh(c, i, d.step + 1)
      /\ MakesRequest(d) => Requested(c, i, Len(s) + 1, d.step)
  BY <1>3 DEF Feed, SessionOK
<1>10. ASSUME NEW n \in 1..Len(s) PROVE EventOK(c, n)'
  <2>1. t[n] = s[n] /\ s[n].step \in Int /\ n \in 1..(Len(s) + 1)
    BY <1>1, <1>2, EventFields
  <2>2. s[n].id = i => s[n].kind # "settled" /\ (s[n].kind = "advanced" => s[n].step <= d.step)
    BY <1>7
  <2>3. CASE s[n].id = i
    <3>1. \A a, b \in Int : a <= b => a <= b + 1
      OBVIOUS
    <3>2. s[n].kind = "advanced" /\ e.kind = "advanced" => s[n].step <= e.step
      BY <1>4, <2>1, <2>2, <2>3, <3>1, Zenon
    <3>3. chain'[s[n].id] = e /\ s[n].id \in DOMAIN chain'
      BY <1>3, <2>3
    <3>4. s[n].kind = "advanced" =>
            s[n].step > 0 /\ s[n].randomness \in {Undefined, s[n].step - 1} /\ Fresh(c, s[n].id, s[n].step)'
      BY <1>5, <1>7
    <3>5. s[n].kind # "settled"
      BY <2>2, <2>3
    <3> QED BY <2>1, <3>2, <3>3, <3>4, <3>5 DEF EventOK
  <2>4. CASE s[n].id # i
    <3>1. chain'[s[n].id] = chain[s[n].id] /\ s[n].id \in DOMAIN chain'
      BY <1>3, <1>7, <2>4
    <3>2. EventOK(c, n)
      BY DEF Feed
    <3> QED BY <1>5, <1>8, <2>1, <3>1, <3>2 DEF EventOK
  <2> QED BY <2>3, <2>4
<1>11. EventOK(c, Len(s) + 1)'
  <2>1. e.kind = "advanced" => e.step > 0 /\ e.randomness \in {Undefined, e.step - 1}
    BY <1>4
  <2>2. e.kind = "settled" /\ e.randomness # Undefined =>
          e.randomness > 0 /\ Requested(c, i, Len(s) + 1, e.randomness)'
    BY <1>1, <1>4, <1>8, <1>9
  <2>3. e.kind = "advanced" => e.step <= chain'[i].step /\ Fresh(c, i, e.step)'
    BY <1>3, <1>4, <1>5, <1>9
  <2> QED BY <1>2, <1>3, <2>1, <2>2, <2>3 DEF EventOK
<1>12. ASSUME NEW n \in 1..Len(s), NEW m \in 1..(n - 1) PROVE OrderOK(c, m, n)'
  <2>1. t[n] = s[n] /\ t[m] = s[m]
    BY <1>1, <1>2
  <2> QED BY <1>6, <2>1 DEF OrderOK
<1>13. ASSUME NEW m \in 1..Len(s) PROVE OrderOK(c, m, Len(s) + 1)'
  <2>1. t[m] = s[m] /\ s[m].step \in Int
    BY <1>1, <1>2, EventFields
  <2>2. s[m].id = i => s[m].kind # "settled" /\ (s[m].kind = "advanced" => s[m].step <= d.step)
    BY <1>7
  <2>3. s[m].id = i /\ s[m].kind = "advanced" =>
          /\ e.kind = "advanced" => s[m].step < e.step
          /\ e.randomness # Undefined => s[m].step <= e.randomness
    BY <1>4, <2>1, <2>2
  <2> QED BY <1>2, <2>1, <2>2, <2>3 DEF OrderOK
<1>14. ASSUME NEW j \in 1..Len(chain) PROVE SessionOK(c, j)'
  <2>1. CASE j # i
    <3>1. ASSUME NEW k, Requested(c, j, Len(s) + 1, k) PROVE Requested(c, j, Len(t) + 1, k)'
      <4>1. \A m \in 1..Len(s) : m \in 1..((Len(t) + 1) - 1)
        BY <1>1, <1>2
      <4>2. \A m \in 1..((Len(t) + 1) - 1) : m \in 1..((Len(s) + 1) - 1) \/ m = Len(s) + 1
        BY <1>1, <1>2
      <4>3. ~IsAdvance(e, j)
        BY <2>1 DEF IsAdvance
      <4>4. \A m \in 1..((Len(s) + 1) - 1) : m \in 1..Len(s)
        BY <1>1
      <4>5. CASE \E m \in 1..Len(s) : IsAdvance(s[m], j) /\ s[m].step = k /\ MakesRequest(s[m])
        <5>1. PICK m \in 1..Len(s) : IsAdvance(s[m], j) /\ s[m].step = k /\ MakesRequest(s[m])
          BY <4>5
        <5>2. t[m] = s[m] /\ m \in 1..((Len(t) + 1) - 1)
          BY <1>2, <4>1
        <5> QED BY <5>1, <5>2 DEF Requested
      <4>6. CASE (\A m \in 1..Len(s) : ~IsAdvance(s[m], j)) /\ Known(c, j, k)
        <5>1. \A m \in 1..((Len(t) + 1) - 1) : ~IsAdvance(t[m], j)
          BY <1>2, <4>2, <4>3, <4>4, <4>6
        <5> QED BY <1>5, <4>6, <5>1 DEF Requested
      <4>7. \/ \E m \in 1..Len(s) : IsAdvance(s[m], j) /\ s[m].step = k /\ MakesRequest(s[m])
            \/ (\A m \in 1..Len(s) : ~IsAdvance(s[m], j)) /\ Known(c, j, k)
        <5>1. \A m : m \in 1..((Len(s) + 1) - 1) <=> m \in 1..Len(s)
          BY <1>1
        <5> QED BY <3>1, <5>1 DEF Requested
      <4> QED BY <4>5, <4>6, <4>7
    <3> QED BY <1>3, <1>5, <2>1, <3>1 DEF Feed, SessionOK
  <2>2. CASE j = i /\ e.kind = "advanced"
    <3>1. Fresh(c, i, e.step + 1)
      BY <1>4, <1>9, <2>2 DEF Fresh, Row, RowsOK, RowOK, PatchesOK, PatchOK, InitialRow, Undefined
    <3>2. MakesRequest(e) => Requested(c, i, Len(t) + 1, e.step)'
      <4>1. Len(s) + 1 \in 1..((Len(t) + 1) - 1)
        BY <1>1, <1>2
      <4> QED BY <1>2, <2>2, <4>1 DEF Requested, IsAdvance
    <3> QED BY <1>3, <1>5, <2>2, <3>1, <3>2 DEF SessionOK
  <2>3. CASE j = i /\ e.kind # "advanced"
    BY <1>3, <2>3 DEF SessionOK
  <2> QED BY <2>1, <2>2, <2>3
<1>15. \A n \in 1..Len(t) : n \in 1..Len(s) \/ n = Len(s) + 1
  BY <1>1, <1>2
<1>16. \A m \in 1..((Len(s) + 1) - 1) : m \in 1..Len(s)
  BY <1>1
<1>17. \A n \in 1..Len(t) : EventOK(c, n)'
  BY <1>10, <1>11, <1>15
<1>18. \A n \in 1..Len(t) : \A m \in 1..(n - 1) : OrderOK(c, m, n)'
  BY <1>12, <1>13, <1>15, <1>16
<1> QED BY <1>2, <1>3, <1>14, <1>17, <1>18 DEF Feed

\* The chain opens session i.
LEMMA OpeningKeepsFeed ==
  ASSUME NEW c \in Channels, Feed(c), ChainOK, RowsOK, PatchesOK, UNCHANGED <<rows, patches>>,
         NEW s, s = transit[c], NEW t, t = transit'[c],
         NEW i, i = Len(chain) + 1, NEW o \in Event, o.kind = "opened", o.id = i,
         NEW e \in Event, e.kind = "advanced", e.id = i, e.step = 1, e.randomness = Undefined,
         t = s \o <<o, e>>, chain' = Append(chain, e)
  PROVE  Feed(c)'
<1>1. /\ s \in Seq(Event) /\ Len(s) \in Nat
      /\ \A n \in 1..Len(s) : s[n] \in Event
  BY DEF Feed
<1>2. /\ t \in Seq(Event) /\ Len(t) = Len(s) + 2
      /\ t[Len(s) + 1] = o /\ t[Len(s) + 2] = e
      /\ \A n \in 1..Len(s) : t[n] = s[n]
  <2>1. <<o, e>> \in Seq(Event) /\ Len(<<o, e>>) = 2 /\ <<o, e>>[1] = o /\ <<o, e>>[2] = e
    OBVIOUS
  <2> QED BY <1>1, <2>1, Concatenated
<1>3. /\ chain \in Seq(Event) /\ Len(chain) \in Nat /\ Len(chain') = i
      /\ DOMAIN chain = 1..Len(chain) /\ DOMAIN chain' = 1..i
      /\ chain'[i] = e /\ \A j \in DOMAIN chain : chain'[j] = chain[j]
  BY DEF ChainOK
<1>4. i \in DOMAIN chain' /\ i \notin DOMAIN chain /\ \A j \in DOMAIN chain : j \in DOMAIN chain' /\ j # i
  BY <1>3
<1>5. \A j, k : (Known(c, j, k)' <=> Known(c, j, k)) /\ (Fresh(c, j, k)' <=> Fresh(c, j, k))
  BY DEF Known, Fresh, Row
<1>6. \A k \in Nat : Fresh(c, i, k)
  <2>1. i \notin DOMAIN rows /\ i \notin DOMAIN patches
    BY <1>3, <1>4 DEF RowsOK, PatchesOK
  <2> QED BY <2>1 DEF Fresh, Row, InitialRow, Undefined
<1>7. \A n \in 1..Len(s) : s[n].id \in DOMAIN chain
  BY DEF Feed, EventOK
<1>8. ASSUME NEW j, NEW n \in 1..(Len(s) + 1), NEW k, Requested(c, j, n, k)
      PROVE  Requested(c, j, n, k)'
  <2>1. \A m \in 1..(n - 1) : t[m] = s[m]
    BY <1>1, <1>2
  <2> QED BY <1>5, <1>8, <2>1 DEF Requested
<1>9. ASSUME NEW n \in 1..Len(s) PROVE EventOK(c, n)'
  <2>1. t[n] = s[n] /\ n \in 1..(Len(s) + 1)
    BY <1>1, <1>2
  <2>2. chain'[s[n].id] = chain[s[n].id] /\ s[n].id \in DOMAIN chain'
    BY <1>3, <1>4, <1>7
  <2>3. EventOK(c, n)
    BY DEF Feed
  <2> QED BY <1>5, <1>8, <2>1, <2>2, <2>3 DEF EventOK
<1>10. EventOK(c, Len(s) + 1)'
  BY <1>2, <1>4 DEF EventOK
<1>11. EventOK(c, Len(s) + 2)'
  <2>1. Fresh(c, i, e.step)'
    <3>1. Fresh(c, i, 1)
      BY <1>6
    <3> QED BY <1>5, <3>1
  <2>2. t[Len(s) + 2] = e /\ chain'[e.id] = e /\ e.id \in DOMAIN chain'
    BY <1>2, <1>3, <1>4
  <2>3. e.step > 0 /\ e.step <= e.step /\ e.kind # "settled"
    OBVIOUS
  <2> QED BY <2>1, <2>2, <2>3 DEF EventOK
<1>12. ASSUME NEW n \in 1..Len(s), NEW m \in 1..(n - 1) PROVE OrderOK(c, m, n)'
  <2>1. t[n] = s[n] /\ t[m] = s[m]
    BY <1>1, <1>2
  <2>2. OrderOK(c, m, n)
    BY DEF Feed
  <2> QED BY <2>1, <2>2 DEF OrderOK
<1>13. ASSUME NEW m \in 1..Len(s) PROVE OrderOK(c, m, Len(s) + 1)' /\ OrderOK(c, m, Len(s) + 2)'
  <2>1. t[m] = s[m] /\ s[m].id # i
    BY <1>2, <1>4, <1>7
  <2> QED BY <1>2, <2>1 DEF OrderOK
<1>14. OrderOK(c, Len(s) + 1, Len(s) + 2)'
  BY <1>2 DEF OrderOK
<1>15. ASSUME NEW j \in 1..Len(chain) PROVE SessionOK(c, j)'
  <2>1. ASSUME NEW k, Requested(c, j, Len(s) + 1, k) PROVE Requested(c, j, Len(t) + 1, k)'
    <3>1. \A m \in 1..Len(s) : m \in 1..((Len(t) + 1) - 1)
      BY <1>1, <1>2
    <3>2. \A m \in 1..((Len(t) + 1) - 1) : m \in 1..Len(s) \/ m = Len(s) + 1 \/ m = Len(s) + 2
      BY <1>1, <1>2
    <3>3. ~IsAdvance(o, j) /\ ~IsAdvance(e, j)
      BY <1>3, <1>4 DEF IsAdvance
    <3>4. \A m \in 1..((Len(s) + 1) - 1) : m \in 1..Len(s)
      BY <1>1
    <3>5. CASE \E m \in 1..Len(s) : IsAdvance(s[m], j) /\ s[m].step = k /\ MakesRequest(s[m])
      <4>1. PICK m \in 1..Len(s) : IsAdvance(s[m], j) /\ s[m].step = k /\ MakesRequest(s[m])
        BY <3>5
      <4>2. t[m] = s[m] /\ m \in 1..((Len(t) + 1) - 1)
        BY <1>2, <3>1
      <4> QED BY <4>1, <4>2 DEF Requested
    <3>6. CASE (\A m \in 1..Len(s) : ~IsAdvance(s[m], j)) /\ Known(c, j, k)
      <4>1. \A m \in 1..((Len(t) + 1) - 1) : ~IsAdvance(t[m], j)
        BY <1>2, <3>2, <3>3, <3>6
      <4> QED BY <1>5, <3>6, <4>1 DEF Requested
    <3>7. \/ \E m \in 1..Len(s) : IsAdvance(s[m], j) /\ s[m].step = k /\ MakesRequest(s[m])
          \/ (\A m \in 1..Len(s) : ~IsAdvance(s[m], j)) /\ Known(c, j, k)
      <4>1. \A m : m \in 1..((Len(s) + 1) - 1) <=> m \in 1..Len(s)
        BY <1>1
      <4> QED BY <2>1, <4>1 DEF Requested
    <3> QED BY <3>5, <3>6, <3>7
  <2>2. SessionOK(c, j) /\ chain'[j] = chain[j]
    BY <1>3 DEF Feed
  <2> QED BY <1>5, <2>1, <2>2 DEF SessionOK
<1>16. SessionOK(c, i)'
  <2>1. Fresh(c, i, e.step + 1)'
    <3>1. e.step + 1 \in Nat
      OBVIOUS
    <3>2. Fresh(c, i, e.step + 1)
      BY <1>6, <3>1
    <3> QED BY <1>5, <3>2
  <2>2. Requested(c, i, Len(t) + 1, 1)' \/ ~MakesRequest(e)
    <3>1. Len(s) + 2 \in 1..((Len(t) + 1) - 1)
      BY <1>1, <1>2
    <3> QED BY <1>2, <3>1 DEF Requested, IsAdvance
  <2> QED BY <1>3, <2>1, <2>2 DEF SessionOK
<1>17. \A n \in 1..Len(t) : n \in 1..Len(s) \/ n = Len(s) + 1 \/ n = Len(s) + 2
  BY <1>1, <1>2
<1>18. /\ \A m \in 1..((Len(s) + 1) - 1) : m \in 1..Len(s)
       /\ \A m \in 1..((Len(s) + 2) - 1) : m \in 1..Len(s) \/ m = Len(s) + 1
  BY <1>1
<1>19. \A n \in 1..Len(t) : EventOK(c, n)'
  BY <1>9, <1>10, <1>11, <1>17
<1>20. \A n \in 1..Len(t) : \A m \in 1..(n - 1) : OrderOK(c, m, n)'
  BY <1>12, <1>13, <1>14, <1>17, <1>18
<1>21. \A j \in 1..Len(chain') : j \in 1..Len(chain) \/ j = i
  BY <1>3
<1>22. \A j \in 1..Len(chain') : SessionOK(c, j)'
  BY <1>15, <1>16, <1>21
<1> QED BY <1>2, <1>19, <1>20, <1>22 DEF Feed

-----------------------------------------------------------------------------
(* What the consumers make of an event.                                    *)

\* A word is added under its own number, or none is.
LEMMA UpsertFiles ==
  ASSUME NEW requests, Filed(requests), NEW k, NEW word \in {k, Undefined}
  PROVE  Filed(UpsertRandomnessRequest(requests, k, word))
BY DEF Filed, UpsertRandomnessRequest, OrElse

\* The row after an event: it is sound, and it has taken the advance.
LEMMA RowEvolves ==
  ASSUME NEW row, RowOK(row), NEW e \in Event, NEW next, next = Evolve(row, e),
         e.kind = "advanced" =>
           /\ e.step > 0 /\ e.randomness \in {Undefined, e.step - 1}
           /\ row.status # "settled" /\ row.step < e.step,
         e.kind = "settled" /\ e.randomness # Undefined => e.randomness > 0 /\ row.step = e.randomness
  PROVE  /\ RowOK(next)
         /\ e.kind = "opened" => next.step = row.step /\ next.status = row.status
         /\ e.kind = "advanced" => next.step = e.step /\ next.status # "settled"
<1>1. row.step \in Int /\ Filed(row.randomnessRequests) /\ e.step \in Int /\ e.randomness \in Int
  BY EventFields DEF RowOK
<1>2. CASE e.kind = "opened"
  <2>1. next = [row EXCEPT !.known = TRUE]
    BY <1>2 DEF Evolve
  <2> QED BY <1>2, <2>1 DEF RowOK
<1>3. CASE e.kind = "advanced"
  <2> DEFINE answered == IF e.randomness = Undefined THEN row.randomnessRequests
                         ELSE UpsertRandomnessRequest(row.randomnessRequests, e.step - 1, e.randomness)
             requests == IF MakesRequest(e) THEN UpsertRandomnessRequest(answered, e.step, Undefined)
                         ELSE answered
  <2>1. ~(e.step <= row.step)
    BY <1>1, <1>3
  <2>2. next = EvolveAdvanced(row, e)
    BY <1>3, <2>1 DEF Evolve
  <2>3. Filed(answered)
    <3>1. e.step - 1 \in Int
      BY <1>1
    <3> QED BY <1>1, <1>3, <3>1, UpsertFiles
  <2> HIDE DEF answered
  <2>4. Filed(requests)
    BY <1>1, <2>3, UpsertFiles
  <2>5. next = [row EXCEPT
          !.step = e.step, !.phase = e.phase, !.gameState = e.gameState,
          !.encodedSession = e.step,
          !.randomnessFulfilled = ~MakesRequest(e) /\ (e.randomness # Undefined \/ @),
          !.randomnessRequests = requests]
    BY <2>2 DEF EvolveAdvanced, answered
  <2> HIDE DEF requests
  <2> QED BY <1>1, <1>3, <2>4, <2>5 DEF RowOK
<1>4. CASE e.kind = "settled"
  <2> DEFINE requests == IF e.randomness = Undefined THEN row.randomnessRequests
                         ELSE UpsertRandomnessRequest(row.randomnessRequests, OrElse(row.step, 0),
                                                      e.randomness)
  <2>1. Filed(requests)
    <3>1. e.randomness # Undefined => OrElse(row.step, 0) = e.randomness
      BY <1>1, <1>4 DEF OrElse, Undefined
    <3> QED BY <1>1, <3>1, UpsertFiles
  <2>2. next = [row EXCEPT
          !.known = TRUE, !.status = "settled", !.phase = e.phase, !.payout = e.payout,
          !.gameState = e.gameState, !.encodedSession = Undefined, !.settledAt = BlockClock,
          !.randomnessFulfilled = e.randomness # Undefined \/ @,
          !.randomnessRequests = requests]
    BY <1>4 DEF Evolve, EvolveSettled
  <2> HIDE DEF requests
  <2> QED BY <1>1, <1>4, <2>1, <2>2 DEF RowOK
<1> QED BY <1>2, <1>3, <1>4 DEF Event

\* The patch after an event: it is sound, and it has taken the advance.
LEMMA PatchAdvances ==
  ASSUME NEW patch, PatchOK(patch), ~patch.settled, NEW e \in Event, e.step > 0,
         e.randomness \in {Undefined, e.step - 1}, NEW next, next = PatchAdvanced(patch, e)
  PROVE  /\ PatchOK(next) /\ next.step = e.step /\ ~next.settled
         /\ MakesRequest(e) => next.requestNonce = e.step
<1>1. /\ e.step \in Int /\ e.randomness \in Int /\ patch.requestNonce \in Int
      /\ patch.fulfilledNonce # Undefined => patch.randomness \in {patch.fulfilledNonce, Undefined}
  BY EventFields DEF PatchOK, PatchFields
<1> DEFINE stepped == [patch EXCEPT !.step = e.step, !.phase = e.phase, !.gameState = e.gameState,
                                    !.encodedSession = e.step]
           answered == IF e.randomness = Undefined THEN stepped
                       ELSE WithFulfillment(stepped, e.step - 1, e.randomness)
<1>2. next = IF MakesRequest(e) THEN [answered EXCEPT !.requestNonce = e.step] ELSE answered
  BY DEF PatchAdvanced
<1>3. PatchOK(stepped) /\ stepped.step = e.step /\ ~stepped.settled
  <2>1. /\ stepped.step = e.step /\ stepped.settled = patch.settled
        /\ stepped.requestNonce = patch.requestNonce /\ stepped.randomness = patch.randomness
        /\ stepped.fulfilledNonce = patch.fulfilledNonce
    BY DEF PatchOK, PatchFields
  <2>2. stepped = [f \in PatchFields |-> stepped[f]]
    BY DEF PatchOK, PatchFields
  <2> HIDE DEF stepped
  <2>3. stepped.step # Undefined
    BY <1>1, <2>1 DEF Undefined
  <2> QED BY <1>1, <2>1, <2>2, <2>3 DEF PatchOK, PatchFields
<1> HIDE DEF stepped
<1>4. PatchOK(answered) /\ answered.step = e.step /\ ~answered.settled
  <2>1. CASE e.randomness = Undefined
    BY <1>3, <2>1
  <2>2. CASE e.randomness # Undefined
    <3>1. answered = [stepped EXCEPT !.randomness = e.randomness, !.fulfilledNonce = e.step - 1]
      BY <1>1, <2>2 DEF WithFulfillment, OrElse, Undefined
    <3>2. /\ answered.step = e.step /\ answered.settled = stepped.settled
          /\ answered.requestNonce = stepped.requestNonce /\ answered.randomness = e.randomness
          /\ answered.fulfilledNonce = e.step - 1
      BY <1>3, <3>1 DEF PatchOK, PatchFields
    <3>3. answered = [f \in PatchFields |-> answered[f]]
      BY <1>3, <3>1 DEF PatchOK, PatchFields
    <3> HIDE DEF answered
    <3>4. answered.step # Undefined /\ stepped.requestNonce \in Int
      BY <1>1, <1>3, <3>2 DEF PatchOK, PatchFields, Undefined
    <3> QED BY <1>1, <1>3, <2>2, <3>2, <3>3, <3>4 DEF PatchOK, PatchFields
  <2> QED BY <2>1, <2>2
<1> HIDE DEF answered
<1> QED BY <1>1, <1>2, <1>4 DEF PatchOK, PatchFields, Undefined

LEMMA PatchSettles ==
  ASSUME NEW patch, PatchOK(patch), ~patch.settled, NEW e \in Event, NEW next,
         next = PatchSettled(patch, e),
         e.randomness # Undefined =>
           OrElse(patch.requestNonce, patch.step) \in {e.randomness, Undefined}
  PROVE  PatchOK(next)
<1> DEFINE stepped == [patch EXCEPT !.settled = TRUE, !.phase = e.phase, !.payout = e.payout,
                                    !.gameState = e.gameState, !.settledAt = PageClock]
           nonce == OrElse(patch.requestNonce, patch.step)
<1>1. next = IF e.randomness = Undefined THEN stepped ELSE WithFulfillment(stepped, nonce, e.randomness)
  BY DEF PatchSettled
<1>2. PatchOK(stepped) /\ stepped.settled /\ stepped.fulfilledNonce = patch.fulfilledNonce
  <2>1. /\ stepped.settled = TRUE /\ stepped.step = patch.step
        /\ stepped.requestNonce = patch.requestNonce /\ stepped.randomness = patch.randomness
        /\ stepped.fulfilledNonce = patch.fulfilledNonce
    BY DEF PatchOK, PatchFields
  <2>2. stepped = [f \in PatchFields |-> stepped[f]]
    BY DEF PatchOK, PatchFields
  <2> HIDE DEF stepped
  <2> QED BY <2>1, <2>2 DEF PatchOK, PatchFields
<1>3. nonce = Undefined => patch.fulfilledNonce = Undefined
  BY DEF PatchOK, PatchFields, OrElse
<1> HIDE DEF stepped, nonce
<1>4. CASE e.randomness = Undefined
  BY <1>1, <1>2, <1>4
<1>5. CASE e.randomness # Undefined
  <2>1. nonce \in {e.randomness, Undefined}
    BY <1>5 DEF nonce
  <2>2. next = [stepped EXCEPT !.randomness = e.randomness,
                               !.fulfilledNonce = IF nonce = Undefined THEN @ ELSE nonce]
    BY <1>1, <1>5 DEF WithFulfillment, OrElse
  <2> QED BY <1>2, <1>3, <2>1, <2>2 DEF PatchOK, PatchFields
<1> QED BY <1>4, <1>5

LEMMA NoPatchIsSound == PatchOK(NoPatch) /\ ~NoPatch.settled /\ NoPatch.step = Undefined
                        /\ OrElse(NoPatch.requestNonce, NoPatch.step) = Undefined
<1>1. NoPatch = [f \in PatchFields |-> NoPatch[f]]
  BY DEF NoPatch, PatchFields
<1> QED BY <1>1 DEF NoPatch, PatchOK, Undefined, OrElse

-----------------------------------------------------------------------------
(* The steps.                                                              *)

LEMMA IndexedDelivery ==
  ASSUME Calm, ~world.rough, NEW n \in Nat, DeliverIndexed(n)
  PROVE  Calm'
<1>1. PICK h : h = transit["indexed"][1]
  OBVIOUS
<1>2. n = 1 /\ Len(transit["indexed"]) > 0 /\ "indexed" \in Channels /\ "flashblock" \in Channels
  BY DEF DeliverIndexed, Deliver, Channels, Calm, Feed
<1>3. /\ transit'["indexed"] = RemoveAt(transit["indexed"], 1)
      /\ transit'["flashblock"] = transit["flashblock"]
      /\ transit' = [c \in Channels |-> transit'[c]]
  BY <1>2 DEF DeliverIndexed, Deliver, Calm
<1>4. /\ rows' = [i \in DOMAIN rows \cup {h.id} |-> IF i = h.id THEN Evolve(Row(i), h) ELSE rows[i]]
      /\ UNCHANGED <<chain, patches>>
  BY <1>1, <1>2 DEF DeliverIndexed
<1>5. h \in Event /\ EventOK("indexed", 1) /\ h.id \in 1..Len(chain)
  BY <1>1, <1>2 DEF Calm, ChainOK, Feed, EventOK
<1>6. PICK row : row = Row(h.id)
  OBVIOUS
<1>7. RowOK(row)
  <2>1. RowOK(InitialRow)
    BY DEF RowOK, InitialRow, Filed, Undefined
  <2> QED BY <1>6, <2>1 DEF Row, Calm, RowsOK
<1>8. PICK next : next = Evolve(row, h)
  OBVIOUS
<1>9. /\ h.kind = "advanced" =>
           /\ h.step > 0 /\ h.randomness \in {Undefined, h.step - 1}
           /\ row.status # "settled" /\ row.step < h.step
      /\ h.kind = "settled" /\ h.randomness # Undefined => h.randomness > 0 /\ row.step = h.randomness
  BY <1>1, <1>5, <1>6 DEF EventOK, Fresh, Requested, Known
<1>10. /\ RowOK(next)
       /\ h.kind = "opened" => next.step = row.step /\ next.status = row.status
       /\ h.kind = "advanced" => next.step = h.step /\ next.status # "settled"
  BY <1>5, <1>7, <1>8, <1>9, RowEvolves
<1>11. Row(h.id)' = next /\ \A i : i # h.id => Row(i)' = Row(i)
  BY <1>4, <1>6, <1>8 DEF Row
<1>12. RowsOK'
  BY <1>4, <1>5, <1>6, <1>8, <1>10 DEF Calm, RowsOK
<1>13. Feed("flashblock")'
  <2>1. \A i, k : /\ Known("flashblock", i, k) => Known("flashblock", i, k)'
                  /\ Fresh("flashblock", i, k) => Fresh("flashblock", i, k)'
    BY <1>4 DEF Known, Fresh
  <2> QED BY <1>2, <1>3, <1>4, <2>1, KnowingMoreKeepsFeed DEF Calm
<1>14. Feed("indexed")'
  <2>1. \A i, k : i # h.id =>
          /\ Known("indexed", i, k) => Known("indexed", i, k)'
          /\ Fresh("indexed", i, k) => Fresh("indexed", i, k)'
    BY <1>11 DEF Known, Fresh
  <2>2. h.kind = "opened" => \A k : /\ Known("indexed", h.id, k) => Known("indexed", h.id, k)'
                                    /\ k \in Nat /\ k > 0 /\ Fresh("indexed", h.id, k) => Fresh("indexed", h.id, k)'
    BY <1>6, <1>10, <1>11 DEF Known, Fresh
  <2>3. h.kind = "advanced" => /\ MakesRequest(h) => Known("indexed", h.id, h.step)'
                               /\ \A k \in Int : h.step < k => Fresh("indexed", h.id, k)'
    BY <1>10, <1>11 DEF Known, Fresh
  <2> QED BY <1>1, <1>2, <1>3, <1>4, <2>1, <2>2, <2>3, DeliveryKeepsFeed DEF Calm
<1> QED BY <1>3, <1>4, <1>12, <1>13, <1>14 DEF Calm, ChainOK, PatchesOK

LEMMA FlashblockDelivery ==
  ASSUME Calm, ~world.rough, NEW n \in Nat, DeliverFlashblock(n)
  PROVE  Calm'
<1>1. PICK h : h = transit["flashblock"][1]
  OBVIOUS
<1>2. n = 1 /\ Len(transit["flashblock"]) > 0 /\ "indexed" \in Channels /\ "flashblock" \in Channels
  BY DEF DeliverFlashblock, Deliver, Channels, Calm, Feed
<1>3. /\ transit'["flashblock"] = RemoveAt(transit["flashblock"], 1)
      /\ transit'["indexed"] = transit["indexed"]
      /\ transit' = [c \in Channels |-> transit'[c]]
  BY <1>2 DEF DeliverFlashblock, Deliver, Calm
<1>4. patches' = ApplyFlashblockEvent(patches, h) /\ UNCHANGED <<chain, rows>>
  BY <1>1, <1>2 DEF DeliverFlashblock
<1>5. h \in Event /\ EventOK("flashblock", 1) /\ h.id \in 1..Len(chain)
  BY <1>1, <1>2 DEF Calm, ChainOK, Feed, EventOK
<1>6. PICK patch : patch = IF h.id \in DOMAIN patches THEN patches[h.id] ELSE NoPatch
  OBVIOUS
<1>7. PatchOK(patch)
  BY <1>6, NoPatchIsSound DEF Calm, PatchesOK
<1>8. h.step \in Int /\ h.kind \in {"opened", "advanced", "settled"}
  BY <1>5, EventFields
<1>9. \E next : /\ \/ patches' = [i \in DOMAIN patches \cup {h.id} |-> IF i = h.id THEN next ELSE patches[i]]
                   \/ h.kind = "settled" /\ UNCHANGED patches
                /\ PatchOK(next)
                /\ h.kind = "opened" => next = patch
                /\ h.kind = "advanced" => /\ next.step = h.step /\ ~next.settled
                                          /\ MakesRequest(h) => next.requestNonce = h.step
  <2>1. CASE h.kind = "opened"
    <3>1. patches' = [i \in DOMAIN patches \cup {h.id} |-> IF i = h.id THEN patch ELSE patches[i]]
      BY <1>4, <1>6, <2>1 DEF ApplyFlashblockEvent
    <3> QED BY <1>7, <2>1, <3>1
  <2>2. CASE h.kind = "advanced"
    <3>1. h.step > 0 /\ h.randomness \in {Undefined, h.step - 1}
      BY <1>1, <1>5, <2>2 DEF EventOK
    <3>2. ~patch.settled /\ patch.step < h.step
      BY <1>1, <1>5, <1>6, <1>8, <2>2, <3>1, NoPatchIsSound DEF EventOK, Fresh, Undefined
    <3>3. ~(h.step <= patch.step)
      BY <1>7, <1>8, <3>2 DEF PatchOK
    <3>4. PICK next : next = PatchAdvanced(patch, h)
      OBVIOUS
    <3>5. patches' = [i \in DOMAIN patches \cup {h.id} |-> IF i = h.id THEN next ELSE patches[i]]
      BY <1>4, <1>6, <2>2, <3>2, <3>3, <3>4 DEF ApplyFlashblockEvent
    <3>6. /\ PatchOK(next) /\ next.step = h.step /\ ~next.settled
          /\ MakesRequest(h) => next.requestNonce = h.step
      BY <1>5, <1>7, <3>1, <3>2, <3>4, PatchAdvances
    <3> QED BY <2>2, <3>5, <3>6
  <2>3. CASE h.kind = "settled" /\ patch.settled
    <3>1. UNCHANGED patches
      BY <1>4, <1>6, <2>3 DEF ApplyFlashblockEvent
    <3> QED BY <1>7, <2>3, <3>1
  <2>4. CASE h.kind = "settled" /\ ~patch.settled
    <3>1. h.randomness # Undefined =>
            OrElse(patch.requestNonce, patch.step) \in {h.randomness, Undefined}
      BY <1>1, <1>5, <1>6, <2>4, NoPatchIsSound DEF EventOK, Requested, Known
    <3>2. PICK next : next = PatchSettled(patch, h)
      OBVIOUS
    <3>3. patches' = [i \in DOMAIN patches \cup {h.id} |-> IF i = h.id THEN next ELSE patches[i]]
      BY <1>4, <1>6, <2>4, <3>2 DEF ApplyFlashblockEvent
    <3>4. PatchOK(next)
      BY <1>5, <1>7, <2>4, <3>1, <3>2, PatchSettles
    <3> QED BY <2>4, <3>3, <3>4
  <2> QED BY <1>8, <2>1, <2>2, <2>3, <2>4
<1>10. PICK next : /\ \/ patches' = [i \in DOMAIN patches \cup {h.id} |-> IF i = h.id THEN next ELSE patches[i]]
                      \/ h.kind = "settled" /\ UNCHANGED patches
                   /\ PatchOK(next)
                   /\ h.kind = "opened" => next = patch
                   /\ h.kind = "advanced" => /\ next.step = h.step /\ ~next.settled
                                             /\ MakesRequest(h) => next.requestNonce = h.step
  BY <1>9
<1>11. PatchesOK'
  BY <1>4, <1>5, <1>10 DEF Calm, PatchesOK
<1>12. Feed("indexed")'
  <2>1. \A i, k : /\ Known("indexed", i, k) => Known("indexed", i, k)'
                  /\ Fresh("indexed", i, k) => Fresh("indexed", i, k)'
    BY <1>4 DEF Known, Fresh, Row
  <2> QED BY <1>2, <1>3, <1>4, <2>1, KnowingMoreKeepsFeed DEF Calm
<1>13. Feed("flashblock")'
  <2>1. \A i, k : i # h.id =>
          /\ Known("flashblock", i, k) => Known("flashblock", i, k)'
          /\ Fresh("flashblock", i, k) => Fresh("flashblock", i, k)'
    BY <1>10 DEF Known, Fresh
  <2>2. h.kind = "opened" =>
          \A k : /\ Known("flashblock", h.id, k) => Known("flashblock", h.id, k)'
                 /\ k \in Nat /\ k > 0 /\ Fresh("flashblock", h.id, k) => Fresh("flashblock", h.id, k)'
    <3> SUFFICES ASSUME h.kind = "opened", NEW k
                 PROVE  /\ Known("flashblock", h.id, k) => Known("flashblock", h.id, k)'
                        /\ k \in Nat /\ k > 0 /\ Fresh("flashblock", h.id, k) => Fresh("flashblock", h.id, k)'
      OBVIOUS
    <3>1. h.id \in DOMAIN patches' /\ patches'[h.id] = patch
      BY <1>10
    <3>2. CASE h.id \in DOMAIN patches
      BY <1>6, <3>1, <3>2 DEF Known, Fresh
    <3>3. CASE h.id \notin DOMAIN patches
      <4>1. patch = NoPatch
        BY <1>6, <3>3
      <4> QED BY <3>1, <4>1, NoPatchIsSound DEF Known, Fresh, Undefined
    <3> QED BY <3>2, <3>3
  <2>3. h.kind = "advanced" => /\ MakesRequest(h) => Known("flashblock", h.id, h.step)'
                               /\ \A k \in Int : h.step < k => Fresh("flashblock", h.id, k)'
    <3> SUFFICES ASSUME h.kind = "advanced"
                 PROVE  /\ MakesRequest(h) => Known("flashblock", h.id, h.step)'
                        /\ \A k \in Int : h.step < k => Fresh("flashblock", h.id, k)'
      OBVIOUS
    <3>1. patches'[h.id] = next
      BY <1>10
    <3>2. h.step > 0
      BY <1>1, <1>5 DEF EventOK
    <3> QED BY <1>10, <3>1, <3>2 DEF Known, Fresh, OrElse, Undefined
  <2> QED BY <1>1, <1>2, <1>3, <1>4, <2>1, <2>2, <2>3, DeliveryKeepsFeed DEF Calm
<1> QED BY <1>3, <1>4, <1>11, <1>12, <1>13 DEF Calm, ChainOK, RowsOK

\* The chain moves session i on, or ends it.
LEMMA NextEvent ==
  ASSUME Calm, NEW i \in DOMAIN chain, NEW d, d = chain[i], d.kind = "advanced",
         NEW e \in Event, e.id = i, e.kind \in {"advanced", "settled"},
         e.kind = "advanced" => e.step = d.step + 1,
         e.randomness \in {Undefined, d.step}, e.randomness # Undefined => MakesRequest(d),
         chain' = [chain EXCEPT ![i] = e], Emitted(<<e>>), UNCHANGED page
  PROVE  Calm'
<1>1. \A c \in Channels : transit'[c] = transit[c] \o <<e>>
  BY DEF Emitted
<1>2. UNCHANGED <<rows, patches>> /\ "indexed" \in Channels /\ "flashblock" \in Channels
  BY DEF page, Channels
<1>3. Feed("indexed")'
  BY <1>1, <1>2, EmissionKeepsFeed DEF Calm
<1>4. Feed("flashblock")'
  BY <1>1, <1>2, EmissionKeepsFeed DEF Calm
<1>5. /\ chain' \in Seq(Event) /\ Len(chain') = Len(chain)
      /\ chain'[i] = e /\ \A j \in DOMAIN chain : j # i => chain'[j] = chain[j]
      /\ DOMAIN chain = 1..Len(chain)
  BY DEF Calm, ChainOK
<1>6. e.kind = "advanced" => e.step > 0
  <2>1. d \in Event /\ d.step > 0
    BY <1>5 DEF Calm, ChainOK
  <2> QED BY <2>1, EventFields
<1>7. ChainOK'
  BY <1>5, <1>6 DEF Calm, ChainOK
<1>8. transit' = [c \in Channels |-> transit'[c]]
  BY DEF Emitted
<1> QED BY <1>2, <1>3, <1>4, <1>5, <1>7, <1>8 DEF Calm, RowsOK, PatchesOK

LEMMA OpeningKeepsCalm ==
  ASSUME Calm, OpenOnChain
  PROVE  Calm'
<1>1. PICK i : i = Len(chain) + 1
  OBVIOUS
<1>2. PICK o : o = Opened(i)
  OBVIOUS
<1>3. PICK e : e = Advanced(i, 1, "WAITING_RANDOMNESS", Undefined)
  OBVIOUS
<1>4. /\ chain \in Seq(Event) /\ Len(chain) \in Nat
      /\ chain' = Append(chain, e) /\ Emitted(<<o, e>>) /\ UNCHANGED page
  BY <1>1, <1>2, <1>3 DEF Calm, ChainOK, OpenOnChain
<1>5. o \in Event /\ o.kind = "opened" /\ o.id = i
  BY <1>1, <1>2, <1>4 DEF Opened, Event, Phases, Undefined
<1>6. e \in Event /\ e.kind = "advanced" /\ e.id = i /\ e.step = 1 /\ e.randomness = Undefined
  BY <1>1, <1>3, <1>4 DEF Advanced, Event, Phases, OpenPhases, Undefined
<1>7. \A c \in Channels : transit'[c] = transit[c] \o <<o, e>>
  BY <1>4 DEF Emitted
<1>8. UNCHANGED <<rows, patches>> /\ "indexed" \in Channels /\ "flashblock" \in Channels
  BY <1>4 DEF page, Channels
<1>9. Feed("indexed") /\ Feed("flashblock") /\ ChainOK /\ RowsOK /\ PatchesOK
  BY DEF Calm
<1>10. ASSUME NEW c \in Channels, Feed(c) PROVE Feed(c)'
  <2>1. PICK s, t : s = transit[c] /\ t = transit'[c]
    OBVIOUS
  <2>2. t = s \o <<o, e>>
    BY <1>7, <2>1
  <2>3. UNCHANGED <<rows, patches>> /\ chain' = Append(chain, e)
    BY <1>4, <1>8
  <2> QED BY <1>1, <1>5, <1>6, <1>9, <1>10, <2>1, <2>2, <2>3, OpeningKeepsFeed
<1>11. /\ chain' \in Seq(Event) /\ Len(chain') = i /\ chain'[i] = e
       /\ \A j \in 1..Len(chain) : chain'[j] = chain[j] /\ j \in 1..i
       /\ \A j \in 1..i : j \in 1..Len(chain) \/ j = i
  BY <1>1, <1>4, <1>6
<1>12. ChainOK'
  BY <1>6, <1>11 DEF Calm, ChainOK
<1>13. transit' = [c \in Channels |-> transit'[c]]
  BY <1>4 DEF Emitted
<1>14. RowsOK' /\ PatchesOK'
  BY <1>8, <1>11 DEF Calm, RowsOK, PatchesOK
<1> QED BY <1>8, <1>9, <1>10, <1>12, <1>13, <1>14 DEF Calm

LEMMA AdvanceKeepsCalm ==
  ASSUME Calm, NEW i \in DOMAIN chain, AdvanceOnChain(i)
  PROVE  Calm'
<1>1. PICK d : d = chain[i]
  OBVIOUS
<1>2. d \in Event /\ d.step > 0 /\ d.kind = "advanced" /\ i \in Int
  BY <1>1 DEF Calm, ChainOK, AdvanceOnChain
<1>3. PICK phase \in OpenPhases :
        /\ chain' = [chain EXCEPT ![i] = Advanced(i, d.step + 1, phase, Answer(d))]
        /\ Emitted(<<Advanced(i, d.step + 1, phase, Answer(d))>>)
  BY <1>1 DEF AdvanceOnChain
<1>4. PICK e : e = Advanced(i, d.step + 1, phase, Answer(d))
  OBVIOUS
<1>5. d.step \in Int
  BY <1>2, EventFields
<1>6. Answer(d) \in Int /\ Answer(d) \in {Undefined, d.step} /\ (Answer(d) # Undefined => MakesRequest(d))
  BY <1>5 DEF Answer, MakesRequest, Undefined
<1>7. /\ e \in Event /\ e.id = i /\ e.kind = "advanced" /\ e.step = d.step + 1
      /\ e.randomness = Answer(d)
  BY <1>2, <1>4, <1>5, <1>6 DEF Advanced, Event, Phases, Undefined
<1>8. UNCHANGED page
  BY DEF AdvanceOnChain
<1> QED BY <1>1, <1>2, <1>3, <1>4, <1>6, <1>7, <1>8, NextEvent

LEMMA SettlementKeepsCalm ==
  ASSUME Calm, NEW i \in DOMAIN chain, SettleOnChain(i)
  PROVE  Calm'
<1>1. PICK d : d = chain[i]
  OBVIOUS
<1>2. d \in Event /\ d.step > 0 /\ d.kind = "advanced" /\ i \in Int
  BY <1>1 DEF Calm, ChainOK, SettleOnChain
<1>3. PICK payout \in Payouts :
        \E e \in {Settled(i, "SETTLED", payout, d.step + 1, Answer(d)),
                  Settled(i, "CANCELLED", payout, d.step, Undefined)} :
          chain' = [chain EXCEPT ![i] = e] /\ Emitted(<<e>>)
  BY <1>1 DEF SettleOnChain
<1>4. PICK e \in {Settled(i, "SETTLED", payout, d.step + 1, Answer(d)),
                  Settled(i, "CANCELLED", payout, d.step, Undefined)} :
        chain' = [chain EXCEPT ![i] = e] /\ Emitted(<<e>>)
  BY <1>3
<1>5. d.step \in Int /\ payout \in Int
  BY <1>2, EventFields, SnapshotAssumption
<1>6. Answer(d) \in Int /\ Answer(d) \in {Undefined, d.step} /\ (Answer(d) # Undefined => MakesRequest(d))
  BY <1>5 DEF Answer, MakesRequest, Undefined
<1>7. /\ e \in Event /\ e.id = i /\ e.kind = "settled" /\ e.randomness \in {Undefined, Answer(d)}
  BY <1>2, <1>4, <1>5, <1>6 DEF Settled, Event, Phases, TerminalPhases, Undefined
<1>8. UNCHANGED page
  BY DEF SettleOnChain
<1> QED BY <1>1, <1>2, <1>4, <1>6, <1>7, <1>8, NextEvent

LEMMA PruneKeepsCalm ==
  ASSUME Calm, Prune
  PROVE  Calm'
<1>1. UNCHANGED <<chain, transit, rows>> /\ "indexed" \in Channels /\ "flashblock" \in Channels
  BY DEF Prune, Channels
<1>2. DOMAIN patches' \subseteq DOMAIN patches /\ \A i \in DOMAIN patches' : patches'[i] = patches[i]
  BY DEF Prune, PruneFlashblockPatches, Restrict
<1>3. \A c, i, k : /\ Known(c, i, k) => Known(c, i, k)'
                   /\ Fresh(c, i, k) => Fresh(c, i, k)'
  BY <1>1, <1>2 DEF Known, Fresh, Row
<1>4. Feed("indexed")' /\ Feed("flashblock")'
  BY <1>1, <1>3, KnowingMoreKeepsFeed DEF Calm
<1> QED BY <1>1, <1>2, <1>4 DEF Calm, ChainOK, RowsOK, PatchesOK

LEMMA OthersKeepCalm ==
  ASSUME Calm, UNCHANGED <<chain, transit, rows, patches>>
  PROVE  Calm'
<1>1. "indexed" \in Channels /\ "flashblock" \in Channels
  BY DEF Channels
<1>2. \A c, i, k : /\ Known(c, i, k) => Known(c, i, k)'
                   /\ Fresh(c, i, k) => Fresh(c, i, k)'
  BY DEF Known, Fresh, Row
<1>3. Feed("indexed")' /\ Feed("flashblock")'
  BY <1>1, <1>2, KnowingMoreKeepsFeed DEF Calm
<1> QED BY <1>3 DEF Calm, ChainOK, RowsOK, PatchesOK

THEOREM CalmInvariant == Spec => []CalmInv
<1>1. Init => CalmInv
  <2> SUFFICES ASSUME Init PROVE Calm
    BY DEF CalmInv
  <2>1. ChainOK /\ RowsOK /\ PatchesOK /\ transit = [c \in Channels |-> transit[c]]
    BY DEF Init, ChainOK, RowsOK, PatchesOK
  <2>2. \A c \in Channels : Feed(c)
    BY DEF Init, Feed
  <2> QED BY <2>1, <2>2 DEF Calm, Channels
<1>2. CalmInv /\ [Next]_vars => CalmInv'
  <2> SUFFICES ASSUME CalmInv, [Next]_vars PROVE CalmInv'
    OBVIOUS
  <2>1. UNCHANGED world
    BY DEF Next, vars, page, OpenOnChain, AdvanceOnChain, SettleOnChain, Deliveries, DeliverIndexed,
           DeliverFlashblock, PlaceBet, Receipt, BetFails, ToggleWallet, Prune, Render
  <2> SUFFICES ASSUME ~world.rough PROVE Calm'
    BY <2>1 DEF CalmInv
  <2>2. Calm
    BY DEF CalmInv
  <2>3. CASE OpenOnChain
    BY <2>2, <2>3, OpeningKeepsCalm
  <2>4. ASSUME NEW i \in DOMAIN chain, AdvanceOnChain(i) \/ SettleOnChain(i) PROVE Calm'
    BY <2>2, <2>4, AdvanceKeepsCalm, SettlementKeepsCalm
  <2>5. CASE Deliveries
    <3>1. PICK n \in 1..(world.sessions * (world.steps + 2)) : DeliverIndexed(n) \/ DeliverFlashblock(n)
      BY <2>5 DEF Deliveries
    <3>2. n \in Nat
      BY <3>1 DEF DeliverIndexed, DeliverFlashblock, Deliver
    <3> QED BY <2>2, <3>1, <3>2, IndexedDelivery, FlashblockDelivery
  <2>6. CASE \E i \in world.bets : PlaceBet(i) \/ Receipt(i) \/ BetFails(i)
    BY <2>2, <2>6, OthersKeepCalm DEF PlaceBet, Receipt, BetFails
  <2>7. CASE ToggleWallet
    BY <2>7 DEF ToggleWallet
  <2>8. CASE Prune
    BY <2>2, <2>8, PruneKeepsCalm
  <2>9. CASE Render
    BY <2>2, <2>9, OthersKeepCalm DEF Render
  <2>10. CASE UNCHANGED vars
    BY <2>2, <2>10, OthersKeepCalm DEF vars
  <2> QED BY <2>3, <2>4, <2>5, <2>6, <2>7, <2>8, <2>9, <2>10 DEF Next
<1> QED BY <1>1, <1>2, PTL DEF Spec

\* While the channels keep their order, a random word is filed under the request it
\* answers, in the row and in the patch laid over it: randomness verification reads
\* the proof by that request.
THEOREM WordsAreFiled == Spec => []WordsAnswerTheirRequests
<1>1. CalmInv => WordsAnswerTheirRequests
  <2> SUFFICES ASSUME CalmInv, ~world.rough, NEW i \in DOMAIN rows, NEW merged,
                      merged = IF i \in DOMAIN patches
                               THEN MergeFlashblockPatchIntoRow(rows[i], patches[i]) ELSE rows[i]
               PROVE  Filed(merged.randomnessRequests)
    BY DEF WordsAnswerTheirRequests, Filed
  <2>1. RowOK(rows[i]) /\ (i \in DOMAIN patches => PatchOK(patches[i]))
    BY DEF CalmInv, Calm, RowsOK, PatchesOK
  <2>2. CASE i \notin DOMAIN patches
    BY <2>1, <2>2 DEF RowOK
  <2>3. CASE i \in DOMAIN patches
    <3>1. PICK row : row = rows[i]
      OBVIOUS
    <3>2. PICK patch : patch = patches[i]
      OBVIOUS
    <3>3. PICK laid : laid = IF RowIsTerminal(row) THEN row
                             ELSE OverlaySettled(OverlayStep(row, patch), patch)
      OBVIOUS
    <3>4. RowOK(OverlayStep(row, patch))
      BY <2>1, <2>3, <3>1, <3>2 DEF RowOK, PatchOK, OverlayStep
    <3>5. RowOK(laid)
      <4>1. PICK stepped : stepped = OverlayStep(row, patch)
        OBVIOUS
      <4>2. RowOK(OverlaySettled(stepped, patch))
        BY <3>4, <4>1 DEF RowOK, OverlaySettled
      <4> QED BY <2>1, <3>1, <3>3, <4>1, <4>2
    <3>6. merged = OverlayFulfillment(laid, row, patch)
      BY <2>3, <3>1, <3>2, <3>3 DEF MergeFlashblockPatchIntoRow
    <3>7. patch.fulfilledNonce # Undefined => patch.randomness \in {patch.fulfilledNonce, Undefined}
      BY <2>1, <2>3, <3>2 DEF PatchOK
    <3>8. Filed(UpsertRandomnessRequest(laid.randomnessRequests, patch.fulfilledNonce, patch.randomness))
          \/ patch.fulfilledNonce = Undefined
      BY <3>5, <3>7, UpsertFiles DEF RowOK
    <3> QED BY <3>5, <3>6, <3>8 DEF RowOK, OverlayFulfillment
  <2> QED BY <2>2, <2>3
<1> QED BY <1>1, CalmInvariant, PTL

-----------------------------------------------------------------------------
(* The bytes an action echoes, in any world.                               *)

Steps == Nat \cup {Undefined}
Snapshots == {s \in [step : Steps, encodedSession : Steps] : s.encodedSession = s.step /\ s.step # 0}

\* What resolveEncodedSession gives for a listed session that is open is never older
\* than before.
EchoNeverGoesBack ==
  \A i \in DOMAIN SessionRows' : \A remembered, received \in Snapshots :
    \/ rows'[i].status = "settled"
    \/ ResolveEncodedSession(remembered, i)
         <= ResolveEncodedSession(RememberSessionSnapshot(remembered, received), i)'

\* It is a step that the session committed, and the current one once its indexed
\* events are all in.
EchoIsCommitted ==
  \A i \in DOMAIN SessionRows : \A remembered \in Snapshots :
    chain[i].kind = "advanced" /\ remembered.step <= chain[i].step =>
      /\ ResolveEncodedSession(remembered, i) \in {Undefined} \cup 1..chain[i].step
      /\ (\A n \in 1..Len(transit["indexed"]) : transit["indexed"][n].id # i)
           => ResolveEncodedSession(remembered, i) = chain[i].step

\* An event on its way is about a session as the chain has it, or had it.
Told(e) ==
  /\ e.id \in 1..Len(chain)
  /\ e.kind = "advanced" => e.step > 0
  /\ chain[e.id].kind = "advanced" =>
       e.kind # "settled" /\ (e.kind = "advanced" => e.step <= chain[e.id].step)

\* A row or a patch has the bytes of its step, a row until it is settled.
RowHolds(row) ==
  /\ row = [known |-> row.known, status |-> row.status, phase |-> row.phase, step |-> row.step,
            gameState |-> row.gameState, encodedSession |-> row.encodedSession,
            randomnessFulfilled |-> row.randomnessFulfilled,
            randomnessRequests |-> row.randomnessRequests, payout |-> row.payout,
            settledAt |-> row.settledAt]
  /\ row.step \in Steps /\ row.step # 0
  /\ row.status # "settled" => row.encodedSession = row.step

PatchHolds(patch) ==
  /\ patch = [f \in PatchFields |-> patch[f]]
  /\ patch.step \in Steps /\ patch.step # 0 /\ patch.encodedSession = patch.step

\* The last advance of an open session is in its row or on its way there.
Arrives(i) ==
  \/ Row(i).step = chain[i].step
  \/ \E n \in 1..Len(transit["indexed"]) :
       IsAdvance(transit["indexed"][n], i) /\ transit["indexed"][n].step = chain[i].step

ChannelTold(c) == transit[c] \in Seq(Event) /\ \A n \in 1..Len(transit[c]) : Told(transit[c][n])

TransitTold == transit = [c \in Channels |-> transit[c]] /\ \A c \in Channels : ChannelTold(c)

RowsHold ==
  \A i \in DOMAIN rows :
    /\ i \in 1..Len(chain) /\ RowHolds(rows[i])
    /\ chain[i].kind = "advanced" => rows[i].status # "settled" /\ rows[i].step <= chain[i].step

PatchesHold ==
  \A i \in DOMAIN patches :
    /\ i \in 1..Len(chain) /\ PatchHolds(patches[i])
    /\ chain[i].kind = "advanced" => patches[i].step <= chain[i].step

RenderedHolds ==
  \A i \in DOMAIN rendered :
    i \in DOMAIN rows /\ rendered[i].step \in Steps /\ rendered[i].step <= rows[i].step

Echoed ==
  /\ ChainOK /\ TransitTold /\ RowsHold /\ PatchesHold /\ RenderedHolds
  /\ \A i \in 1..Len(chain) : chain[i].kind = "advanced" => Arrives(i)

-----------------------------------------------------------------------------
\* t is what is left of s without its n-th event.
Without(s, n, t) ==
  /\ t \in Seq(Event)
  /\ \A k \in 1..Len(s) : k # n => \E m \in 1..Len(t) : t[m] = s[k]
  /\ \A m \in 1..Len(t) : \E k \in 1..Len(s) : t[m] = s[k]

LEMMA EventRemoved ==
  ASSUME NEW s \in Seq(Event), NEW n \in 1..Len(s)
  PROVE  Without(s, n, RemoveAt(s, n))
<1>0. PICK t : t = RemoveAt(s, n)
  OBVIOUS
<1>1. PICK a, b : a = SubSeq(s, 1, n - 1) /\ b = SubSeq(s, n + 1, Len(s))
  OBVIOUS
<1>2. t = a \o b
  BY <1>0, <1>1 DEF RemoveAt
<1>3. n \in Nat /\ n > 0 /\ Len(s) \in Nat /\ n <= Len(s) /\ \A k \in 1..Len(s) : s[k] \in Event
  OBVIOUS
<1>4. a \in Seq(Event) /\ Len(a) = n - 1 /\ \A k \in 1..(n - 1) : a[k] = s[k]
  <2>1. 1 \in Int /\ n - 1 \in Int /\ \A k \in 1..(n - 1) : s[k] \in Event
    BY <1>3
  <2>2. /\ a \in Seq(Event) /\ Len(a) = IF 1 <= n - 1 THEN n - 1 - 1 + 1 ELSE 0
        /\ \A k \in 1..(n - 1 - 1 + 1) : a[k] = s[1 + k - 1]
    BY <1>1, <2>1, SubSeqProperties
  <2>3. n - 1 - 1 + 1 = n - 1 /\ \A k \in 1..(n - 1) : 1 + k - 1 = k
    BY <1>3
  <2>4. (1 <= n - 1 \/ n - 1 = 0) /\ (n - 1 = 0 => ~(1 <= n - 1))
    BY <1>3
  <2>5. Len(a) = n - 1
    BY <2>2, <2>3, <2>4, Zenon
  <2>6. \A k \in 1..(n - 1) : a[k] = s[k]
    BY <2>2, <2>3, Zenon
  <2> QED BY <2>2, <2>5, <2>6
<1>5. b \in Seq(Event) /\ Len(b) = Len(s) - n /\ \A k \in 1..(Len(s) - n) : b[k] = s[n + k]
  <2>1. n + 1 \in Int /\ Len(s) \in Int /\ \A k \in (n + 1)..Len(s) : s[k] \in Event
    BY <1>3
  <2>2. /\ b \in Seq(Event) /\ Len(b) = IF n + 1 <= Len(s) THEN Len(s) - (n + 1) + 1 ELSE 0
        /\ \A k \in 1..(Len(s) - (n + 1) + 1) : b[k] = s[(n + 1) + k - 1]
    BY <1>1, <2>1, SubSeqProperties
  <2>3. Len(s) - (n + 1) + 1 = Len(s) - n /\ \A k \in 1..(Len(s) - n) : (n + 1) + k - 1 = n + k
    BY <1>3
  <2>4. (n + 1 <= Len(s) \/ Len(s) - n = 0) /\ (Len(s) - n = 0 => ~(n + 1 <= Len(s)))
    BY <1>3
  <2>5. Len(b) = Len(s) - n
    BY <2>2, <2>3, <2>4, Zenon
  <2>6. \A k \in 1..(Len(s) - n) : b[k] = s[n + k]
    BY <2>2, <2>3, Zenon
  <2> QED BY <2>2, <2>5, <2>6
<1>6. /\ t \in Seq(Event) /\ Len(t) = Len(a) + Len(b)
      /\ \A k \in 1..Len(a) : t[k] = a[k]
      /\ \A k \in 1..Len(b) : t[Len(a) + k] = b[k]
  <2>1. a \in Seq(Event) /\ b \in Seq(Event)
    BY <1>4, <1>5
  <2>2. /\ a \o b \in Seq(Event) /\ Len(a \o b) = Len(a) + Len(b)
        /\ \A k \in 1..Len(a) : (a \o b)[k] = a[k]
        /\ \A k \in 1..Len(b) : (a \o b)[Len(a) + k] = b[k]
    BY <2>1, Concatenated
  <2> QED BY <1>2, <2>2, Zenon
<1>7. ASSUME NEW k \in 1..Len(s), k # n PROVE \E m \in 1..Len(t) : t[m] = s[k]
  <2>1. CASE k < n
    <3>1. k \in 1..(n - 1) /\ k \in 1..Len(t)
      BY <1>3, <1>4, <1>5, <1>6, <2>1
    <3>2. t[k] = s[k]
      BY <1>4, <1>6, <3>1, Zenon
    <3> QED BY <3>1, <3>2
  <2>2. CASE k > n
    <3> DEFINE d == k - n
    <3>1. d \in 1..(Len(s) - n) /\ n + d = k
      BY <1>3, <2>2
    <3>2. Len(a) + d \in 1..Len(t)
      BY <1>3, <1>4, <1>5, <1>6, <3>1
    <3> HIDE DEF d
    <3>3. t[Len(a) + d] = s[k]
      BY <1>5, <1>6, <3>1, Zenon
    <3> QED BY <3>2, <3>3, Zenon
  <2> QED BY <1>3, <1>7, <2>1, <2>2
<1>8. ASSUME NEW m \in 1..Len(t) PROVE \E k \in 1..Len(s) : t[m] = s[k]
  <2>1. CASE m < n
    <3>1. m \in 1..Len(s) /\ m \in 1..(n - 1)
      BY <1>3, <1>4, <1>5, <1>6, <2>1
    <3>2. t[m] = s[m]
      BY <1>4, <1>6, <3>1, Zenon
    <3> QED BY <3>1, <3>2
  <2>2. CASE m >= n
    <3> DEFINE d == m - Len(a)
    <3>1. d \in 1..(Len(s) - n) /\ Len(a) + d = m /\ n + d \in 1..Len(s)
      BY <1>3, <1>4, <1>5, <1>6, <2>2
    <3> HIDE DEF d
    <3>2. t[m] = s[n + d]
      BY <1>5, <1>6, <3>1, Zenon
    <3> QED BY <3>1, <3>2, Zenon
  <2> QED BY <1>3, <2>1, <2>2
<1>9. Without(s, n, t)
  BY <1>6, <1>7, <1>8 DEF Without
<1> QED BY <1>0, <1>9

\* latestEncodedSession finds a candidate of the highest step.
LEMMA LatestIsNewest ==
  ASSUME NEW a \in Snapshots, NEW b \in Snapshots, NEW c \in Snapshots,
         NEW r, r = LatestEncodedSession(<<a, b, c>>)
  PROVE  /\ r \in {a.step, b.step, c.step}
         /\ a.step <= r /\ b.step <= r /\ c.step <= r
<1> DEFINE q == <<a, b, c>>
           held == {n \in DOMAIN q : q[n].step # Undefined}
           newest == {n \in held : \A m \in held : q[m].step <= q[n].step}
           first == CHOOSE n \in newest : \A m \in newest : n <= m
<1>1. q[1] = a /\ q[2] = b /\ q[3] = c /\ DOMAIN q = {1, 2, 3}
  OBVIOUS
<1>2. r = IF held = {} THEN Undefined ELSE q[first].encodedSession
  BY Zenon DEF LatestEncodedSession
<1> HIDE DEF q
<1>3. \A n \in {1, 2, 3} : q[n].step \in Int /\ q[n].step >= Undefined /\ q[n].encodedSession = q[n].step
  BY <1>1 DEF Snapshots, Steps, Undefined
<1>4. held = {n \in {1, 2, 3} : q[n].step # Undefined}
  BY <1>1
<1> HIDE DEF held
<1>5. CASE held = {}
  BY <1>1, <1>2, <1>3, <1>4, <1>5 DEF Undefined
<1>6. CASE held # {}
  <2>1. \E n \in held : \A m \in held : q[m].step <= q[n].step
    BY <1>3, <1>4, <1>6
  <2>2. newest \subseteq {1, 2, 3} /\ newest # {} /\ newest \subseteq held
    BY <1>4, <2>1
  <2>3. \A n \in newest : \A m \in held : q[m].step <= q[n].step
    OBVIOUS
  <2> HIDE DEF newest
  <2>4. \E n \in newest : \A m \in newest : n <= m
    <3>1. 1 <= 1 /\ 1 <= 2 /\ 1 <= 3 /\ 2 <= 2 /\ 2 <= 3 /\ 3 <= 3
      OBVIOUS
    <3>2. CASE 1 \in newest
      BY <2>2, <3>1, <3>2, Zenon
    <3>3. CASE 1 \notin newest /\ 2 \in newest
      BY <2>2, <3>1, <3>3, Zenon
    <3>4. CASE 1 \notin newest /\ 2 \notin newest
      BY <2>2, <3>1, <3>4, Zenon
    <3> QED BY <3>2, <3>3, <3>4
  <2>5. first \in newest
    BY <2>4
  <2> HIDE DEF first
  <2>6. r = q[first].step /\ first \in {1, 2, 3} /\ \A m \in held : q[m].step <= r
    BY <1>2, <1>3, <1>6, <2>2, <2>3, <2>5
  <2>7. \A m \in {1, 2, 3} : q[m].step <= r
    BY <1>3, <1>4, <2>6 DEF Undefined
  <2> QED BY <1>1, <2>6, <2>7
<1> QED BY <1>5, <1>6

LEMMA RowKeepsBytes ==
  ASSUME NEW row, RowHolds(row), NEW e \in Event, e.kind = "advanced" => e.step > 0,
         NEW next, next = Evolve(row, e)
  PROVE  /\ RowHolds(next) /\ row.step <= next.step
         /\ next.step = row.step \/ (e.kind = "advanced" /\ next.step = e.step)
         /\ next.status = "settled" <=> row.status = "settled" \/ e.kind = "settled"
         /\ e.kind = "advanced" /\ row.status # "settled" => e.step <= next.step
<1>1. e.kind \in {"opened", "advanced", "settled"} /\ e.step \in Int
  BY EventFields
<1>2. row.step \in Int /\ row.step >= Undefined
  BY DEF RowHolds, Steps, Undefined
<1>3. CASE e.kind = "opened"
  <2>1. next = [row EXCEPT !.known = TRUE]
    BY <1>3 DEF Evolve
  <2>2. next.status = row.status /\ next.step = row.step
    BY <2>1 DEF RowHolds
  <2>3. RowHolds(next)
    BY <2>1 DEF RowHolds
  <2> QED BY <1>2, <1>3, <2>2, <2>3
<1>4. CASE e.kind = "advanced" /\ (row.status = "settled" \/ e.step <= row.step)
  <2>1. next = row
    BY <1>4 DEF Evolve
  <2> QED BY <1>2, <1>4, <2>1
<1>5. CASE e.kind = "advanced" /\ ~(row.status = "settled" \/ e.step <= row.step)
  <2>1. next = EvolveAdvanced(row, e)
    BY <1>5 DEF Evolve
  <2>2. /\ next = [known |-> next.known, status |-> next.status, phase |-> next.phase, step |-> next.step,
                   gameState |-> next.gameState, encodedSession |-> next.encodedSession,
                   randomnessFulfilled |-> next.randomnessFulfilled,
                   randomnessRequests |-> next.randomnessRequests, payout |-> next.payout,
            settledAt |-> next.settledAt]
        /\ next.step = e.step /\ next.encodedSession = e.step /\ next.status = row.status
    BY <2>1 DEF EvolveAdvanced, RowHolds
  <2> QED BY <1>1, <1>2, <1>5, <2>2 DEF RowHolds, Steps
<1>6. CASE e.kind = "settled"
  <2>1. next = EvolveSettled(row, e)
    BY <1>6 DEF Evolve
  <2>2. /\ next = [known |-> next.known, status |-> next.status, phase |-> next.phase, step |-> next.step,
                   gameState |-> next.gameState, encodedSession |-> next.encodedSession,
                   randomnessFulfilled |-> next.randomnessFulfilled,
                   randomnessRequests |-> next.randomnessRequests, payout |-> next.payout,
            settledAt |-> next.settledAt]
        /\ next.step = row.step /\ next.status = "settled"
    BY <2>1 DEF EvolveSettled, RowHolds
  <2> QED BY <1>2, <1>6, <2>2 DEF RowHolds
<1> QED BY <1>1, <1>3, <1>4, <1>5, <1>6

LEMMA InitialRowHolds == RowHolds(InitialRow) /\ InitialRow.step = Undefined /\ InitialRow.status = "open"
BY DEF RowHolds, InitialRow, Steps, Undefined

LEMMA PatchAdvanceKeepsBytes ==
  ASSUME NEW patch, PatchHolds(patch), NEW e \in Event, e.step > 0,
         NEW next, next = PatchAdvanced(patch, e)
  PROVE  PatchHolds(next) /\ next.step = e.step
<1>1. e.step \in Nat /\ e.step # 0
  BY EventFields
<1> DEFINE stepped == [patch EXCEPT !.step = e.step, !.phase = e.phase, !.gameState = e.gameState,
                                    !.encodedSession = e.step]
           answered == IF e.randomness = Undefined THEN stepped
                       ELSE WithFulfillment(stepped, e.step - 1, e.randomness)
<1>2. next = IF MakesRequest(e) THEN [answered EXCEPT !.requestNonce = e.step] ELSE answered
  BY DEF PatchAdvanced
<1>3. stepped = [f \in PatchFields |-> stepped[f]] /\ stepped.step = e.step /\ stepped.encodedSession = e.step
  BY DEF PatchHolds, PatchFields
<1> HIDE DEF stepped
<1>4. /\ answered = [f \in PatchFields |-> answered[f]]
      /\ answered.step = e.step /\ answered.encodedSession = e.step
  <2>1. CASE e.randomness = Undefined
    BY <1>3, <2>1
  <2>2. CASE e.randomness # Undefined
    <3>1. answered = [stepped EXCEPT !.randomness = e.randomness,
                                     !.fulfilledNonce = OrElse(e.step - 1, @)]
      BY <2>2 DEF WithFulfillment
    <3> QED BY <1>3, <3>1 DEF PatchFields
  <2> QED BY <2>1, <2>2
<1> HIDE DEF answered
<1>5. /\ next = [f \in PatchFields |-> next[f]]
      /\ next.step = e.step /\ next.encodedSession = e.step
  BY <1>2, <1>4 DEF PatchFields
<1> QED BY <1>1, <1>5 DEF PatchHolds, Steps

LEMMA PatchSettlementKeepsBytes ==
  ASSUME NEW patch, PatchHolds(patch), NEW e \in Event, NEW next, next = PatchSettled(patch, e)
  PROVE  PatchHolds(next) /\ next.step = patch.step
<1> DEFINE stepped == [patch EXCEPT !.settled = TRUE, !.phase = e.phase, !.payout = e.payout,
                                    !.gameState = e.gameState, !.settledAt = PageClock]
           nonce == OrElse(patch.requestNonce, patch.step)
<1>1. next = IF e.randomness = Undefined THEN stepped ELSE WithFulfillment(stepped, nonce, e.randomness)
  BY DEF PatchSettled
<1>2. /\ stepped = [f \in PatchFields |-> stepped[f]]
      /\ stepped.step = patch.step /\ stepped.encodedSession = patch.encodedSession
  BY DEF PatchHolds, PatchFields
<1> HIDE DEF stepped, nonce
<1>3. /\ next = [f \in PatchFields |-> next[f]]
      /\ next.step = patch.step /\ next.encodedSession = patch.encodedSession
  <2>1. CASE e.randomness = Undefined
    BY <1>1, <1>2, <2>1
  <2>2. CASE e.randomness # Undefined
    <3>1. next = [stepped EXCEPT !.randomness = e.randomness, !.fulfilledNonce = OrElse(nonce, @)]
      BY <1>1, <2>2 DEF WithFulfillment
    <3> QED BY <1>2, <3>1 DEF PatchFields
  <2> QED BY <2>1, <2>2
<1> QED BY <1>3 DEF PatchHolds

LEMMA NoPatchHolds == PatchHolds(NoPatch) /\ NoPatch.step = Undefined
<1>1. NoPatch = [f \in PatchFields |-> NoPatch[f]]
  BY DEF NoPatch, PatchFields
<1> QED BY <1>1 DEF NoPatch, PatchHolds, Steps, Undefined

-----------------------------------------------------------------------------
(* A step keeps Echoed, and the store and the patches together only learn. *)

Learns ==
  /\ \A i \in DOMAIN rows :
       /\ i \in DOMAIN rows' /\ rows[i].step <= rows'[i].step
       /\ rows[i].status = "settled" => rows'[i].status = "settled"
  /\ \A i \in DOMAIN patches :
       \/ i \in DOMAIN patches' /\ patches[i].step <= patches'[i].step
       \/ i \in DOMAIN rows /\ patches[i].step <= rows[i].step

\* What is unchanged has learnt nothing.
LEMMA UnchangedLearns ==
  ASSUME RowsHold, PatchesHold, UNCHANGED <<rows, patches>>
  PROVE  Learns
<1>1. \A i \in DOMAIN rows : rows[i].step <= rows[i].step
  BY DEF RowsHold, RowHolds, Steps, Undefined
<1>2. \A i \in DOMAIN patches : patches[i].step <= patches[i].step
  BY DEF PatchesHold, PatchHolds, Steps, Undefined
<1> QED BY <1>1, <1>2 DEF Learns

\* The chain emits the events of session i, the last of which is e.
Emits(i, e, events) ==
  /\ Emitted(events) /\ UNCHANGED page
  /\ e.id = i /\ e.kind \in {"advanced", "settled"} /\ (e.kind = "advanced" => e.step > 0)
  /\ \A k \in 1..Len(events) : events[k] = e \/ (events[k].kind = "opened" /\ events[k].id = i)
  /\ \E k \in 1..Len(events) : events[k] = e
  /\ chain' \in Seq(Event) /\ 1..Len(chain') = (1..Len(chain)) \cup {i}
  /\ chain'[i] = e /\ \A j \in 1..Len(chain) : j # i => chain'[j] = chain[j]
  /\ i \in 1..Len(chain) =>
       chain[i].kind = "advanced" /\ (e.kind = "advanced" => chain[i].step <= e.step)

LEMMA EmissionKeepsEchoed ==
  ASSUME Echoed, NEW i, NEW e \in Event, NEW events \in Seq(Event), Emits(i, e, events)
  PROVE  Echoed' /\ Learns
<1>0. /\ e.id = i /\ e.kind \in {"advanced", "settled"} /\ (e.kind = "advanced" => e.step > 0)
      /\ \A k \in 1..Len(events) : events[k] = e \/ (events[k].kind = "opened" /\ events[k].id = i)
      /\ \E k \in 1..Len(events) : events[k] = e
      /\ chain' \in Seq(Event) /\ 1..Len(chain') = (1..Len(chain)) \cup {i}
      /\ chain'[i] = e /\ \A j \in 1..Len(chain) : j # i => chain'[j] = chain[j]
      /\ i \in 1..Len(chain) =>
           chain[i].kind = "advanced" /\ (e.kind = "advanced" => chain[i].step <= e.step)
  BY DEF Emits
<1>1. UNCHANGED <<rows, patches, rendered>> /\ \A c \in Channels : transit'[c] = transit[c] \o events
  BY DEF Emits, page, view, Emitted
<1>2. chain \in Seq(Event) /\ \A j \in 1..Len(chain) : chain[j] \in Event /\ chain[j].step \in Int
  <2>1. chain \in Seq(Event)
    BY DEF Echoed, ChainOK
  <2>2. \A j \in 1..Len(chain) : chain[j] \in Event
    BY <2>1
  <2> QED BY <2>1, <2>2, EventFields
<1>3. e.step \in Int
  BY EventFields
<1>4. ChainOK'
  BY <1>0 DEF Echoed, ChainOK
<1>5. \A f \in Event : Told(f) => Told(f)'
  <2> SUFFICES ASSUME NEW f \in Event, Told(f) PROVE Told(f)'
    OBVIOUS
  <2>1. f.step \in Int /\ f.id \in 1..Len(chain)
    BY EventFields DEF Told
  <2>2. CASE f.id = i
    BY <1>0, <1>2, <1>3, <2>1, <2>2 DEF Told
  <2>3. CASE f.id # i
    BY <1>0, <2>1, <2>3 DEF Told
  <2> QED BY <2>2, <2>3
<1>6. \A k \in 1..Len(events) : Told(events[k])'
  <2>1. Told(e)'
    BY <1>0, <1>3 DEF Told
  <2>2. \A f : f.kind = "opened" /\ f.id = i => Told(f)'
    BY <1>0 DEF Told
  <2> QED BY <1>0, <2>1, <2>2
<1>7. ASSUME NEW c \in Channels
      PROVE  /\ ChannelTold(c)'
             /\ \A n \in 1..Len(transit[c]) : n \in 1..Len(transit'[c]) /\ transit'[c][n] = transit[c][n]
             /\ \E n \in 1..Len(transit'[c]) : transit'[c][n] = e
  <2>1. PICK s, t : s = transit[c] /\ t = transit'[c]
    OBVIOUS
  <2>2. s \in Seq(Event) /\ Len(s) \in Nat /\ \A n \in 1..Len(s) : s[n] \in Event /\ Told(s[n])'
    <3>1. s \in Seq(Event) /\ \A n \in 1..Len(s) : Told(s[n])
      BY <2>1 DEF Echoed, TransitTold, ChannelTold
    <3>2. \A n \in 1..Len(s) : s[n] \in Event
      BY <3>1
    <3>3. Len(s) \in Nat
      BY <3>1
    <3> QED BY <1>5, <3>1, <3>2, <3>3
  <2>3. t = s \o events
    BY <1>1, <2>1
  <2>4. /\ s \o events \in Seq(Event) /\ Len(s \o events) = Len(s) + Len(events)
        /\ \A k \in 1..Len(s) : (s \o events)[k] = s[k]
        /\ \A k \in 1..Len(events) : (s \o events)[Len(s) + k] = events[k]
    BY <2>2, Concatenated
  <2>5. /\ t \in Seq(Event) /\ Len(t) = Len(s) + Len(events)
        /\ \A k \in 1..Len(s) : t[k] = s[k]
        /\ \A k \in 1..Len(events) : t[Len(s) + k] = events[k]
    BY <2>3, <2>4, Zenon
  <2>6. Len(events) \in Nat
    OBVIOUS
  <2>7. \A n \in 1..Len(s) : n \in 1..Len(t)
    BY <2>2, <2>5, <2>6
  <2>8. \A k \in 1..Len(events) : Len(s) + k \in 1..Len(t)
    BY <2>2, <2>5, <2>6
  <2>9. \A n \in 1..Len(t) : n \in 1..Len(s) \/ \E k \in 1..Len(events) : n = Len(s) + k
    <3> SUFFICES ASSUME NEW n \in 1..Len(t), n \notin 1..Len(s)
                 PROVE  \E k \in 1..Len(events) : n = Len(s) + k
      OBVIOUS
    <3>1. n - Len(s) \in 1..Len(events) /\ n = Len(s) + (n - Len(s))
      BY <2>2, <2>5, <2>6
    <3> QED BY <3>1
  <2>10. \A n \in 1..Len(t) : Told(t[n])'
    <3>1. ASSUME NEW n \in 1..Len(s) PROVE Told(t[n])'
      <4>1. t[n] = s[n] /\ Told(s[n])'
        BY <2>2, <2>5
      <4> QED BY <4>1 DEF Told
    <3>2. ASSUME NEW k \in 1..Len(events) PROVE Told(t[Len(s) + k])'
      <4>1. t[Len(s) + k] = events[k] /\ Told(events[k])'
        BY <1>6, <2>5
      <4> QED BY <4>1 DEF Told
    <3> QED BY <2>9, <3>1, <3>2
  <2>11. \E n \in 1..Len(t) : t[n] = e
    <3>1. PICK k \in 1..Len(events) : events[k] = e
      BY <1>0
    <3>2. Len(s) + k \in 1..Len(t) /\ t[Len(s) + k] = e
      BY <2>5, <2>8, <3>1, Zenon
    <3> QED BY <3>2, Zenon
  <2>12. ChannelTold(c)'
    BY <2>1, <2>5, <2>10 DEF ChannelTold
  <2> QED BY <2>1, <2>5, <2>7, <2>11, <2>12, Zenon
<1>8. TransitTold'
  BY <1>7 DEF TransitTold, Emits, Emitted
<1>9. ASSUME NEW j, j \in 1..Len(chain), chain'[j].kind = "advanced"
      PROVE  j \in 1..Len(chain') /\ chain[j].kind = "advanced" /\ chain[j].step <= chain'[j].step
  <2>1. CASE j = i
    <3>1. e.kind = "advanced" /\ i \in 1..Len(chain) /\ i \in 1..Len(chain')
      BY <1>0, <1>9, <2>1
    <3>2. e.kind = "advanced" => chain[i].kind = "advanced" /\ chain[i].step <= e.step
      BY <1>0, <3>1
    <3>3. chain'[i] = e
      BY <1>0
    <3> QED BY <2>1, <3>1, <3>2, <3>3
  <2>2. CASE j # i
    <3>1. chain'[j] = chain[j] /\ j \in 1..Len(chain')
      BY <1>0, <1>9, <2>2
    <3>2. chain[j].step \in Int
      BY <1>2, <1>9
    <3> QED BY <1>9, <3>1, <3>2
  <2> QED BY <2>1, <2>2
<1>10. RowsHold'
  <2> SUFFICES ASSUME NEW j \in DOMAIN rows
               PROVE  /\ j \in 1..Len(chain') /\ RowHolds(rows[j])
                      /\ chain'[j].kind = "advanced" =>
                           rows[j].status # "settled" /\ rows[j].step <= chain'[j].step
    BY <1>1 DEF RowsHold
  <2>1. /\ j \in 1..Len(chain) /\ RowHolds(rows[j])
        /\ chain[j].kind = "advanced" => rows[j].status # "settled" /\ rows[j].step <= chain[j].step
    BY DEF Echoed, RowsHold
  <2>2. rows[j].step \in Int
    BY <2>1 DEF RowHolds, Steps, Undefined
  <2>3. chain'[j].kind = "advanced" => chain'[j].step \in Int
    BY <1>0, <1>2, <1>3, <2>1
  <2>4. j \in 1..Len(chain')
    BY <1>0, <2>1
  <2>5. chain[j].step \in Int
    BY <1>2, <2>1
  <2> QED BY <1>9, <2>1, <2>2, <2>3, <2>4, <2>5
<1>11. PatchesHold'
  <2> SUFFICES ASSUME NEW j \in DOMAIN patches
               PROVE  /\ j \in 1..Len(chain') /\ PatchHolds(patches[j])
                      /\ chain'[j].kind = "advanced" => patches[j].step <= chain'[j].step
    BY <1>1 DEF PatchesHold
  <2>1. /\ j \in 1..Len(chain) /\ PatchHolds(patches[j])
        /\ chain[j].kind = "advanced" => patches[j].step <= chain[j].step
    BY DEF Echoed, PatchesHold
  <2>2. patches[j].step \in Int
    BY <2>1 DEF PatchHolds, Steps, Undefined
  <2>3. chain'[j].kind = "advanced" => chain'[j].step \in Int
    BY <1>0, <1>2, <1>3, <2>1
  <2>4. j \in 1..Len(chain')
    BY <1>0, <2>1
  <2>5. chain[j].step \in Int
    BY <1>2, <2>1
  <2> QED BY <1>9, <2>1, <2>2, <2>3, <2>4, <2>5
<1>12. RenderedHolds'
  BY <1>1 DEF Echoed, RenderedHolds
<1>13. ASSUME NEW j \in 1..Len(chain'), chain'[j].kind = "advanced" PROVE Arrives(j)'
  <2>0. "indexed" \in Channels
    BY DEF Channels
  <2>1. CASE j = i
    <3>1. PICK n \in 1..Len(transit'["indexed"]) : transit'["indexed"][n] = e
      BY <1>7, <2>0
    <3> QED BY <1>0, <1>13, <2>1, <3>1 DEF Arrives, IsAdvance
  <2>2. CASE j # i
    <3>1. j \in 1..Len(chain) /\ chain'[j] = chain[j] /\ Arrives(j)
      BY <1>0, <1>13, <2>2 DEF Echoed
    <3>2. CASE Row(j).step = chain[j].step
      BY <1>1, <3>1, <3>2 DEF Arrives, Row
    <3>3. CASE Row(j).step # chain[j].step
      <4>1. PICK n \in 1..Len(transit["indexed"]) :
              IsAdvance(transit["indexed"][n], j) /\ transit["indexed"][n].step = chain[j].step
        BY <3>1, <3>3 DEF Arrives
      <4>2. n \in 1..Len(transit'["indexed"]) /\ transit'["indexed"][n] = transit["indexed"][n]
        BY <1>7, <2>0
      <4> QED BY <3>1, <4>1, <4>2 DEF Arrives, IsAdvance
    <3> QED BY <3>2, <3>3
  <2> QED BY <2>1, <2>2
<1>14. Learns
  BY <1>1, UnchangedLearns DEF Echoed
<1> QED BY <1>4, <1>8, <1>10, <1>11, <1>12, <1>13, <1>14 DEF Echoed

\* What is delivered has been told of, and so is what is left.
LEMMA DeliveryTells ==
  ASSUME Echoed, NEW c \in Channels, NEW n, Deliver(c, n), UNCHANGED chain
  PROVE  /\ transit[c][n] \in Event /\ Told(transit[c][n]) /\ TransitTold'
         /\ \A k \in 1..Len(transit[c]) : k # n => \E m \in 1..Len(transit'[c]) : transit'[c][m] = transit[c][k]
         /\ \A d \in Channels : d # c => transit'[d] = transit[d]
         /\ \A m \in 1..Len(transit'[c]) : \E k \in 1..Len(transit[c]) : transit'[c][m] = transit[c][k]
<1>1. n \in 1..Len(transit[c]) /\ transit' = [transit EXCEPT ![c] = RemoveAt(@, n)]
  BY DEF Deliver
<1>2. PICK s, t : s = transit[c] /\ t = RemoveAt(s, n)
  OBVIOUS
<1>3. s \in Seq(Event) /\ (\A k \in 1..Len(s) : Told(s[k])) /\ n \in 1..Len(s)
  BY <1>1, <1>2 DEF Echoed, TransitTold, ChannelTold
<1>4. /\ t \in Seq(Event)
      /\ \A k \in 1..Len(s) : k # n => \E m \in 1..Len(t) : t[m] = s[k]
      /\ \A m \in 1..Len(t) : \E k \in 1..Len(s) : t[m] = s[k]
  <2>1. Without(s, n, RemoveAt(s, n))
    BY <1>3, EventRemoved
  <2> QED BY <1>2, <2>1 DEF Without
<1>5. transit = [d \in Channels |-> transit[d]]
  BY DEF Echoed, TransitTold
<1>6. transit' = [d \in Channels |-> IF d = c THEN t ELSE transit[d]]
  BY <1>1, <1>2, <1>5
<1>7. transit'[c] = t /\ \A d \in Channels : d # c => transit'[d] = transit[d]
  BY <1>6
<1>8. ChannelTold(c)'
  <2>1. ASSUME NEW m \in 1..Len(t) PROVE Told(t[m])'
    <3>1. PICK k \in 1..Len(s) : t[m] = s[k]
      BY <1>4
    <3>2. Told(s[k])
      BY <1>3
    <3> QED BY <3>1, <3>2 DEF Told
  <2> QED BY <1>4, <1>7, <2>1 DEF ChannelTold
<1>9. \A d \in Channels : d # c => ChannelTold(d)'
  BY <1>7 DEF Echoed, TransitTold, ChannelTold, Told
<1>10. TransitTold'
  <2>1. transit' = [d \in Channels |-> transit'[d]]
    BY <1>6
  <2> QED BY <1>8, <1>9, <2>1 DEF TransitTold
<1>11. transit[c][n] \in Event /\ Told(transit[c][n])
  BY <1>2, <1>3
<1>12. \A k \in 1..Len(transit[c]) : k # n => \E m \in 1..Len(transit'[c]) : transit'[c][m] = transit[c][k]
  <2>1. t = transit'[c] /\ s = transit[c]
    BY <1>2, <1>7
  <2> QED BY <1>4, <2>1
<1>13. \A m \in 1..Len(transit'[c]) : \E k \in 1..Len(transit[c]) : transit'[c][m] = transit[c][k]
  <2>1. t = transit'[c] /\ s = transit[c]
    BY <1>2, <1>7
  <2> QED BY <1>4, <2>1
<1> QED BY <1>7, <1>10, <1>11, <1>12, <1>13

LEMMA IndexedDeliveryKeepsEchoed ==
  ASSUME Echoed, NEW n, DeliverIndexed(n)
  PROVE  Echoed' /\ Learns
<1>1. UNCHANGED <<chain, patches, rendered>> /\ Deliver("indexed", n) /\ "indexed" \in Channels
  BY DEF DeliverIndexed, view, Channels
<1>2. PICK e : e = transit["indexed"][n]
  OBVIOUS
<1>3. /\ e \in Event /\ Told(e) /\ TransitTold'
      /\ \A k \in 1..Len(transit["indexed"]) : k # n =>
           \E m \in 1..Len(transit'["indexed"]) : transit'["indexed"][m] = transit["indexed"][k]
  BY <1>1, <1>2, DeliveryTells
<1>4. PICK row, next : row = Row(e.id) /\ next = Evolve(row, e)
  OBVIOUS
<1>5. rows' = [i \in DOMAIN rows \cup {e.id} |-> IF i = e.id THEN next ELSE rows[i]]
  BY <1>2, <1>4 DEF DeliverIndexed
<1>6. RowHolds(row)
  BY <1>4, InitialRowHolds DEF Echoed, RowsHold, Row
<1>7. e.kind = "advanced" => e.step > 0
  BY <1>3 DEF Told
<1>8. /\ RowHolds(next) /\ row.step <= next.step
      /\ next.step = row.step \/ (e.kind = "advanced" /\ next.step = e.step)
      /\ next.status = "settled" <=> row.status = "settled" \/ e.kind = "settled"
      /\ e.kind = "advanced" /\ row.status # "settled" => e.step <= next.step
  BY <1>3, <1>4, <1>6, <1>7, RowKeepsBytes
<1>9. /\ row.step \in Int /\ next.step \in Int /\ row.step >= Undefined /\ e.step \in Int
      /\ \A i \in DOMAIN rows : rows[i].step \in Int
      /\ \A i \in 1..Len(chain) : chain[i].step \in Int
  <2>1. \A i \in 1..Len(chain) : chain[i] \in Event
    BY DEF Echoed, ChainOK
  <2> QED BY <1>3, <1>6, <1>8, <2>1, EventFields DEF Echoed, RowsHold, RowHolds, Steps, Undefined
<1>10. chain[e.id].kind = "advanced" =>
         /\ row.status # "settled" /\ next.status # "settled"
         /\ row.step <= chain[e.id].step /\ next.step <= chain[e.id].step
  <2> SUFFICES ASSUME chain[e.id].kind = "advanced"
               PROVE  /\ row.status # "settled" /\ next.status # "settled"
                      /\ row.step <= chain[e.id].step /\ next.step <= chain[e.id].step
    OBVIOUS
  <2>1. /\ e.kind # "settled" /\ e.id \in 1..Len(chain)
        /\ e.kind = "advanced" => e.step <= chain[e.id].step
    BY <1>3 DEF Told
  <2>2. row.status # "settled" /\ row.step <= chain[e.id].step
    <3>1. CASE e.id \in DOMAIN rows
      BY <1>4, <3>1 DEF Echoed, RowsHold, Row
    <3>2. CASE e.id \notin DOMAIN rows
      <4>1. chain[e.id].step > 0 /\ chain[e.id].step \in Int
        BY <1>9, <2>1 DEF Echoed, ChainOK
      <4>2. row.step = Undefined /\ row.status = "open"
        BY <1>4, <3>2, InitialRowHolds DEF Row
      <4> QED BY <4>1, <4>2 DEF Undefined
    <3> QED BY <3>1, <3>2
  <2> QED BY <1>8, <2>1, <2>2
<1>11. RowsHold'
  <2>1. e.id \in 1..Len(chain)
    BY <1>3 DEF Told
  <2> QED BY <1>1, <1>5, <1>8, <1>10, <2>1 DEF Echoed, RowsHold
<1>12. PatchesHold' /\ ChainOK'
  BY <1>1 DEF Echoed, PatchesHold, ChainOK
<1>13. \A i \in DOMAIN rows : /\ i \in DOMAIN rows' /\ rows[i].step <= rows'[i].step
                              /\ rows[i].status = "settled" => rows'[i].status = "settled"
  BY <1>4, <1>5, <1>8, <1>9 DEF Row
<1>14. RenderedHolds'
  <2> SUFFICES ASSUME NEW i \in DOMAIN rendered
               PROVE  i \in DOMAIN rows' /\ rendered[i].step \in Steps /\ rendered[i].step <= rows'[i].step
    BY <1>1 DEF RenderedHolds
  <2>1. i \in DOMAIN rows /\ rendered[i].step \in Steps /\ rendered[i].step <= rows[i].step
    BY DEF Echoed, RenderedHolds
  <2>2. rows'[i].step \in Int
    BY <1>5, <1>9, <2>1
  <2> QED BY <1>9, <1>13, <2>1, <2>2 DEF Steps, Undefined
<1>15. Learns
  <2>1. \A i \in DOMAIN patches : patches[i].step <= patches[i].step
    BY DEF Echoed, PatchesHold, PatchHolds, Steps, Undefined
  <2> QED BY <1>1, <1>13, <2>1 DEF Learns
<1>16. ASSUME NEW i \in 1..Len(chain), chain[i].kind = "advanced" PROVE Arrives(i)'
  <2>1. Row(i).step = chain[i].step =>
          /\ i = e.id => next.step = chain[i].step
          /\ i # e.id => Row(i)' = Row(i)
    BY <1>1, <1>4, <1>5, <1>8, <1>9, <1>10, <1>16 DEF Row
  <2>2. CASE Row(i).step = chain[i].step
    BY <1>1, <1>5, <2>1, <2>2 DEF Arrives, Row
  <2>3. CASE Row(i).step # chain[i].step
    <3>1. PICK k \in 1..Len(transit["indexed"]) :
            IsAdvance(transit["indexed"][k], i) /\ transit["indexed"][k].step = chain[i].step
      BY <1>16, <2>3 DEF Echoed, Arrives
    <3>2. CASE k = n
      <4>1. e.id = i /\ e.kind = "advanced" /\ e.step = chain[i].step
        BY <1>2, <3>1, <3>2 DEF IsAdvance
      <4>2. next.step = chain[i].step
        BY <1>8, <1>9, <1>10, <1>16, <4>1
      <4> QED BY <1>1, <1>5, <4>1, <4>2 DEF Arrives, Row
    <3>3. CASE k # n
      BY <1>1, <1>3, <3>1, <3>3 DEF Arrives, IsAdvance
    <3> QED BY <3>2, <3>3
  <2> QED BY <2>2, <2>3
<1> QED BY <1>1, <1>3, <1>11, <1>12, <1>14, <1>15, <1>16 DEF Echoed

LEMMA FlashblockDeliveryKeepsEchoed ==
  ASSUME Echoed, NEW n, DeliverFlashblock(n)
  PROVE  Echoed' /\ Learns
<1>1. UNCHANGED <<chain, rows, rendered>> /\ Deliver("flashblock", n)
  BY DEF DeliverFlashblock, view
<1>2. PICK e : e = transit["flashblock"][n]
  OBVIOUS
<1>3. e \in Event /\ Told(e) /\ TransitTold' /\ transit'["indexed"] = transit["indexed"]
  BY <1>1, <1>2, DeliveryTells DEF Channels
<1>4. PICK patch : patch = IF e.id \in DOMAIN patches THEN patches[e.id] ELSE NoPatch
  OBVIOUS
<1>5. PatchHolds(patch)
  BY <1>4, NoPatchHolds DEF Echoed, PatchesHold
<1>6. /\ e.kind \in {"opened", "advanced", "settled"} /\ e.step \in Int /\ e.id \in 1..Len(chain)
      /\ e.kind = "advanced" => e.step > 0
      /\ chain[e.id].kind = "advanced" /\ e.kind = "advanced" => e.step <= chain[e.id].step
  BY <1>3, EventFields DEF Told
<1>7. patches' = ApplyFlashblockEvent(patches, e)
  BY <1>2 DEF DeliverFlashblock
<1>8. \/ UNCHANGED patches
      \/ \E next : /\ patches' = [i \in DOMAIN patches \cup {e.id} |-> IF i = e.id THEN next ELSE patches[i]]
                   /\ PatchHolds(next) /\ patch.step <= next.step
                   /\ next.step = patch.step \/ (e.kind = "advanced" /\ next.step = e.step)
  <2>0. patch.step \in Int
    BY <1>5 DEF PatchHolds, Steps, Undefined
  <2>1. CASE e.kind = "opened"
    <3>1. patches' = [i \in DOMAIN patches \cup {e.id} |-> IF i = e.id THEN patch ELSE patches[i]]
      BY <1>4, <1>7, <2>1 DEF ApplyFlashblockEvent
    <3> QED BY <1>5, <2>0, <3>1
  <2>2. CASE e.kind = "advanced" /\ (patch.settled \/ e.step <= patch.step)
    BY <1>4, <1>7, <2>2 DEF ApplyFlashblockEvent
  <2>3. CASE e.kind = "advanced" /\ ~(patch.settled \/ e.step <= patch.step)
    <3>1. PICK next : next = PatchAdvanced(patch, e)
      OBVIOUS
    <3>2. patches' = [i \in DOMAIN patches \cup {e.id} |-> IF i = e.id THEN next ELSE patches[i]]
      BY <1>4, <1>7, <2>3, <3>1 DEF ApplyFlashblockEvent
    <3>3. PatchHolds(next) /\ next.step = e.step
      BY <1>3, <1>5, <1>6, <2>3, <3>1, PatchAdvanceKeepsBytes
    <3>4. patch.step <= next.step
      BY <1>6, <2>0, <2>3, <3>3
    <3> QED BY <2>3, <3>2, <3>3, <3>4
  <2>4. CASE e.kind = "settled" /\ patch.settled
    BY <1>4, <1>7, <2>4 DEF ApplyFlashblockEvent
  <2>5. CASE e.kind = "settled" /\ ~patch.settled
    <3>1. PICK next : next = PatchSettled(patch, e)
      OBVIOUS
    <3>2. patches' = [i \in DOMAIN patches \cup {e.id} |-> IF i = e.id THEN next ELSE patches[i]]
      BY <1>4, <1>7, <2>5, <3>1 DEF ApplyFlashblockEvent
    <3>3. PatchHolds(next) /\ next.step = patch.step
      BY <1>3, <1>5, <3>1, PatchSettlementKeepsBytes
    <3>4. patch.step <= next.step
      BY <2>0, <3>3
    <3> QED BY <3>2, <3>3, <3>4
  <2> QED BY <1>6, <2>1, <2>2, <2>3, <2>4, <2>5
<1>9. PatchesHold' /\ Learns
  <2>1. CASE UNCHANGED patches
    <3>1. PatchesHold'
      BY <1>1, <2>1 DEF Echoed, PatchesHold
    <3>2. Learns
      BY <1>1, <2>1, UnchangedLearns DEF Echoed
    <3> QED BY <3>1, <3>2
  <2>2. CASE \E next : /\ patches' = [i \in DOMAIN patches \cup {e.id} |-> IF i = e.id THEN next ELSE patches[i]]
                       /\ PatchHolds(next) /\ patch.step <= next.step
                       /\ next.step = patch.step \/ (e.kind = "advanced" /\ next.step = e.step)
    <3>1. PICK next : /\ patches' = [i \in DOMAIN patches \cup {e.id} |-> IF i = e.id THEN next ELSE patches[i]]
                      /\ PatchHolds(next) /\ patch.step <= next.step
                      /\ next.step = patch.step \/ (e.kind = "advanced" /\ next.step = e.step)
      BY <2>2
    <3>2. ASSUME chain[e.id].kind = "advanced" PROVE next.step <= chain[e.id].step
      <4>1. chain[e.id].step > 0 /\ chain[e.id].step \in Int
        <5>1. chain[e.id] \in Event
          BY <1>6 DEF Echoed, ChainOK
        <5> QED BY <1>6, <3>2, <5>1, EventFields DEF Echoed, ChainOK
      <4>2. patch.step <= chain[e.id].step
        BY <1>4, <3>2, <4>1, NoPatchHolds DEF Echoed, PatchesHold, Undefined
      <4> QED BY <1>6, <3>1, <3>2, <4>2
    <3>3. PatchesHold'
      BY <1>1, <1>6, <3>1, <3>2 DEF Echoed, PatchesHold
    <3>4. \A i \in DOMAIN rows : rows[i].step <= rows[i].step
      BY DEF Echoed, RowsHold, RowHolds, Steps, Undefined
    <3>5. \A i \in DOMAIN patches : patches[i].step <= patches[i].step
      BY DEF Echoed, PatchesHold, PatchHolds, Steps, Undefined
    <3>6. Learns
      BY <1>1, <1>4, <3>1, <3>4, <3>5 DEF Learns
    <3> QED BY <3>3, <3>6
  <2> QED BY <1>8, <2>1, <2>2
<1>10. ChainOK' /\ RowsHold' /\ RenderedHolds'
  BY <1>1 DEF Echoed, ChainOK, RowsHold, RenderedHolds
<1>11. \A i \in 1..Len(chain) : chain[i].kind = "advanced" => Arrives(i)'
  BY <1>1, <1>3 DEF Echoed, Arrives, Row, IsAdvance
<1> QED BY <1>1, <1>3, <1>9, <1>10, <1>11 DEF Echoed

\* A patch is pruned only for a row that has its step.
LEMMA PruneKeepsEchoed ==
  ASSUME Echoed, Prune
  PROVE  Echoed' /\ Learns
<1>1. UNCHANGED <<chain, transit, rows, rendered>>
  BY DEF Prune
<1>2. patches' = [i \in {j \in DOMAIN patches : ~(j \in DOMAIN rendered /\ CaughtUp(rendered[j], patches[j]))}
                    |-> patches[i]]
  BY DEF Prune, PruneFlashblockPatches, Restrict
<1>3. \A i \in DOMAIN patches : patches[i].step \in Int
  BY DEF Echoed, PatchesHold, PatchHolds, Steps, Undefined
<1>4. \A i \in DOMAIN rows : rows[i].step \in Int /\ rows[i].step <= rows[i].step
  BY DEF Echoed, RowsHold, RowHolds, Steps, Undefined
<1>5. \A i \in DOMAIN rendered :
        i \in DOMAIN rows /\ rendered[i].step \in Int /\ rendered[i].step <= rows[i].step
  BY DEF Echoed, RenderedHolds, Steps, Undefined
<1>6. ASSUME NEW i \in DOMAIN patches
      PROVE  \/ i \in DOMAIN patches' /\ patches[i].step <= patches'[i].step
             \/ i \in DOMAIN rows /\ patches[i].step <= rows[i].step
  <2>1. CASE i \in DOMAIN rendered /\ CaughtUp(rendered[i], patches[i])
    <3>1. rendered[i].step >= patches[i].step
      BY <2>1 DEF CaughtUp
    <3> QED BY <1>3, <1>4, <1>5, <2>1, <3>1
  <2>2. CASE ~(i \in DOMAIN rendered /\ CaughtUp(rendered[i], patches[i]))
    <3>1. i \in DOMAIN patches' /\ patches'[i] = patches[i]
      BY <1>2, <2>2
    <3> QED BY <1>3, <3>1
  <2> QED BY <2>1, <2>2
<1>7. Learns
  BY <1>1, <1>4, <1>6 DEF Learns
<1>8. PatchesHold'
  BY <1>1, <1>2 DEF Echoed, PatchesHold
<1>9. ChainOK' /\ TransitTold' /\ RowsHold' /\ RenderedHolds'
  BY <1>1 DEF Echoed, ChainOK, TransitTold, ChannelTold, Told, RowsHold, RenderedHolds
<1>10. \A i \in 1..Len(chain) : chain[i].kind = "advanced" => Arrives(i)'
  BY <1>1 DEF Echoed, Arrives, Row, IsAdvance
<1> QED BY <1>1, <1>7, <1>8, <1>9, <1>10 DEF Echoed

\* A render reads rows of the store, and the other steps leave store and patches alone.
LEMMA OthersKeepEchoed ==
  ASSUME Echoed, UNCHANGED <<chain, transit, rows, patches>>,
         rendered' = rendered \/ rendered' = SessionRows
  PROVE  Echoed' /\ Learns
<1>1. RenderedHolds'
  <2>1. CASE rendered' = rendered
    BY <2>1 DEF Echoed, RenderedHolds
  <2>2. CASE rendered' = SessionRows
    <3>1. \A i \in DOMAIN SessionRows : i \in DOMAIN rows /\ SessionRows[i] = rows[i]
      BY DEF SessionRows, Restrict
    <3>2. \A i \in DOMAIN rows : rows[i].step \in Steps /\ rows[i].step <= rows[i].step
      BY DEF Echoed, RowsHold, RowHolds, Steps, Undefined
    <3> QED BY <2>2, <3>1, <3>2 DEF RenderedHolds
  <2> QED BY <2>1, <2>2
<1>2. ChainOK' /\ TransitTold' /\ RowsHold' /\ PatchesHold'
  BY DEF Echoed, ChainOK, TransitTold, ChannelTold, Told, RowsHold, PatchesHold
<1>3. \A i \in 1..Len(chain) : chain[i].kind = "advanced" => Arrives(i)'
  BY DEF Echoed, Arrives, Row, IsAdvance
<1>4. Learns
  BY UnchangedLearns DEF Echoed
<1> QED BY <1>1, <1>2, <1>3, <1>4 DEF Echoed

\* An advance leaves a session open; a settlement has a result and a final phase.
Committed(e) ==
  /\ e.kind = "advanced" => e.phase \in OpenPhases
  /\ e.kind = "settled" =>
       IsTerminalPhase(e.phase) /\ e.payout # Undefined /\ e.gameState # Undefined

LEMMA ChainEmits ==
  ASSUME Echoed, OpenOnChain \/ \E i \in DOMAIN chain : AdvanceOnChain(i) \/ SettleOnChain(i)
  PROVE  \E i : \E e \in Event, events \in Seq(Event) :
           /\ Emits(i, e, events) /\ Committed(e)
           /\ Len(chain') = Len(chain) \/ Len(chain') <= world.sessions
<1>0. chain \in Seq(Event) /\ Len(chain) \in Nat /\ DOMAIN chain = 1..Len(chain)
  BY DEF Echoed, ChainOK
<1>1. CASE OpenOnChain
  <2>1. PICK i, o, e : /\ i = Len(chain) + 1 /\ o = Opened(i)
                       /\ e = Advanced(i, 1, "WAITING_RANDOMNESS", Undefined)
    OBVIOUS
  <2>2. chain' = Append(chain, e) /\ Emitted(<<o, e>>) /\ UNCHANGED page
    BY <1>1, <2>1 DEF OpenOnChain
  <2>3. o \in Event /\ o.kind = "opened" /\ o.id = i
    BY <1>0, <2>1 DEF Opened, Event, Phases, Undefined
  <2>4. e \in Event /\ e.kind = "advanced" /\ e.id = i /\ e.step = 1
    BY <1>0, <2>1 DEF Advanced, Event, Phases, OpenPhases, Undefined
  <2>5. PICK events : events = <<o, e>>
    OBVIOUS
  <2>6. /\ events \in Seq(Event) /\ Emitted(events)
        /\ \A k \in 1..Len(events) : events[k] = e \/ (events[k].kind = "opened" /\ events[k].id = i)
        /\ \E k \in 1..Len(events) : events[k] = e
    <3>1. events \in Seq(Event) /\ Len(events) = 2 /\ events[1] = o /\ events[2] = e
      BY <2>3, <2>4, <2>5
    <3>2. 2 \in 1..2 /\ \A k \in 1..2 : k = 1 \/ k = 2
      OBVIOUS
    <3>3. Emitted(events)
      BY <2>2, <2>5
    <3> QED BY <2>3, <3>1, <3>2, <3>3, Zenon
  <2>7. /\ chain' \in Seq(Event) /\ 1..Len(chain') = (1..Len(chain)) \cup {i} /\ chain'[i] = e
        /\ \A j \in 1..Len(chain) : j # i => chain'[j] = chain[j]
        /\ i \notin 1..Len(chain)
    <3>1. /\ Append(chain, e) \in Seq(Event) /\ Len(Append(chain, e)) = i
          /\ Append(chain, e)[i] = e
          /\ \A j \in 1..Len(chain) : Append(chain, e)[j] = chain[j]
      BY <1>0, <2>1, <2>4
    <3>2. 1..i = (1..Len(chain)) \cup {i} /\ i \notin 1..Len(chain)
      BY <1>0, <2>1
    <3> QED BY <2>2, <3>1, <3>2
  <2>8. /\ e.kind \in {"advanced", "settled"} /\ (e.kind = "advanced" => e.step > 0)
        /\ i \in 1..Len(chain) =>
             chain[i].kind = "advanced" /\ (e.kind = "advanced" => chain[i].step <= e.step)
    BY <2>4, <2>7
  <2>9. Emits(i, e, events)
    BY <2>2, <2>4, <2>6, <2>7, <2>8 DEF Emits
  <2>10. Committed(e)
    BY <2>1 DEF Advanced, Committed, OpenPhases
  <2>11. Len(chain') <= world.sessions
    <3>1. Len(chain) + 1 <= world.sessions
      BY <1>1 DEF OpenOnChain
    <3>2. Len(chain') = Len(chain) + 1
      BY <1>0, <2>2, <2>4
    <3> QED BY <3>1, <3>2
  <2> QED BY <2>4, <2>6, <2>9, <2>10, <2>11
<1>2. ASSUME NEW i \in DOMAIN chain, AdvanceOnChain(i) \/ SettleOnChain(i)
      PROVE  \E j : \E e \in Event, events \in Seq(Event) :
               Emits(j, e, events) /\ Committed(e) /\ Len(chain') = Len(chain)
  <2>1. PICK d : d = chain[i]
    OBVIOUS
  <2>2. d \in Event /\ d.step > 0 /\ d.kind = "advanced" /\ i \in Int
    BY <1>0, <1>2, <2>1 DEF Echoed, ChainOK, AdvanceOnChain, SettleOnChain
  <2>3. d.step \in Int /\ Answer(d) \in Int
    BY <2>2, EventFields DEF Answer, Undefined
  <2>4. \E e \in Event : /\ chain' = [chain EXCEPT ![i] = e] /\ Emitted(<<e>>) /\ UNCHANGED page
                         /\ e.id = i /\ e.kind \in {"advanced", "settled"}
                         /\ e.kind = "advanced" => e.step = d.step + 1
                         /\ Committed(e)
    <3>1. CASE AdvanceOnChain(i)
      <4>1. PICK phase \in OpenPhases :
              /\ chain' = [chain EXCEPT ![i] = Advanced(i, d.step + 1, phase, Answer(d))]
              /\ Emitted(<<Advanced(i, d.step + 1, phase, Answer(d))>>)
        BY <2>1, <3>1 DEF AdvanceOnChain
      <4>2. PICK e : e = Advanced(i, d.step + 1, phase, Answer(d))
        OBVIOUS
      <4>3. e \in Event /\ e.id = i /\ e.kind = "advanced" /\ e.step = d.step + 1
        BY <2>2, <2>3, <4>2 DEF Advanced, Event, Phases, Undefined
      <4>4. UNCHANGED page
        BY <3>1 DEF AdvanceOnChain
      <4>5. Committed(e)
        BY <4>2 DEF Advanced, Committed
      <4> QED BY <4>1, <4>2, <4>3, <4>4, <4>5
    <3>2. CASE SettleOnChain(i)
      <4>1. PICK payout \in Payouts :
              \E e \in {Settled(i, "SETTLED", payout, d.step + 1, Answer(d)),
                        Settled(i, "CANCELLED", payout, d.step, Undefined)} :
                chain' = [chain EXCEPT ![i] = e] /\ Emitted(<<e>>)
        BY <2>1, <3>2 DEF SettleOnChain
      <4>2. PICK e \in {Settled(i, "SETTLED", payout, d.step + 1, Answer(d)),
                        Settled(i, "CANCELLED", payout, d.step, Undefined)} :
              chain' = [chain EXCEPT ![i] = e] /\ Emitted(<<e>>)
        BY <4>1
      <4>3. payout \in Int
        BY SnapshotAssumption
      <4>4. e \in Event /\ e.id = i /\ e.kind = "settled"
        BY <2>2, <2>3, <4>2, <4>3 DEF Settled, Event, Phases, TerminalPhases, Undefined
      <4>5. UNCHANGED page
        BY <3>2 DEF SettleOnChain
      <4>6. Committed(e)
        <5>1. payout # Undefined /\ d.step # Undefined /\ d.step + 1 # Undefined
          BY <2>2, <2>3, SnapshotAssumption DEF Undefined
        <5> QED BY <4>2, <5>1 DEF Settled, Committed, IsTerminalPhase, TerminalPhases
      <4> QED BY <4>2, <4>4, <4>5, <4>6
    <3> QED BY <1>2, <3>1, <3>2
  <2>5. PICK e \in Event : /\ chain' = [chain EXCEPT ![i] = e] /\ Emitted(<<e>>) /\ UNCHANGED page
                           /\ e.id = i /\ e.kind \in {"advanced", "settled"}
                           /\ e.kind = "advanced" => e.step = d.step + 1
                           /\ Committed(e)
    BY <2>4
  <2>6. PICK events : events = <<e>>
    OBVIOUS
  <2>7. /\ events \in Seq(Event) /\ Emitted(events) /\ \A k \in 1..Len(events) : events[k] = e
        /\ \E k \in 1..Len(events) : events[k] = e
    <3>1. events \in Seq(Event) /\ Len(events) = 1 /\ events[1] = e
      BY <2>6
    <3>2. 1 \in 1..1 /\ \A k \in 1..1 : k = 1
      OBVIOUS
    <3>3. Emitted(events)
      BY <2>5, <2>6
    <3> QED BY <3>1, <3>2, <3>3, Zenon
  <2>8. /\ chain' \in Seq(Event) /\ Len(chain') = Len(chain) /\ chain'[i] = e
        /\ \A j \in 1..Len(chain) : j # i => chain'[j] = chain[j]
    BY <1>0, <2>5
  <2>9. 1..Len(chain') = (1..Len(chain)) \cup {i}
    BY <1>0, <2>8
  <2>10. /\ e.kind = "advanced" => e.step > 0
         /\ chain[i].kind = "advanced" /\ (e.kind = "advanced" => chain[i].step <= e.step)
    BY <2>1, <2>2, <2>3, <2>5
  <2>11. Emits(i, e, events)
    BY <2>5, <2>7, <2>8, <2>9, <2>10 DEF Emits
  <2> QED BY <2>5, <2>7, <2>8, <2>11
<1> QED BY <1>1, <1>2

LEMMA ChainKeepsEchoed ==
  ASSUME Echoed, OpenOnChain \/ \E i \in DOMAIN chain : AdvanceOnChain(i) \/ SettleOnChain(i)
  PROVE  Echoed' /\ Learns
BY ChainEmits, EmissionKeepsEchoed

LEMMA NextKeepsEchoed ==
  ASSUME Echoed, [Next]_vars
  PROVE  Echoed' /\ Learns
<1>1. CASE OpenOnChain \/ \E i \in DOMAIN chain : AdvanceOnChain(i) \/ SettleOnChain(i)
  BY <1>1, ChainKeepsEchoed
<1>2. CASE Deliveries
  BY <1>2, IndexedDeliveryKeepsEchoed, FlashblockDeliveryKeepsEchoed DEF Deliveries
<1>3. CASE \E i \in world.bets : PlaceBet(i) \/ Receipt(i) \/ BetFails(i)
  BY <1>3, OthersKeepEchoed DEF PlaceBet, Receipt, BetFails, view
<1>4. CASE ToggleWallet
  BY <1>4, OthersKeepEchoed DEF ToggleWallet, view
<1>5. CASE Prune
  BY <1>5, PruneKeepsEchoed
<1>6. CASE Render
  <2>1. rendered' = SessionRows /\ UNCHANGED <<chain, transit, rows, patches>>
    BY <1>6 DEF Render
  <2> QED BY <2>1, OthersKeepEchoed
<1>7. CASE UNCHANGED vars
  BY <1>7, OthersKeepEchoed DEF vars
<1> QED BY <1>1, <1>2, <1>3, <1>4, <1>5, <1>6, <1>7 DEF Next

LEMMA EchoedInvariant == Spec => []Echoed
<1>1. Init => Echoed
  <2> SUFFICES ASSUME Init PROVE Echoed
    OBVIOUS
  <2>1. chain = <<>> /\ Len(chain) = 0 /\ 1..0 = {} /\ DOMAIN <<>> = {} /\ <<>> \in Seq(Event)
    BY DEF Init
  <2>2. ChainOK /\ RowsHold /\ PatchesHold /\ RenderedHolds
    BY <2>1 DEF Init, ChainOK, RowsHold, PatchesHold, RenderedHolds
  <2>3. \A c \in Channels : transit[c] = <<>>
    BY DEF Init
  <2>4. TransitTold
    <3>1. transit = [c \in Channels |-> transit[c]]
      BY DEF Init
    <3>2. ASSUME NEW c \in Channels PROVE ChannelTold(c)
      <4>1. transit[c] = <<>> /\ <<>> \in Seq(Event) /\ Len(<<>>) = 0 /\ 1..0 = {}
        BY <2>3
      <4> QED BY <4>1 DEF ChannelTold
    <3> QED BY <3>1, <3>2 DEF TransitTold
  <2> QED BY <2>1, <2>2, <2>4 DEF Echoed
<1>2. Echoed /\ [Next]_vars => Echoed'
  BY NextKeepsEchoed
<1> QED BY <1>1, <1>2, PTL DEF Spec

PatchStep(i) == IF i \in DOMAIN patches THEN patches[i].step ELSE Undefined
ListedStep(i) == IF i \in DOMAIN SessionRows THEN rows[i].step ELSE Undefined

\* Of an open session: what is echoed is the newest step that a source knows.
EchoesNewest ==
  \A i : \A remembered \in Snapshots :
    (i \in DOMAIN SessionRows => rows[i].status # "settled") =>
      LET r == ResolveEncodedSession(remembered, i)
      IN  /\ r \in {remembered.step, PatchStep(i), ListedStep(i)} /\ r \in Int
          /\ remembered.step <= r /\ PatchStep(i) <= r /\ ListedStep(i) <= r

LEMMA EchoIsNewest == Echoed => EchoesNewest
<1> SUFFICES ASSUME Echoed, NEW i, NEW remembered \in Snapshots,
                    i \in DOMAIN SessionRows => rows[i].status # "settled",
                    NEW r, r = ResolveEncodedSession(remembered, i)
             PROVE  /\ r \in {remembered.step, PatchStep(i), ListedStep(i)} /\ r \in Int
                    /\ remembered.step <= r /\ PatchStep(i) <= r /\ ListedStep(i) <= r
  BY DEF EchoesNewest
<1>1. PICK p, c : p = EncodedSessionSnapshot(patches, i) /\ c = EncodedSessionSnapshot(SessionRows, i)
  OBVIOUS
<1>2. NoSnapshot \in Snapshots /\ NoSnapshot.step = Undefined
  BY DEF NoSnapshot, Snapshots, Steps, Undefined
<1>3. \A k \in Steps \ {0} : [step |-> k, encodedSession |-> k] \in Snapshots
  BY DEF Snapshots
<1>4. p \in Snapshots /\ p.step = PatchStep(i)
  <2>1. i \in DOMAIN patches => patches[i].step \in Steps \ {0} /\ patches[i].encodedSession = patches[i].step
    BY DEF Echoed, PatchesHold, PatchHolds
  <2> QED BY <1>1, <1>2, <1>3, <2>1 DEF EncodedSessionSnapshot, PatchStep
<1>5. c \in Snapshots /\ c.step = ListedStep(i)
  <2>1. i \in DOMAIN SessionRows => i \in DOMAIN rows /\ SessionRows[i] = rows[i]
    BY DEF SessionRows, Restrict
  <2>2. i \in DOMAIN SessionRows => rows[i].step \in Steps \ {0} /\ rows[i].encodedSession = rows[i].step
    BY <2>1 DEF Echoed, RowsHold, RowHolds
  <2> QED BY <1>1, <1>2, <1>3, <2>1, <2>2 DEF EncodedSessionSnapshot, ListedStep
<1>6. r = LatestEncodedSession(<<remembered, p, c>>)
  BY <1>1 DEF ResolveEncodedSession
<1>7. r \in {remembered.step, p.step, c.step} /\ remembered.step <= r /\ p.step <= r /\ c.step <= r
  BY <1>4, <1>5, <1>6, LatestIsNewest
<1>8. remembered.step \in Int /\ p.step \in Int /\ c.step \in Int
  BY <1>4, <1>5 DEF Snapshots, Steps, Undefined
<1> QED BY <1>4, <1>5, <1>7, <1>8

\* Whatever the receipts said, the channels reorder, an effect prunes and the wallet
\* comes and goes, what submitAction echoes for an open session never goes back to
\* an older step.
THEOREM EchoesNeverGoBack == Spec => [][EchoNeverGoesBack]_vars
<1>1. Echoed /\ Echoed' /\ EchoesNewest /\ EchoesNewest' /\ Learns => EchoNeverGoesBack
  <2> SUFFICES ASSUME Echoed, Echoed', EchoesNewest, EchoesNewest', Learns, NEW i \in DOMAIN SessionRows',
                      NEW remembered \in Snapshots, NEW received \in Snapshots,
                      rows'[i].status # "settled"
               PROVE  ResolveEncodedSession(remembered, i)
                        <= ResolveEncodedSession(RememberSessionSnapshot(remembered, received), i)'
    BY DEF EchoNeverGoesBack
  <2>1. PICK known : known = RememberSessionSnapshot(remembered, received)
    OBVIOUS
  <2>2. known \in Snapshots /\ remembered.step <= known.step /\ remembered.step >= Undefined
        /\ remembered.step \in Int /\ known.step \in Int
    BY <2>1 DEF RememberSessionSnapshot, Snapshots, Steps, Undefined
  <2>3. PICK r, t : r = ResolveEncodedSession(remembered, i) /\ t = ResolveEncodedSession(known, i)'
    OBVIOUS
  <2>4. t \in Int /\ known.step <= t /\ PatchStep(i)' <= t /\ rows'[i].step <= t
    BY <2>2, <2>3 DEF EchoesNewest, ListedStep
  <2>5. i \in DOMAIN SessionRows => i \in DOMAIN rows
    BY DEF SessionRows, Restrict
  <2>6. i \in DOMAIN rows => rows[i].status # "settled" /\ rows[i].step <= rows'[i].step
    BY DEF Learns
  <2>7. r \in {remembered.step, PatchStep(i), ListedStep(i)} /\ r \in Int
    BY <2>2, <2>3, <2>5, <2>6 DEF EchoesNewest
  <2>8. r <= t
    <3>1. CASE r = remembered.step
      BY <2>2, <2>4, <3>1
    <3>2. CASE r = PatchStep(i)
      <4>1. CASE i \in DOMAIN patches /\ i \in DOMAIN patches' /\ patches[i].step <= patches'[i].step
        <5>1. PatchStep(i)' = patches'[i].step /\ PatchStep(i) = patches[i].step
          BY <4>1 DEF PatchStep
        <5>2. patches[i].step \in Int /\ patches'[i].step \in Int
          BY <4>1 DEF Echoed, PatchesHold, PatchHolds, Steps, Undefined
        <5> QED BY <2>4, <3>2, <4>1, <5>1, <5>2
      <4>2. CASE i \in DOMAIN patches /\ i \in DOMAIN rows /\ patches[i].step <= rows[i].step
        <5>1. r <= rows[i].step /\ rows[i].step <= rows'[i].step /\ rows'[i].step <= t
          BY <2>4, <2>6, <3>2, <4>2 DEF PatchStep
        <5>2. rows[i].step \in Int /\ rows'[i].step \in Int
          BY <2>6, <4>2 DEF Echoed, RowsHold, RowHolds, Steps, Undefined, Learns
        <5> QED BY <2>4, <2>7, <5>1, <5>2
      <4>3. CASE i \notin DOMAIN patches
        BY <2>2, <2>4, <3>2, <4>3 DEF PatchStep, Undefined
      <4> QED BY <4>1, <4>2, <4>3 DEF Learns
    <3>3. CASE r = ListedStep(i)
      <4>1. CASE i \in DOMAIN SessionRows
        <5>1. r <= rows'[i].step /\ rows'[i].step <= t
          BY <2>4, <2>5, <2>6, <3>3, <4>1 DEF ListedStep
        <5>2. rows'[i].step \in Int
          BY <2>5, <4>1 DEF Echoed, RowsHold, RowHolds, Steps, Undefined, Learns
        <5> QED BY <2>4, <2>7, <5>1, <5>2
      <4>2. CASE i \notin DOMAIN SessionRows
        BY <2>2, <2>4, <3>3, <4>2 DEF ListedStep, Undefined
      <4> QED BY <4>1, <4>2
    <3> QED BY <2>7, <3>1, <3>2, <3>3
  <2> QED BY <2>1, <2>3, <2>8
<1>2. Echoed /\ [Next]_vars => Learns
  BY NextKeepsEchoed
<1> QED BY <1>1, <1>2, EchoedInvariant, EchoIsNewest, PTL DEF Spec

\* The bytes submitAction echoes are a step the session committed, and the current one,
\* the only one the host takes, once no indexed event of it is on its way.
THEOREM EchoesAreCommitted == Spec => []EchoIsCommitted
<1>1. Echoed /\ EchoesNewest => EchoIsCommitted
  <2> SUFFICES ASSUME Echoed, EchoesNewest, NEW i \in DOMAIN SessionRows, NEW remembered \in Snapshots,
                      chain[i].kind = "advanced", remembered.step <= chain[i].step,
                      NEW r, r = ResolveEncodedSession(remembered, i)
               PROVE  /\ r \in {Undefined} \cup 1..chain[i].step
                      /\ (\A n \in 1..Len(transit["indexed"]) : transit["indexed"][n].id # i)
                           => r = chain[i].step
    BY DEF EchoIsCommitted
  <2>1. i \in DOMAIN rows
    BY DEF SessionRows, Restrict
  <2>2. /\ i \in 1..Len(chain) /\ rows[i].status # "settled" /\ rows[i].step <= chain[i].step
        /\ rows[i].step \in Steps \ {0}
    BY <2>1 DEF Echoed, RowsHold, RowHolds
  <2>3. r \in {remembered.step, PatchStep(i), rows[i].step} /\ r \in Int /\ rows[i].step <= r
    BY <2>2 DEF EchoesNewest, ListedStep
  <2>4. chain[i].step \in Int /\ chain[i].step > 0
    <3>1. chain[i] \in Event
      BY <2>2 DEF Echoed, ChainOK
    <3> QED BY <2>2, <3>1, EventFields DEF Echoed, ChainOK
  <2>5. PatchStep(i) \in Steps \ {0} /\ PatchStep(i) <= chain[i].step
    BY <2>4 DEF Echoed, PatchesHold, PatchHolds, PatchStep, Steps, Undefined
  <2>6. r <= chain[i].step /\ r \in Steps \ {0}
    BY <2>2, <2>3, <2>5 DEF Snapshots
  <2>7. r \in {Undefined} \cup 1..chain[i].step
    BY <2>4, <2>6 DEF Steps
  <2>8. ASSUME \A n \in 1..Len(transit["indexed"]) : transit["indexed"][n].id # i
        PROVE  r = chain[i].step
    <3>1. Row(i).step = chain[i].step
      BY <2>2, <2>8 DEF Echoed, Arrives, IsAdvance
    <3>2. rows[i].step = chain[i].step
      BY <2>1, <3>1 DEF Row
    <3> QED BY <2>3, <2>4, <2>6, <3>2
  <2> QED BY <2>7, <2>8
<1> QED BY <1>1, EchoedInvariant, EchoIsNewest, PTL


-----------------------------------------------------------------------------
(* Lists: a set in an order, some positions of a list, a list after another. *)
\* R puts the members of K in a line.
InLine(K, R) ==
  /\ \A m, n \in K : m = n <=> <<m, n>> \notin R /\ <<n, m>> \notin R
  /\ \A m, n \in K : <<m, n>> \in R => <<n, m>> \notin R
  /\ \A l, m, n \in K : <<l, m>> \in R /\ <<m, n>> \in R => <<l, n>> \in R

\* e has every member of K once, in the order R.
Lists(e, K, R) ==
  /\ e = [k \in 1..Cardinality(K) |-> e[k]]
  /\ \A k \in 1..Cardinality(K) : e[k] \in K
  /\ \A n \in K : \E k \in 1..Cardinality(K) : e[k] = n
  /\ \A j, k \in 1..Cardinality(K) : j < k => <<e[j], e[k]>> \in R /\ e[j] # e[k]

LEMMA OrderIsListed ==
  ASSUME NEW K, IsFiniteSet(K), NEW R, InLine(K, R)
  PROVE  Cardinality(K) \in Nat /\ Lists(InOrder(K, R), K, R)
<1> DEFINE before(n) == {m \in K : <<n, m>> \notin R}
           rank(n) == Cardinality(before(n))
           N == Cardinality(K)
<1>1. N \in Nat
  BY FS_CardinalityType
<1>2. \A n \in K : before(n) \in SUBSET K /\ IsFiniteSet(before(n)) /\ rank(n) \in Nat /\ rank(n) <= N
  <2> TAKE n \in K
  <2>1. before(n) \in SUBSET K
    OBVIOUS
  <2> QED BY <2>1, FS_Subset, FS_CardinalityType
<1>3. \A n \in K : rank(n) \in 1..N
  <2> TAKE n \in K
  <2>1. n \in before(n)
    BY DEF InLine
  <2>2. rank(n) # 0
    BY <2>1, <1>2, FS_EmptySet
  <2> QED BY <1>1, <1>2, <2>2
<1>4. \A m, n \in K : <<m, n>> \in R => rank(m) < rank(n)
  <2> SUFFICES ASSUME NEW m \in K, NEW n \in K, <<m, n>> \in R PROVE rank(m) < rank(n)
    OBVIOUS
  <2>1. before(m) \in SUBSET before(n)
    <3> SUFFICES ASSUME NEW l \in K, <<m, l>> \notin R, <<n, l>> \in R PROVE FALSE
      OBVIOUS
    <3> QED BY DEF InLine
  <2>2. n \in before(n) /\ n \notin before(m)
    BY DEF InLine
  <2>3. rank(m) <= rank(n) /\ (rank(n) = rank(m) => before(n) = before(m))
    BY <2>1, <1>2, FS_Subset
  <2>4. before(n) # before(m)
    BY <2>2, Zenon
  <2> HIDE DEF before
  <2> QED BY <2>3, <2>4, <1>2
<1>5. \A m, n \in K : rank(m) = rank(n) => m = n
  <2> HIDE DEF rank
  <2> SUFFICES ASSUME NEW m \in K, NEW n \in K, rank(m) = rank(n), m # n PROVE FALSE
    OBVIOUS
  <2>1. <<m, n>> \in R \/ <<n, m>> \in R
    BY DEF InLine
  <2>2. rank(m) < rank(n) \/ rank(n) < rank(m)
    BY <2>1, <1>4
  <2>3. rank(m) \in Int /\ rank(n) \in Int
    BY <1>3
  <2> QED BY <2>2, <2>3
<1>6. \A k \in 1..N : \E n \in K : rank(n) = k
  <2> HIDE DEF rank
  <2> SUFFICES ASSUME NEW k \in 1..N, \A n \in K : rank(n) # k PROVE FALSE
    OBVIOUS
  <2> DEFINE T == (1..N) \ {k}
             f == [n \in K |-> rank(n)]
  <2>1. IsFiniteSet(1..N) /\ Cardinality(1..N) = N
    <3>1. 1 \in Int /\ N \in Int
      BY <1>1
    <3>2. IsFiniteSet(1..N) /\ Cardinality(1..N) = IF 1 > N THEN 0 ELSE N - 1 + 1
      BY <3>1, FS_Interval
    <3> HIDE DEF N
    <3> QED BY <3>2, <1>1
  <2>2. IsFiniteSet(T) /\ Cardinality(T) = N - 1
    BY <2>1, FS_RemoveElement
  <2>3. f \in [K -> T]
    BY <1>3
  <2>4. N - 1 < N
    BY <1>1
  <2>5. Cardinality(T) < Cardinality(K)
    BY <2>2, <2>4
  <2>7. \A n \in K : f[n] = rank(n)
    OBVIOUS
  <2> HIDE DEF T, f, N
  <2>6. \E x, y \in K : x # y /\ f[x] = f[y]
    BY <2>2, <2>3, <2>5, FS_PigeonHole
  <2> QED BY <2>6, <2>7, <1>5
<1> DEFINE e == InOrder(K, R)
<1>7. e = [k \in 1..N |-> CHOOSE n \in K : rank(n) = k]
  BY DEF InOrder
<1> HIDE DEF rank, e, N
<1>8. \A k \in 1..N : e[k] \in K /\ rank(e[k]) = k
  BY <1>6, <1>7
<1>9. e = [k \in 1..N |-> e[k]]
  BY <1>7
<1>10. \A n \in K : \E k \in 1..N : e[k] = n
  BY <1>3, <1>5, <1>8
<1>11. \A j, k \in 1..N : j < k => <<e[j], e[k]>> \in R /\ e[j] # e[k]
  <2> SUFFICES ASSUME NEW j \in 1..N, NEW k \in 1..N, j < k PROVE <<e[j], e[k]>> \in R /\ e[j] # e[k]
    OBVIOUS
  <2>1. e[j] \in K /\ e[k] \in K /\ rank(e[j]) = j /\ rank(e[k]) = k
    BY <1>8
  <2>2. j # k /\ ~(k < j)
    OBVIOUS
  <2>3. e[j] # e[k]
    BY <2>1, <2>2, Zenon
  <2>4. <<e[k], e[j]>> \notin R
    BY <2>1, <2>2, <1>4
  <2> QED BY <2>1, <2>3, <2>4 DEF InLine
<1>12. Lists(e, K, R)
  BY <1>8, <1>9, <1>10, <1>11 DEF Lists, N
<1> QED BY <1>1, <1>12 DEF e, N

Increasing(K) == {p \in K \X K : p[1] < p[2]}

LEMMA AscendingListed ==
  ASSUME NEW K \in SUBSET Int, IsFiniteSet(K)
  PROVE  Cardinality(K) \in Nat /\ Lists(Ascending(K), K, Increasing(K))
<1>1. \A m, n \in K : <<m, n>> \in Increasing(K) <=> m < n
  BY DEF Increasing
<1>2. InLine(K, Increasing(K))
  <2>1. \A m, n \in K : m \in Int /\ n \in Int
    OBVIOUS
  <2>2. \A m, n \in K : m = n <=> ~(m < n) /\ ~(n < m)
    BY <2>1
  <2>3. \A l, m, n \in K : l < m /\ m < n => l < n
    BY <2>1
  <2>4. \A m, n \in K : m < n => ~(n < m)
    BY <2>1
  <2> QED BY <1>1, <2>2, <2>3, <2>4 DEF InLine
<1> QED BY <1>2, OrderIsListed DEF Ascending, Increasing

-----------------------------------------------------------------------------
(* Lists of items.                                                         *)

\* s is a sequence of n members.
IsList(s, n) == n \in Nat /\ s = [k \in 1..n |-> s[k]]

LEMMA ListsAreFinite ==
  ASSUME NEW s, NEW n, IsList(s, n)
  PROVE  DOMAIN s = 1..n /\ IsFiniteSet(1..n) /\ Cardinality(1..n) = n
<1>1. n \in Nat /\ DOMAIN s = 1..n
  BY DEF IsList
<1>2. 1 \in Int /\ n \in Int
  BY <1>1
<1>3. IsFiniteSet(1..n) /\ Cardinality(1..n) = IF 1 > n THEN 0 ELSE n - 1 + 1
  BY <1>2, FS_Interval
<1>4. (IF 1 > n THEN 0 ELSE n - 1 + 1) = n
  BY <1>1
<1> QED BY <1>1, <1>3, <1>4

\* st is s followed by t.
Joined(st, s, m, t, n) ==
  /\ IsList(st, m + n)
  /\ \A k \in 1..m : k \in 1..(m + n) /\ st[k] = s[k]
  /\ \A k \in 1..n : m + k \in 1..(m + n) /\ st[m + k] = t[k]
  /\ \A k \in 1..(m + n) : k \in 1..m \/ \E l \in 1..n : k = m + l

LEMMA ListsJoin ==
  ASSUME NEW s, NEW m, IsList(s, m), NEW t, NEW n, IsList(t, n)
  PROVE  Joined(s \o t, s, m, t, n)
<1> DEFINE S == {s[k] : k \in 1..m} \cup {t[k] : k \in 1..n}
<1>0. m \in Nat /\ n \in Nat /\ s = [k \in 1..m |-> s[k]] /\ t = [k \in 1..n |-> t[k]]
  BY DEF IsList
<1>1. s \in Seq(S) /\ Len(s) = m
  <2>1. \A k \in 1..m : s[k] \in S
    OBVIOUS
  <2> HIDE DEF S
  <2>2. s \in [1..m -> S]
    BY <1>0, <2>1
  <2> QED BY <1>0, <2>2
<1>2. t \in Seq(S) /\ Len(t) = n
  <2>1. \A k \in 1..n : t[k] \in S
    OBVIOUS
  <2> HIDE DEF S
  <2>2. t \in [1..n -> S]
    BY <1>0, <2>1
  <2> QED BY <1>0, <2>2
<1> HIDE DEF S
<1>3. /\ s \o t \in Seq(S) /\ Len(s \o t) = m + n
      /\ \A k \in 1..m : (s \o t)[k] = s[k]
      /\ \A k \in 1..n : (s \o t)[m + k] = t[k]
  <2>1. /\ s \o t \in Seq(S) /\ Len(s \o t) = Len(s) + Len(t)
        /\ \A k \in 1..Len(s) : (s \o t)[k] = s[k]
        /\ \A k \in 1..Len(t) : (s \o t)[Len(s) + k] = t[k]
    <3>1. s \in Seq(S) /\ t \in Seq(S)
      BY <1>1, <1>2
    <3> QED BY <3>1
  <2> QED BY <1>1, <1>2, <2>1, Zenon
<1>4. m + n \in Nat
  BY <1>0
<1>5. s \o t = [k \in 1..(m + n) |-> (s \o t)[k]]
  <2>1. PICK u : u = s \o t
    OBVIOUS
  <2>2. u \in Seq(S) /\ Len(u) = m + n
    BY <1>3, <2>1, Zenon
  <2>3. u = [k \in 1..(m + n) |-> u[k]]
    BY <2>2, <1>4
  <2> QED BY <2>1, <2>3, Zenon
<1>6. \A k \in 1..m : k \in 1..(m + n)
  BY <1>0
<1>7. \A k \in 1..n : m + k \in 1..(m + n)
  BY <1>0
<1>8. \A k \in 1..(m + n) : k \in 1..m \/ \E l \in 1..n : k = m + l
  <2> SUFFICES ASSUME NEW k \in 1..(m + n), k \notin 1..m PROVE \E l \in 1..n : k = m + l
    OBVIOUS
  <2>1. k - m \in 1..n /\ k = m + (k - m)
    BY <1>0
  <2> QED BY <2>1
<1> QED BY <1>3, <1>4, <1>5, <1>6, <1>7, <1>8 DEF Joined, IsList

\* t is what s has at the positions K.
Selected(t, s, K) ==
  /\ IsList(t, Cardinality(K))
  /\ \A k \in DOMAIN t : \E n \in K : t[k] = s[n]
  /\ \A n \in K : \E k \in DOMAIN t : t[k] = s[n]
  /\ \A j, k \in DOMAIN t : j # k => \E m, n \in K : m # n /\ t[j] = s[m] /\ t[k] = s[n]

LEMMA PositionsSelect ==
  ASSUME NEW s, NEW n, IsList(s, n), NEW K \in SUBSET (1..n)
  PROVE  Selected(AtPositions(s, K), s, K)
<1>0. n \in Nat /\ IsFiniteSet(1..n)
  <2>1. n \in Nat
    BY DEF IsList
  <2> QED BY <2>1, ListsAreFinite, Zenon
<1>1. IsFiniteSet(K) /\ K \in SUBSET Int
  <2>1. IsFiniteSet(K)
    BY <1>0, FS_Subset, Zenon
  <2>2. K \in SUBSET Int
    OBVIOUS
  <2> QED BY <2>1, <2>2
<1> DEFINE e == Ascending(K)
           N == Cardinality(K)
           t == AtPositions(s, K)
<1>2. N \in Nat /\ Lists(e, K, Increasing(K))
  BY <1>1, AscendingListed
<1>3. t = [k \in 1..N |-> s[e[k]]]
  BY DEF AtPositions
<1> HIDE DEF e, N, t
<1>4. /\ \A k \in 1..N : e[k] \in K
      /\ \A m \in K : \E k \in 1..N : e[k] = m
      /\ \A j, k \in 1..N : j < k => e[j] # e[k]
  BY <1>2 DEF Lists, N
<1>5. \A j, k \in 1..N : j # k => e[j] # e[k]
  <2> SUFFICES ASSUME NEW j \in 1..N, NEW k \in 1..N, j # k PROVE e[j] # e[k]
    OBVIOUS
  <2>1. j < k \/ k < j
    BY <1>2
  <2> QED BY <1>4, <2>1
<1>6. DOMAIN t = 1..N /\ IsList(t, N) /\ \A k \in 1..N : t[k] = s[e[k]]
  BY <1>2, <1>3 DEF IsList
<1>7. Selected(t, s, K)
  <2>1. \A k \in DOMAIN t : \E m \in K : t[k] = s[m]
    BY <1>4, <1>6
  <2>2. \A m \in K : \E k \in DOMAIN t : t[k] = s[m]
    BY <1>4, <1>6, Zenon
  <2>3. \A j, k \in DOMAIN t : j # k => \E l, m \in K : l # m /\ t[j] = s[l] /\ t[k] = s[m]
    <3> SUFFICES ASSUME NEW j \in 1..N, NEW k \in 1..N, j # k
                 PROVE  \E l, m \in K : l # m /\ t[j] = s[l] /\ t[k] = s[m]
      BY <1>6
    <3>1. e[j] \in K /\ e[k] \in K /\ e[j] # e[k] /\ t[j] = s[e[j]] /\ t[k] = s[e[k]]
      BY <1>4, <1>5, <1>6
    <3> QED BY <3>1
  <2>4. IsList(t, Cardinality(K))
    BY <1>6 DEF N
  <2> QED BY <2>1, <2>2, <2>3, <2>4 DEF Selected
<1> QED BY <1>7 DEF t

-----------------------------------------------------------------------------
(* What is published agrees with the chain.                                *)

AsOnChain(x, i) ==
  /\ chain[i].kind = "settled"
  /\ x.phase = chain[i].phase /\ x.payout = chain[i].payout /\ x.gameState = chain[i].gameState

\* An item whose result, if it shows one, is the one on the chain, with the block's
\* time only once the row has it.
Truthful(item) ==
  /\ item = [id |-> item.id, bet |-> item.bet, phase |-> item.phase, isSettled |-> item.isSettled,
             gameState |-> item.gameState, payout |-> item.payout,
             settledAt |-> item.settledAt, randomness |-> item.randomness]
  /\ item.isSettled \in BOOLEAN /\ item.id \in {Pending} \cup 1..Len(chain)
  /\ item.isSettled => item.id # Pending /\ AsOnChain(item, item.id)
  /\ IF item.isSettled THEN item.settledAt \in {PageClock, BlockClock}
     ELSE item.settledAt = Undefined
  /\ item.settledAt = BlockClock => item.id \in DOMAIN rows /\ rows[item.id].settledAt = BlockClock

Once(items) ==
  \A j, k \in DOMAIN items : items[j].id = items[k].id /\ items[j].id # Pending => j = k

ItemsOK(items, n) == IsList(items, n) /\ (\A k \in 1..n : Truthful(items[k])) /\ Once(items)

MemoOK(memo) == \A i \in DOMAIN memo : i \in 1..Len(chain) /\ memo[i].id = i /\ Truthful(memo[i])
SettledMemo(memo) == MemoOK(memo) /\ \A i \in DOMAIN memo : Complete(memo[i])
OpenMemo(memo) == MemoOK(memo) /\ \A i \in DOMAIN memo : ~Complete(memo[i]) /\ ~memo[i].isSettled

\* r is what is shown for an item: it flips to settled with its result.
Shows(r, item, memo) ==
  /\ Truthful(r) /\ r.id = item.id
  /\ item.id \in DOMAIN memo => Complete(r)
  /\ Complete(r) => r.isSettled
  /\ ~Complete(r) => ~r.isSettled
  /\ Complete(item) => r = item

LEMMA ItemReconciled ==
  ASSUME NEW item, Truthful(item), NEW memo, SettledMemo(memo)
  PROVE  Shows(Reconciled(item, memo), item, memo)
<1> DEFINE r == Reconciled(item, memo)
<1> SUFFICES Shows(r, item, memo)
  OBVIOUS
<1>1. CASE Complete(item)
  <2>1. r = item
    BY <1>1 DEF Reconciled
  <2>2. item.isSettled
    BY <1>1 DEF Complete
  <2> HIDE DEF r
  <2> QED BY <1>1, <2>1, <2>2 DEF Shows
<1>2. CASE ~Complete(item) /\ item.id \in DOMAIN memo
  <2>1. r = memo[item.id]
    BY <1>2 DEF Reconciled
  <2>2. Truthful(r) /\ r.id = item.id /\ Complete(r)
    BY <1>2, <2>1 DEF SettledMemo, MemoOK
  <2>3. r.isSettled
    BY <2>2 DEF Complete
  <2> HIDE DEF r
  <2> QED BY <1>2, <2>2, <2>3 DEF Shows
<1>3. CASE ~Complete(item) /\ item.id \notin DOMAIN memo /\ (item.isSettled \/ IsTerminalPhase(item.phase))
  <2>1. r = [item EXCEPT !.phase = "WAITING_RANDOMNESS", !.isSettled = FALSE, !.payout = Undefined,
                         !.settledAt = Undefined, !.gameState = Undefined]
    BY <1>3 DEF Reconciled, Demoted
  <2>2. /\ r = [id |-> r.id, bet |-> r.bet, phase |-> r.phase, isSettled |-> r.isSettled,
                gameState |-> r.gameState, payout |-> r.payout,
             settledAt |-> r.settledAt, randomness |-> r.randomness]
        /\ r.id = item.id /\ r.isSettled = FALSE /\ r.settledAt = Undefined
    BY <2>1 DEF Truthful
  <2> HIDE DEF r
  <2>3. Truthful(r) /\ ~Complete(r)
    <3>1. r.id \in {Pending} \cup 1..Len(chain)
      BY <2>2 DEF Truthful
    <3>2. r.settledAt # BlockClock
      BY <2>2 DEF Undefined, BlockClock
    <3> QED BY <2>2, <3>1, <3>2 DEF Truthful, Complete
  <2> QED BY <1>3, <2>2, <2>3 DEF Shows
<1>4. CASE ~Complete(item) /\ item.id \notin DOMAIN memo /\ ~(item.isSettled \/ IsTerminalPhase(item.phase))
  <2>1. r = item
    BY <1>4 DEF Reconciled
  <2> HIDE DEF r
  <2> QED BY <1>4, <2>1 DEF Shows
<1> HIDE DEF r
<1> QED BY <1>1, <1>2, <1>3, <1>4

\* The memo m is the memo with the items at some positions.
Remembers(m, memo, items, which) ==
  /\ DOMAIN m = DOMAIN memo \cup {items[n].id : n \in which}
  /\ \A n \in which : m[items[n].id] = items[n]
  /\ \A i \in DOMAIN memo : (\A n \in which : items[n].id # i) => m[i] = memo[i]

LEMMA ItemsRemembered ==
  ASSUME NEW items, Once(items), NEW memo,
         NEW which \in SUBSET {n \in DOMAIN items : items[n].id # Pending}
  PROVE  Remembers(Remember(memo, items, which), memo, items, which)
<1> DEFINE m == Remember(memo, items, which)
<1>1. m = [i \in DOMAIN memo \cup {items[n].id : n \in which} |->
             IF \E n \in which : items[n].id = i THEN items[CHOOSE n \in which : items[n].id = i]
             ELSE memo[i]]
  BY DEF Remember
<1> HIDE DEF m
<1>2. ASSUME NEW n \in which PROVE m[items[n].id] = items[n]
  <2>1. \E k \in which : items[k].id = items[n].id
    OBVIOUS
  <2>2. (CHOOSE k \in which : items[k].id = items[n].id) = n
    BY DEF Once
  <2>3. items[n].id \in DOMAIN memo \cup {items[k].id : k \in which}
    OBVIOUS
  <2> QED BY <1>1, <2>1, <2>2, <2>3
<1>3. \A i \in DOMAIN memo : (\A n \in which : items[n].id # i) => m[i] = memo[i]
  BY <1>1
<1>4. DOMAIN m = DOMAIN memo \cup {items[n].id : n \in which}
  BY <1>1
<1>5. Remembers(m, memo, items, which)
  BY <1>2, <1>3, <1>4 DEF Remembers
<1> QED BY <1>5 DEF m

\* l is the list of the same items, the newest first.
Sorted(l, items, n) ==
  /\ IsList(l, n) /\ (\A k \in 1..n : \E j \in 1..n : l[k] = items[j])
  /\ \A j \in 1..n : \E k \in 1..n : l[k] = items[j]
  /\ Once(l)
  /\ \A j, k \in 1..n : j < k => SessionOrdinal(l[j].id) >= SessionOrdinal(l[k].id)

LEMMA ItemsSorted ==
  ASSUME NEW items, NEW n, ItemsOK(items, n), Len(chain) \in Nat
  PROVE  Sorted(NewestFirst(items), items, n)
<1> DEFINE D == DOMAIN items
           ordinal == [k \in D |-> SessionOrdinal(items[k].id)]
           newer == {p \in D \X D : \/ ordinal[p[1]] > ordinal[p[2]]
                                    \/ ordinal[p[1]] = ordinal[p[2]] /\ p[1] < p[2]}
           e == InOrder(D, newer)
           l == NewestFirst(items)
<1>1. l = [k \in 1..Cardinality(D) |-> items[e[k]]]
  BY DEF NewestFirst
<1>2. D = 1..n /\ IsFiniteSet(D) /\ Cardinality(D) = n /\ n \in Nat
  BY ListsAreFinite DEF ItemsOK, IsList
<1>3. \A k \in D : ordinal[k] = SessionOrdinal(items[k].id) /\ ordinal[k] \in Int /\ k \in Int
  <2> TAKE k \in D
  <2>1. Truthful(items[k])
    BY <1>2 DEF ItemsOK
  <2>2. items[k].id \in Int
    BY <2>1 DEF Truthful, Pending
  <2> QED BY <1>2, <2>2, SnapshotAssumption DEF SessionOrdinal
<1> HIDE DEF ordinal, D
<1>4. \A j, k \in D : <<j, k>> \in newer <=> \/ ordinal[j] > ordinal[k]
                                             \/ ordinal[j] = ordinal[k] /\ j < k
  OBVIOUS
<1> HIDE DEF newer
<1>5. InLine(D, newer)
  <2>1. \A j, k \in D : j = k <=> <<j, k>> \notin newer /\ <<k, j>> \notin newer
    <3> SUFFICES ASSUME NEW j \in D, NEW k \in D
                 PROVE  j = k <=> <<j, k>> \notin newer /\ <<k, j>> \notin newer
      OBVIOUS
    <3> DEFINE a == ordinal[j]
               b == ordinal[k]
    <3>1. a \in Int /\ b \in Int /\ j \in Int /\ k \in Int /\ (j = k => a = b)
      BY <1>3
    <3>2. /\ <<j, k>> \in newer <=> (a > b \/ (a = b /\ j < k))
          /\ <<k, j>> \in newer <=> (b > a \/ (b = a /\ k < j))
      BY <1>4, Zenon
    <3> HIDE DEF a, b
    <3> QED BY <3>1, <3>2
  <2>2. \A j, k \in D : <<j, k>> \in newer => <<k, j>> \notin newer
    BY <1>3, <1>4
  <2>3. \A j, k, m \in D : <<j, k>> \in newer /\ <<k, m>> \in newer => <<j, m>> \in newer
    BY <1>3, <1>4
  <2> QED BY <2>1, <2>2, <2>3 DEF InLine
<1>6. Lists(e, D, newer)
  BY <1>2, <1>5, OrderIsListed
<1> HIDE DEF e, l
<1>7. /\ \A k \in 1..n : e[k] \in D
      /\ \A m \in D : \E k \in 1..n : e[k] = m
      /\ \A j, k \in 1..n : j < k => <<e[j], e[k]>> \in newer /\ e[j] # e[k]
  BY <1>2, <1>6 DEF Lists
<1>8. IsList(l, n) /\ DOMAIN l = 1..n /\ \A k \in 1..n : l[k] = items[e[k]]
  BY <1>1, <1>2 DEF IsList
<1>9. \A k \in 1..n : \E j \in 1..n : l[k] = items[j]
  BY <1>2, <1>7, <1>8
<1>10. \A j \in 1..n : \E k \in 1..n : l[k] = items[j]
  <2> TAKE j \in 1..n
  <2>1. PICK k \in 1..n : e[k] = j
    BY <1>2, <1>7
  <2> QED BY <1>8, <2>1
<1>11. Once(l)
  <2> SUFFICES ASSUME NEW j \in 1..n, NEW k \in 1..n, l[j].id = l[k].id, l[j].id # Pending, j # k
               PROVE  FALSE
    BY <1>8 DEF Once
  <2>1. j < k \/ k < j
    BY <1>2
  <2>2. e[j] # e[k] /\ e[j] \in D /\ e[k] \in D
    BY <1>7, <2>1
  <2>3. items[e[j]].id = items[e[k]].id /\ items[e[j]].id # Pending
    BY <1>8
  <2> QED BY <2>2, <2>3 DEF ItemsOK, Once, D
<1>12. \A j, k \in 1..n : j < k => SessionOrdinal(l[j].id) >= SessionOrdinal(l[k].id)
  <2> SUFFICES ASSUME NEW j \in 1..n, NEW k \in 1..n, j < k
               PROVE  SessionOrdinal(l[j].id) >= SessionOrdinal(l[k].id)
    OBVIOUS
  <2>1. <<e[j], e[k]>> \in newer /\ e[j] \in D /\ e[k] \in D
    BY <1>7
  <2>2. ordinal[e[j]] >= ordinal[e[k]]
    BY <1>3, <1>4, <2>1
  <2>3. ordinal[e[j]] = SessionOrdinal(l[j].id) /\ ordinal[e[k]] = SessionOrdinal(l[k].id)
    BY <1>3, <1>8, <2>1
  <2> QED BY <2>2, <2>3
<1>13. Sorted(l, items, n)
  BY <1>8, <1>9, <1>10, <1>11, <1>12 DEF Sorted
<1> QED BY <1>13 DEF l

\* What the memos have of session i.
Kept(p, i) == IF i \in DOMAIN p.settled THEN p.settled[i] ELSE p.open[i]
Memorised(p) == DOMAIN p.settled \cup DOMAIN p.open

\* The memos are sound, and the list is what they have of the sessions, newest first.
Sound(p) ==
  /\ SettledMemo(p.settled) /\ OpenMemo(p.open)
  /\ \E n : ItemsOK(p.snapshot, n)
  /\ \A j, k \in DOMAIN p.snapshot :
       j < k => SessionOrdinal(p.snapshot[j].id) >= SessionOrdinal(p.snapshot[k].id)
  /\ \A k \in DOMAIN p.snapshot :
       p.snapshot[k].id # Pending =>
         p.snapshot[k].id \in Memorised(p) /\ p.snapshot[k] = Kept(p, p.snapshot[k].id)
  /\ \A i \in Memorised(p) : Shown(p.snapshot, i)

\* p is what follows for what was merged and remembered.
Follows(p, merged, settledMemo, openMemo) ==
  /\ Sound(p)
  /\ DOMAIN settledMemo \subseteq DOMAIN p.settled /\ DOMAIN openMemo \subseteq Memorised(p)
  /\ \A k \in DOMAIN merged :
       merged[k].id # Pending =>
         /\ merged[k].id \in Memorised(p)
         /\ Complete(merged[k]) =>
              merged[k].id \in DOMAIN p.settled /\ p.settled[merged[k].id] = merged[k]

LEMMA ListReconciled ==
  ASSUME Len(chain) \in Nat, NEW merged, NEW n, ItemsOK(merged, n),
         NEW settledMemo, SettledMemo(settledMemo), NEW openMemo, OpenMemo(openMemo)
  PROVE  Follows(Reconcile(merged, settledMemo, openMemo), merged, settledMemo, openMemo)
<1> DEFINE items == [k \in DOMAIN merged |-> Reconciled(merged[k], settledMemo)]
           onChain == {k \in DOMAIN items : items[k].id # Pending}
           complete == {k \in onChain : Complete(items[k])}
           other == {k \in onChain : ~Complete(items[k])}
           settled == Remember(settledMemo, items, complete)
           open == Remember(openMemo, items, other)
           unsettled == Restrict(open, DOMAIN open \ DOMAIN settled)
           ids == {items[k].id : k \in DOMAIN items}
           dropped == (DOMAIN settled \cup DOMAIN unsettled) \ ids
           kept == [k \in 1..Cardinality(dropped) |->
                      LET i == Ascending(dropped)[k]
                      IN  IF i \in DOMAIN settled THEN settled[i] ELSE unsettled[i]]
           list == NewestFirst(items \o kept)
           p == [settled |-> settled, open |-> unsettled, snapshot |-> list]
<1>0. Reconcile(merged, settledMemo, openMemo) = p
  BY DEF Reconcile
<1>1. DOMAIN merged = 1..n /\ n \in Nat
  BY DEF ItemsOK, IsList
<1>2. DOMAIN items = 1..n /\ IsList(items, n) /\ \A k \in 1..n : Shows(items[k], merged[k], settledMemo)
  <2>1. \A k \in 1..n : Truthful(merged[k])
    BY DEF ItemsOK
  <2>2. \A k \in 1..n : Shows(Reconciled(merged[k], settledMemo), merged[k], settledMemo)
    BY <2>1, ItemReconciled
  <2>3. items = [k \in 1..n |-> items[k]] /\ DOMAIN items = 1..n
    BY <1>1
  <2>4. \A k \in 1..n : items[k] = Reconciled(merged[k], settledMemo)
    BY <1>1
  <2> HIDE DEF items
  <2>5. \A k \in 1..n : Shows(items[k], merged[k], settledMemo)
    BY <2>2, <2>4
  <2> QED BY <1>1, <2>3, <2>5 DEF IsList
<1> HIDE DEF items
<1>3. ItemsOK(items, n)
  <2>1. \A k \in 1..n : Truthful(items[k]) /\ items[k].id = merged[k].id
    BY <1>2 DEF Shows
  <2>2. Once(items)
    BY <1>1, <1>2, <2>1 DEF ItemsOK, Once
  <2> QED BY <1>2, <2>1, <2>2 DEF ItemsOK
<1>4. /\ Remembers(settled, settledMemo, items, complete)
      /\ Remembers(open, openMemo, items, other)
  <2>1. Once(items)
    BY <1>3 DEF ItemsOK
  <2>2. complete \in SUBSET {k \in DOMAIN items : items[k].id # Pending}
    OBVIOUS
  <2>3. other \in SUBSET {k \in DOMAIN items : items[k].id # Pending}
    OBVIOUS
  <2> HIDE DEF complete, other
  <2> QED BY <2>1, <2>2, <2>3, ItemsRemembered
<1>5. \A k \in 1..n : items[k].id # Pending => k \in complete \/ k \in other
  BY <1>2
<1>6. /\ complete \subseteq 1..n /\ other \subseteq 1..n
      /\ \A k \in complete : items[k].id # Pending /\ Complete(items[k])
      /\ \A k \in other : items[k].id # Pending /\ ~Complete(items[k])
  BY <1>2
<1> HIDE DEF settled, open, complete, other
<1>7. SettledMemo(settled)
  <2> SUFFICES ASSUME NEW i \in DOMAIN settled
               PROVE  i \in 1..Len(chain) /\ settled[i].id = i /\ Truthful(settled[i]) /\ Complete(settled[i])
    BY DEF SettledMemo, MemoOK
  <2>1. CASE \E k \in complete : items[k].id = i
    <3>1. PICK k \in complete : items[k].id = i
      BY <2>1
    <3>2. settled[i] = items[k]
      BY <1>4, <3>1 DEF Remembers
    <3>3. Truthful(items[k]) /\ Complete(items[k]) /\ items[k].id # Pending
      BY <1>3, <1>6 DEF ItemsOK
    <3> QED BY <3>1, <3>2, <3>3 DEF Truthful
  <2>2. CASE \A k \in complete : items[k].id # i
    <3>1. i \in DOMAIN settledMemo /\ settled[i] = settledMemo[i]
      BY <1>4, <2>2 DEF Remembers
    <3> QED BY <3>1 DEF SettledMemo, MemoOK
  <2> QED BY <2>1, <2>2
<1>8. OpenMemo(open)
  <2> SUFFICES ASSUME NEW i \in DOMAIN open
               PROVE  /\ i \in 1..Len(chain) /\ open[i].id = i /\ Truthful(open[i])
                      /\ ~Complete(open[i]) /\ ~open[i].isSettled
    BY DEF OpenMemo, MemoOK
  <2>1. CASE \E k \in other : items[k].id = i
    <3>1. PICK k \in other : items[k].id = i
      BY <2>1
    <3>2. open[i] = items[k]
      BY <1>4, <3>1 DEF Remembers
    <3>3. Truthful(items[k]) /\ ~Complete(items[k]) /\ items[k].id # Pending
      BY <1>3, <1>6 DEF ItemsOK
    <3>4. ~items[k].isSettled
      BY <1>2, <1>6, <3>3 DEF Shows
    <3> QED BY <3>1, <3>2, <3>3, <3>4 DEF Truthful
  <2>2. CASE \A k \in other : items[k].id # i
    <3>1. i \in DOMAIN openMemo /\ open[i] = openMemo[i]
      BY <1>4, <2>2 DEF Remembers
    <3> QED BY <3>1 DEF OpenMemo, MemoOK
  <2> QED BY <2>1, <2>2
<1>9. /\ DOMAIN unsettled = DOMAIN open \ DOMAIN settled
      /\ \A i \in DOMAIN unsettled : unsettled[i] = open[i] /\ i \in DOMAIN open
  BY DEF Restrict
<1> HIDE DEF unsettled
<1>10. OpenMemo(unsettled)
  BY <1>8, <1>9 DEF OpenMemo, MemoOK
<1>11. IsFiniteSet(dropped) /\ dropped \in SUBSET Int /\ dropped \in SUBSET (1..Len(chain))
  <2>1. dropped \in SUBSET (1..Len(chain))
    BY <1>7, <1>10 DEF SettledMemo, OpenMemo, MemoOK
  <2>2. dropped \in SUBSET Int
    BY <2>1
  <2>3. 1 \in Int /\ Len(chain) \in Int
    OBVIOUS
  <2>4. IsFiniteSet(1..Len(chain))
    BY <2>3, FS_Interval
  <2> HIDE DEF dropped
  <2> QED BY <2>1, <2>2, <2>4, FS_Subset, Zenon
<1>12. /\ \A i \in dropped : i \in DOMAIN settled \cup DOMAIN unsettled /\ i \notin ids /\ i # Pending
       /\ \A i \in DOMAIN settled \cup DOMAIN unsettled : i \in ids \/ i \in dropped
  BY <1>11 DEF Pending
<1>13. \A k \in 1..n : items[k].id \in ids
  BY <1>2
<1>14. \A i \in ids : \E k \in 1..n : items[k].id = i
  BY <1>2
<1> DEFINE N == Cardinality(dropped)
           names == Ascending(dropped)
<1> HIDE DEF ids, dropped
<1>15. N \in Nat /\ Lists(names, dropped, Increasing(dropped))
  BY <1>11, AscendingListed
<1>16. kept = [k \in 1..N |-> IF names[k] \in DOMAIN settled THEN settled[names[k]] ELSE unsettled[names[k]]]
  OBVIOUS
<1> HIDE DEF kept, N, names
<1>17. /\ \A k \in 1..N : names[k] \in dropped
       /\ \A i \in dropped : \E k \in 1..N : names[k] = i
       /\ \A j, k \in 1..N : j < k => names[j] # names[k]
  BY <1>15 DEF Lists, N
<1>18. /\ IsList(kept, N)
       /\ \A k \in 1..N : /\ kept[k].id = names[k] /\ Truthful(kept[k])
                          /\ kept[k] = Kept(p, names[k])
  <2>1. \A k \in 1..N : names[k] \in DOMAIN settled \/ names[k] \in DOMAIN unsettled
    BY <1>12, <1>17
  <2>2. IsList(kept, N)
    BY <1>15, <1>16 DEF IsList
  <2>3. ASSUME NEW k \in 1..N
        PROVE  kept[k].id = names[k] /\ Truthful(kept[k]) /\ kept[k] = Kept(p, names[k])
    <3>1. CASE names[k] \in DOMAIN settled
      <4>1. kept[k] = settled[names[k]]
        BY <1>16, <3>1
      <4>2. Kept(p, names[k]) = settled[names[k]]
        BY <3>1 DEF Kept
      <4> QED BY <1>7, <3>1, <4>1, <4>2 DEF SettledMemo, MemoOK
    <3>2. CASE names[k] \notin DOMAIN settled
      <4>1. kept[k] = unsettled[names[k]]
        BY <1>16, <3>2
      <4>2. Kept(p, names[k]) = unsettled[names[k]]
        BY <3>2 DEF Kept
      <4> QED BY <1>10, <2>1, <3>2, <4>1, <4>2 DEF OpenMemo, MemoOK
    <3> QED BY <3>1, <3>2
  <2> QED BY <2>2, <2>3
<1> DEFINE all == items \o kept
<1>19. Joined(all, items, n, kept, N)
  BY <1>2, <1>18, ListsJoin
<1> HIDE DEF all
<1>20. /\ IsList(all, n + N) /\ n + N \in Nat /\ DOMAIN all = 1..(n + N)
       /\ \A k \in 1..n : k \in 1..(n + N) /\ all[k] = items[k]
       /\ \A k \in 1..N : n + k \in 1..(n + N) /\ all[n + k] = kept[k]
       /\ \A k \in 1..(n + N) : k \in 1..n \/ \E l \in 1..N : k = n + l
  BY <1>19 DEF Joined, IsList
<1>21. ItemsOK(all, n + N)
  <2>1. \A k \in 1..(n + N) : Truthful(all[k])
    BY <1>3, <1>18, <1>20 DEF ItemsOK
  <2>2. Once(all)
    <3> SUFFICES ASSUME NEW j \in 1..(n + N), NEW k \in 1..(n + N),
                        all[j].id = all[k].id, all[j].id # Pending
                 PROVE  j = k
      BY <1>20 DEF Once
    <3>1. CASE j \in 1..n /\ k \in 1..n
      BY <1>2, <1>3, <1>20, <3>1 DEF ItemsOK, Once
    <3>2. CASE j \in 1..n /\ k \notin 1..n
      <4>1. all[j].id \in ids
        BY <1>13, <1>20, <3>2
      <4>2. all[k].id \in dropped
        BY <1>17, <1>18, <1>20, <3>2
      <4> QED BY <1>12, <4>1, <4>2
    <3>3. CASE j \notin 1..n /\ k \in 1..n
      <4>1. all[k].id \in ids
        BY <1>13, <1>20, <3>3
      <4>2. all[j].id \in dropped
        BY <1>17, <1>18, <1>20, <3>3
      <4> QED BY <1>12, <4>1, <4>2
    <3>4. CASE j \notin 1..n /\ k \notin 1..n
      <4>1. PICK a \in 1..N, b \in 1..N : j = n + a /\ k = n + b
        BY <1>20, <3>4
      <4>2. names[a] = names[b]
        BY <1>18, <1>20, <4>1
      <4>3. ~(a < b) /\ ~(b < a)
        BY <1>17, <4>2
      <4> QED BY <1>15, <4>1, <4>3
    <3> QED BY <3>1, <3>2, <3>3, <3>4
  <2> QED BY <1>20, <2>1, <2>2 DEF ItemsOK
<1>22. Sorted(list, all, n + N)
  BY <1>21, ItemsSorted DEF all
<1> HIDE DEF list
<1>23. /\ IsList(list, n + N) /\ Once(list) /\ DOMAIN list = 1..(n + N)
       /\ \A k \in 1..(n + N) : \E j \in 1..(n + N) : list[k] = all[j]
       /\ \A j \in 1..(n + N) : \E k \in 1..(n + N) : list[k] = all[j]
       /\ \A j, k \in 1..(n + N) : j < k => SessionOrdinal(list[j].id) >= SessionOrdinal(list[k].id)
  BY <1>22 DEF Sorted, IsList
<1>24. p.settled = settled /\ p.open = unsettled /\ p.snapshot = list
  OBVIOUS
<1>25. Memorised(p) = DOMAIN settled \cup DOMAIN unsettled
  BY <1>24 DEF Memorised
<1> HIDE DEF p
<1>26. ASSUME NEW k \in 1..n, items[k].id # Pending
       PROVE  items[k].id \in Memorised(p) /\ items[k] = Kept(p, items[k].id)
  <2>1. CASE k \in complete
    <3>1. items[k].id \in DOMAIN settled /\ settled[items[k].id] = items[k]
      BY <1>4, <2>1 DEF Remembers
    <3> QED BY <1>24, <1>25, <3>1 DEF Kept
  <2>2. CASE k \in other
    <3>1. items[k].id \in DOMAIN open /\ open[items[k].id] = items[k]
      BY <1>4, <2>2 DEF Remembers
    <3>2. ~Complete(items[k])
      BY <1>6, <2>2
    <3>3. items[k].id \notin DOMAIN settledMemo
      BY <1>2, <3>2 DEF Shows
    <3>4. \A j \in complete : items[j].id # items[k].id
      BY <1>2, <1>3, <1>6, <1>26, <3>2 DEF ItemsOK, Once
    <3>5. items[k].id \notin DOMAIN settled
      BY <1>4, <3>3, <3>4 DEF Remembers
    <3>6. items[k].id \in DOMAIN unsettled /\ unsettled[items[k].id] = items[k]
      BY <1>9, <3>1, <3>5
    <3> QED BY <1>24, <1>25, <3>5, <3>6 DEF Kept
  <2> QED BY <1>5, <1>26, <2>1, <2>2
<1>27. ASSUME NEW j \in 1..(n + N), all[j].id # Pending
       PROVE  all[j].id \in Memorised(p) /\ all[j] = Kept(p, all[j].id)
  <2>1. CASE j \in 1..n
    BY <1>20, <1>26, <1>27, <2>1
  <2>2. CASE j \notin 1..n
    <3>1. PICK k \in 1..N : j = n + k
      BY <1>20, <2>2
    <3>2. all[j] = kept[k] /\ kept[k].id = names[k] /\ kept[k] = Kept(p, names[k]) /\ names[k] \in dropped
      BY <1>17, <1>18, <1>20, <3>1
    <3> QED BY <1>12, <1>25, <3>2
  <2> QED BY <2>1, <2>2
<1>28. \A k \in DOMAIN list :
         list[k].id # Pending => list[k].id \in Memorised(p) /\ list[k] = Kept(p, list[k].id)
  BY <1>23, <1>27
<1>29. \A i \in Memorised(p) : Shown(list, i)
  <2> SUFFICES ASSUME NEW i \in Memorised(p) PROVE \E k \in 1..(n + N) : list[k].id = i
    BY <1>23 DEF Shown
  <2>1. \E j \in 1..(n + N) : all[j].id = i
    <3>1. CASE i \in ids
      <4>1. PICK k \in 1..n : items[k].id = i
        BY <1>14, <3>1
      <4>2. k \in 1..(n + N) /\ all[k] = items[k]
        BY <1>20
      <4> QED BY <4>1, <4>2
    <3>2. CASE i \in dropped
      <4>1. PICK k \in 1..N : names[k] = i
        BY <1>17, <3>2
      <4>2. n + k \in 1..(n + N) /\ all[n + k] = kept[k] /\ kept[k].id = i
        BY <1>18, <1>20, <4>1
      <4> QED BY <4>2
    <3> QED BY <1>12, <1>25, <3>1, <3>2
  <2>2. PICK j \in 1..(n + N) : all[j].id = i
    BY <2>1
  <2>3. PICK k \in 1..(n + N) : list[k] = all[j]
    BY <1>23
  <2> QED BY <2>2, <2>3
<1>30. Sound(p)
  <2>1. ItemsOK(list, n + N)
    BY <1>21, <1>23 DEF ItemsOK
  <2>2. \E m : ItemsOK(list, m)
    BY <2>1
  <2> QED BY <1>7, <1>10, <1>23, <1>24, <1>28, <1>29, <2>2 DEF Sound
<1>31. DOMAIN settledMemo \subseteq DOMAIN settled /\ DOMAIN openMemo \subseteq Memorised(p)
  <2>1. DOMAIN settledMemo \subseteq DOMAIN settled /\ DOMAIN openMemo \subseteq DOMAIN open
    BY <1>4 DEF Remembers
  <2> QED BY <1>9, <1>25, <2>1
<1>32. ASSUME NEW k \in 1..n, merged[k].id # Pending
       PROVE  /\ merged[k].id \in Memorised(p)
              /\ Complete(merged[k]) =>
                   merged[k].id \in DOMAIN settled /\ settled[merged[k].id] = merged[k]
  <2>1. items[k].id = merged[k].id /\ (Complete(merged[k]) => items[k] = merged[k])
    BY <1>2 DEF Shows
  <2>2. merged[k].id \in Memorised(p)
    BY <1>26, <1>32, <2>1
  <2>3. ASSUME Complete(merged[k])
        PROVE  merged[k].id \in DOMAIN settled /\ settled[merged[k].id] = merged[k]
    <3>1. k \in complete
      BY <1>5, <1>6, <1>32, <2>1, <2>3
    <3> QED BY <1>4, <2>1, <2>3, <3>1 DEF Remembers
  <2> QED BY <2>2, <2>3
<1>33. Follows(p, merged, settledMemo, openMemo)
  BY <1>1, <1>24, <1>30, <1>31, <1>32 DEF Follows
<1> QED BY <1>0, <1>33

-----------------------------------------------------------------------------
(* What is merged agrees with the chain.                                   *)

RowTells(row, i) == RowIsTerminal(row) => AsOnChain(row, i)

\* A row of the store tells the block's time.
RowTimed(row) ==
  /\ RowIsTerminal(row) <=> row.status = "settled"
  /\ row.settledAt = IF RowIsTerminal(row) THEN BlockClock ELSE Undefined

PatchTells(patch, i) ==
  /\ patch.settled \in BOOLEAN
  /\ patch.settledAt = IF patch.settled THEN PageClock ELSE Undefined
  /\ patch.settled => AsOnChain(patch, i)
  /\ ~patch.settled => ~IsTerminalPhase(patch.phase)

RowsTell == \A i \in DOMAIN rows : RowTells(rows[i], i) /\ RowTimed(rows[i])
PatchesTell == \A i \in DOMAIN patches : PatchTells(patches[i], i)

ResultsOnChain ==
  \A i \in 1..Len(chain) :
    chain[i].kind = "settled" =>
      IsTerminalPhase(chain[i].phase) /\ chain[i].payout # Undefined /\ chain[i].gameState # Undefined

\* The optimistic sessions are of different bets, and none is settled itself.
OptimisticOK ==
  /\ \E n : IsList(optimistic, n)
  /\ \A k \in DOMAIN optimistic :
       /\ Truthful(optimistic[k]) /\ ~optimistic[k].isSettled
       /\ optimistic[k].bet \in placed /\ optimistic[k].id \in {Pending, optimistic[k].bet}
  /\ \A j, k \in DOMAIN optimistic : optimistic[j].bet = optimistic[k].bet => j = k

Layers == Echoed /\ RowsTell /\ PatchesTell /\ ResultsOnChain /\ OptimisticOK

\* next is row, but for its randomness.
Fulfills(next, row) ==
  /\ next.status = row.status /\ next.phase = row.phase /\ next.payout = row.payout
  /\ next.gameState = row.gameState /\ next.settledAt = row.settledAt

\* A merged row has the block's time if the row has it, and the page's otherwise.
MergedTime(merged, row) ==
  merged.settledAt = IF RowIsTerminal(row) THEN BlockClock
                     ELSE IF RowIsTerminal(merged) THEN PageClock ELSE Undefined

LEMMA MergedRowTells ==
  ASSUME NEW i, NEW row, RowHolds(row), RowTells(row, i), RowTimed(row),
         NEW patch, PatchHolds(patch), PatchTells(patch, i)
  PROVE  /\ RowTells(MergeFlashblockPatchIntoRow(row, patch), i)
         /\ RowIsTerminal(row) => RowIsTerminal(MergeFlashblockPatchIntoRow(row, patch))
         /\ MergedTime(MergeFlashblockPatchIntoRow(row, patch), row)
<1> DEFINE merged == IF RowIsTerminal(row) THEN row
                     ELSE OverlaySettled(OverlayStep(row, patch), patch)
           next == OverlayFulfillment(merged, row, patch)
<1>0. MergeFlashblockPatchIntoRow(row, patch) = next
  BY DEF MergeFlashblockPatchIntoRow
<1>1. RowTells(merged, i) /\ (RowIsTerminal(row) => RowIsTerminal(merged)) /\ MergedTime(merged, row)
      /\ merged = [known |-> merged.known, status |-> merged.status, phase |-> merged.phase, step |-> merged.step,
                   gameState |-> merged.gameState, encodedSession |-> merged.encodedSession,
                   randomnessFulfilled |-> merged.randomnessFulfilled,
                   randomnessRequests |-> merged.randomnessRequests, payout |-> merged.payout,
            settledAt |-> merged.settledAt]
  <2>1. CASE RowIsTerminal(row)
    <3>1. merged = row
      BY <2>1
    <3> HIDE DEF merged
    <3> QED BY <2>1, <3>1 DEF RowHolds, RowTimed, MergedTime
  <2>2. CASE ~RowIsTerminal(row)
    <3> DEFINE stepped == OverlayStep(row, patch)
    <3>1. /\ stepped = [known |-> stepped.known, status |-> stepped.status, phase |-> stepped.phase,
                        step |-> stepped.step, gameState |-> stepped.gameState,
                        encodedSession |-> stepped.encodedSession,
                        randomnessFulfilled |-> stepped.randomnessFulfilled,
                        randomnessRequests |-> stepped.randomnessRequests, payout |-> stepped.payout,
            settledAt |-> stepped.settledAt]
          /\ stepped.status = row.status /\ stepped.phase \in {row.phase, patch.phase}
          /\ stepped.settledAt = row.settledAt
      <4>1. \E b : stepped = row \/ stepped = [row EXCEPT !.step = patch.step, !.phase = patch.phase,
                         !.gameState = patch.gameState, !.encodedSession = patch.encodedSession,
                         !.randomnessFulfilled = b]
        BY DEF OverlayStep
      <4> HIDE DEF stepped
      <4> QED BY <4>1 DEF RowHolds
    <3>2. merged = OverlaySettled(stepped, patch)
      BY <2>2
    <3> HIDE DEF stepped, merged
    <3>3. CASE patch.settled
      <4>1. merged = [stepped EXCEPT !.status = "settled", !.phase = patch.phase,
                                     !.payout = patch.payout, !.gameState = patch.gameState,
                                     !.settledAt = PageClock]
        <5>1. stepped.settledAt = Undefined /\ patch.settledAt = PageClock
          BY <2>2, <3>1, <3>3 DEF RowTimed, PatchTells
        <5> QED BY <3>2, <3>3, <5>1 DEF OverlaySettled, OrElse
      <4>2. RowTells(merged, i)
        BY <2>2, <3>1, <3>3, <4>1 DEF RowTells, PatchTells, AsOnChain
      <4>3. merged.settledAt = PageClock /\ merged.status = "settled"
        BY <3>1, <4>1
      <4>4. MergedTime(merged, row)
        BY <2>2, <4>3 DEF MergedTime, RowIsTerminal
      <4> QED BY <2>2, <3>1, <4>1, <4>2, <4>4
    <3>4. CASE ~patch.settled
      <4>1. merged = stepped
        BY <3>2, <3>4 DEF OverlaySettled
      <4>2. ~RowIsTerminal(merged)
        BY <2>2, <3>1, <3>4, <4>1 DEF RowIsTerminal, PatchTells
      <4>3. MergedTime(merged, row)
        BY <2>2, <3>1, <4>1, <4>2 DEF MergedTime, RowTimed
      <4> QED BY <2>2, <3>1, <4>1, <4>2, <4>3 DEF RowTells
    <3> QED BY <3>3, <3>4
  <2> QED BY <2>1, <2>2
<1> HIDE DEF merged
<1>2. Fulfills(next, merged)
  <2>1. \E a, b : next = merged \/ next = [merged EXCEPT !.randomnessRequests = a, !.randomnessFulfilled = b]
    BY DEF OverlayFulfillment
  <2> HIDE DEF next
  <2> QED BY <1>1, <2>1 DEF Fulfills
<1> HIDE DEF next
<1>3. RowTells(next, i) /\ (RowIsTerminal(row) => RowIsTerminal(next))
  BY <1>1, <1>2 DEF Fulfills, RowTells, RowIsTerminal, AsOnChain
<1>4. MergedTime(next, row)
  <2>1. (RowIsTerminal(next) <=> RowIsTerminal(merged)) /\ next.settledAt = merged.settledAt
    BY <1>2 DEF Fulfills, RowIsTerminal
  <2> QED BY <1>1, <2>1 DEF MergedTime
<1> QED BY <1>0, <1>3, <1>4

\* The rows a render sees are rows of the store.
Seen(seen) == \A i \in DOMAIN seen : i \in DOMAIN rows /\ seen[i] = rows[i]

LEMMA RowProjected ==
  ASSUME Layers, NEW seen, Seen(seen), NEW i \in DOMAIN seen
  PROVE  /\ Truthful(ProjectedItem(seen, i)) /\ ProjectedItem(seen, i).id = i /\ i # Pending
         /\ RowIsTerminal(seen[i]) =>
              /\ Complete(ProjectedItem(seen, i)) /\ ProjectedItem(seen, i).phase # "NONE"
              /\ ProjectedItem(seen, i).settledAt = BlockClock
<1>1. /\ i \in 1..Len(chain) /\ i # Pending /\ seen[i] = rows[i]
      /\ RowHolds(rows[i]) /\ RowTells(rows[i], i) /\ RowTimed(rows[i]) /\ i \in DOMAIN rows
  <2>1. i \in DOMAIN rows /\ seen[i] = rows[i]
    BY DEF Seen
  <2>2. i \in 1..Len(chain) /\ RowHolds(rows[i]) /\ RowTells(rows[i], i) /\ RowTimed(rows[i])
    BY <2>1 DEF Layers, Echoed, RowsHold, RowsTell
  <2> QED BY <2>1, <2>2 DEF Pending
<1> DEFINE row == IF i \in DOMAIN patches THEN MergeFlashblockPatchIntoRow(rows[i], patches[i])
                  ELSE rows[i]
           item == ProjectRow(row, i)
<1>2. ProjectedItem(seen, i) = item
  BY <1>1 DEF ProjectedItem
<1>3. RowTells(row, i) /\ (RowIsTerminal(rows[i]) => RowIsTerminal(row)) /\ MergedTime(row, rows[i])
  <2>1. CASE i \in DOMAIN patches
    <3>1. PatchHolds(patches[i]) /\ PatchTells(patches[i], i)
      BY <2>1 DEF Layers, Echoed, PatchesHold, PatchesTell
    <3> QED BY <1>1, <2>1, <3>1, MergedRowTells
  <2>2. CASE i \notin DOMAIN patches
    BY <1>1, <2>2 DEF RowTimed, MergedTime
  <2> QED BY <2>1, <2>2
<1> HIDE DEF row
<1>4. PICK word : item = [id |-> i, bet |-> Undefined, phase |-> row.phase,
                          isSettled |-> RowIsTerminal(row), gameState |-> row.gameState,
                          payout |-> row.payout, settledAt |-> row.settledAt, randomness |-> word]
  BY DEF ProjectRow
<1> HIDE DEF item
<1>5. RowIsTerminal(row) \in BOOLEAN
  BY DEF RowIsTerminal, IsTerminalPhase
<1>6. /\ item.id = i /\ item.phase = row.phase /\ item.isSettled = RowIsTerminal(row)
      /\ item.gameState = row.gameState /\ item.payout = row.payout
      /\ item.settledAt = row.settledAt
      /\ item = [id |-> item.id, bet |-> item.bet, phase |-> item.phase, isSettled |-> item.isSettled,
                 gameState |-> item.gameState, payout |-> item.payout,
             settledAt |-> item.settledAt, randomness |-> item.randomness]
  BY <1>4
<1>7. Truthful(item)
  <2>1. IF item.isSettled THEN item.settledAt \in {PageClock, BlockClock} ELSE item.settledAt = Undefined
    BY <1>3, <1>6 DEF MergedTime
  <2>2. item.settledAt = BlockClock => rows[i].settledAt = BlockClock
    BY <1>1, <1>3, <1>6 DEF MergedTime, RowTimed, BlockClock, PageClock, Undefined
  <2>3. item.isSettled => AsOnChain(item, i)
    BY <1>3, <1>6 DEF RowTells, AsOnChain
  <2> QED BY <1>1, <1>5, <1>6, <2>1, <2>2, <2>3 DEF Truthful
<1>8. ASSUME RowIsTerminal(rows[i])
      PROVE  Complete(item) /\ item.phase # "NONE" /\ item.settledAt = BlockClock
  <2>1. RowIsTerminal(row) /\ AsOnChain(row, i)
    BY <1>3, <1>8 DEF RowTells
  <2>2. /\ IsTerminalPhase(row.phase) /\ row.payout # Undefined /\ row.gameState # Undefined
    BY <1>1, <2>1 DEF AsOnChain, Layers, ResultsOnChain
  <2>3. item.settledAt = BlockClock
    BY <1>3, <1>6, <1>8 DEF MergedTime
  <2> QED BY <1>6, <2>1, <2>2, <2>3 DEF Complete, IsTerminalPhase, TerminalPhases
<1> QED BY <1>1, <1>2, <1>6, <1>7, <1>8

LEMMA OptimisticPatched ==
  ASSUME Layers, NEW seen, NEW o, Truthful(o), ~o.isSettled
  PROVE  Truthful(PatchedOptimistic(seen, o)) /\ PatchedOptimistic(seen, o).id = o.id
<1> DEFINE r == PatchedOptimistic(seen, o)
<1> SUFFICES Truthful(r) /\ r.id = o.id
  OBVIOUS
<1>1. CASE o.id \in DOMAIN seen \/ o.id \notin DOMAIN patches
  <2>1. r = o
    BY <1>1 DEF PatchedOptimistic
  <2> HIDE DEF r
  <2> QED BY <2>1
<1>2. CASE ~(o.id \in DOMAIN seen \/ o.id \notin DOMAIN patches)
  <2> DEFINE patch == patches[o.id]
  <2>1. r = MergeFlashblockPatchIntoItem(o, patch)
    BY <1>2 DEF PatchedOptimistic
  <2>2. PatchTells(patch, o.id) /\ o.id \in 1..Len(chain) /\ o.id # Pending
    BY <1>2 DEF Layers, Echoed, PatchesHold, PatchesTell, Pending
  <2> HIDE DEF r, patch
  <2>3. CASE patch.settled
    <3>1. PICK word : r = [o EXCEPT !.phase = patch.phase, !.payout = patch.payout, !.isSettled = TRUE,
                                    !.gameState = patch.gameState, !.settledAt = PageClock,
                                    !.randomness = word]
      <4>1. o.settledAt = Undefined /\ patch.settledAt = PageClock
        BY <2>2, <2>3 DEF Truthful, PatchTells
      <4> QED BY <2>1, <2>3, <4>1 DEF MergeFlashblockPatchIntoItem, Truthful, OrElse
    <3>2. /\ r.id = o.id /\ r.isSettled = TRUE /\ r.settledAt = PageClock /\ AsOnChain(r, o.id)
          /\ r = [id |-> r.id, bet |-> r.bet, phase |-> r.phase, isSettled |-> r.isSettled,
                  gameState |-> r.gameState, payout |-> r.payout,
                  settledAt |-> r.settledAt, randomness |-> r.randomness]
      BY <2>2, <2>3, <3>1 DEF Truthful, PatchTells, AsOnChain
    <3>3. r.settledAt # BlockClock
      BY <3>2 DEF PageClock, BlockClock
    <3> QED BY <2>2, <3>2, <3>3 DEF Truthful
  <2>4. CASE ~patch.settled
    <3>1. PICK phase, state, word :
            r = [o EXCEPT !.phase = phase, !.gameState = state, !.randomness = word]
      BY <2>1, <2>4 DEF MergeFlashblockPatchIntoItem
    <3> QED BY <3>1 DEF Truthful
  <2> QED BY <2>3, <2>4
<1> QED BY <1>1, <1>2

\* What is merged is truthful, and has the results of the rows.
Merges(merged, seen) ==
  /\ \E n : ItemsOK(merged, n)
  /\ \A i \in DOMAIN seen :
       RowIsTerminal(seen[i]) =>
         \E k \in DOMAIN merged : /\ merged[k].id = i /\ Complete(merged[k])
                                  /\ merged[k].settledAt = BlockClock

LEMMA LayersMerge ==
  ASSUME Layers, NEW seen, Seen(seen)
  PROVE  Merges(MergedItems(seen), seen)
<1> DEFINE patched == [k \in DOMAIN optimistic |-> PatchedOptimistic(seen, optimistic[k])]
           K == {k \in DOMAIN patched :
                   LET id == patched[k].id
                   IN  id \notin DOMAIN seen \/ ProjectedItem(seen, id).phase = "NONE"}
           visible == AtPositions(patched, K)
           others == DOMAIN seen \ {visible[k].id : k \in DOMAIN visible}
           names == Ascending(others)
           rest == [k \in 1..Cardinality(others) |-> ProjectedItem(seen, names[k])]
<1>0. MergedItems(seen) = visible \o rest
  BY DEF MergedItems, OnTopOf
<1>1. PICK n : IsList(optimistic, n)
  BY DEF Layers, OptimisticOK
<1>2. IsList(patched, n) /\ DOMAIN patched = 1..n /\ DOMAIN optimistic = 1..n
  BY <1>1 DEF IsList
<1>3. ASSUME NEW k \in 1..n
      PROVE  Truthful(patched[k]) /\ patched[k].id = optimistic[k].id
  <2>1. Truthful(optimistic[k]) /\ ~optimistic[k].isSettled
    BY <1>2 DEF Layers, OptimisticOK
  <2>2. patched[k] = PatchedOptimistic(seen, optimistic[k])
    BY <1>2
  <2> HIDE DEF patched
  <2> QED BY <2>1, <2>2, OptimisticPatched
<1>4. \A j, k \in 1..n : j # k => patched[j].id # patched[k].id \/ patched[j].id = Pending
  <2> SUFFICES ASSUME NEW j \in 1..n, NEW k \in 1..n, j # k, patched[j].id = patched[k].id,
                      patched[j].id # Pending
               PROVE  FALSE
    OBVIOUS
  <2>1. optimistic[j].id = optimistic[k].id /\ optimistic[j].id # Pending
    BY <1>3
  <2> QED BY <1>2, <2>1 DEF Layers, OptimisticOK
<1>5. K \in SUBSET (1..n)
  BY <1>2
<1>6. \A k \in K : patched[k].id \notin DOMAIN seen \/ ProjectedItem(seen, patched[k].id).phase = "NONE"
  OBVIOUS
<1> HIDE DEF patched, K
<1>7. Selected(visible, patched, K)
  BY <1>2, <1>5, PositionsSelect
<1> DEFINE m == Cardinality(K)
<1> HIDE DEF visible
<1>8. /\ IsList(visible, m) /\ DOMAIN visible = 1..m
      /\ \A k \in 1..m : \E j \in K : visible[k] = patched[j]
  BY <1>7 DEF Selected, IsList
<1>9. \A k \in 1..m : Truthful(visible[k])
  BY <1>3, <1>5, <1>8
<1>10. \A j, k \in 1..m : j # k => visible[j].id # visible[k].id \/ visible[j].id = Pending
  <2> SUFFICES ASSUME NEW j \in 1..m, NEW k \in 1..m, j # k
               PROVE  visible[j].id # visible[k].id \/ visible[j].id = Pending
    OBVIOUS
  <2>1. \A x, y \in DOMAIN visible :
          x # y => \E a, b \in K : a # b /\ visible[x] = patched[a] /\ visible[y] = patched[b]
    BY <1>7 DEF Selected
  <2>2. PICK a \in K, b \in K : a # b /\ visible[j] = patched[a] /\ visible[k] = patched[b]
    BY <1>8, <2>1
  <2> QED BY <1>4, <1>5, <2>2
<1>11. others \in SUBSET Int /\ IsFiniteSet(others) /\ others \subseteq DOMAIN seen
  <2>1. others \in SUBSET (1..Len(chain))
    BY DEF Seen, Layers, Echoed, RowsHold
  <2>2. others \in SUBSET Int /\ others \subseteq DOMAIN seen
    BY <2>1
  <2>3. 1 \in Int /\ Len(chain) \in Int
    BY DEF Layers, Echoed, ChainOK
  <2>4. IsFiniteSet(1..Len(chain))
    BY <2>3, FS_Interval
  <2> HIDE DEF others
  <2> QED BY <2>1, <2>2, <2>4, FS_Subset, Zenon
<1> DEFINE N == Cardinality(others)
<1>12. \A i \in others : \A k \in 1..m : visible[k].id # i
  BY <1>8
<1>13. \A i \in DOMAIN seen : i \in others \/ \E k \in 1..m : visible[k].id = i
  BY <1>8
<1> HIDE DEF others
<1>14. N \in Nat /\ Lists(names, others, Increasing(others))
  BY <1>11, AscendingListed
<1>15. /\ \A k \in 1..N : names[k] \in others /\ names[k] \in DOMAIN seen
       /\ \A i \in others : \E k \in 1..N : names[k] = i
       /\ \A j, k \in 1..N : j < k => names[j] # names[k]
  BY <1>11, <1>14 DEF Lists
<1>16. IsList(rest, N) /\ \A k \in 1..N : rest[k] = ProjectedItem(seen, names[k])
  BY <1>14 DEF IsList
<1> HIDE DEF rest, names, N, m
<1>17. \A k \in 1..N : Truthful(rest[k]) /\ rest[k].id = names[k]
  BY <1>15, <1>16, RowProjected
<1> DEFINE merged == visible \o rest
<1>18. Joined(merged, visible, m, rest, N)
  BY <1>8, <1>16, ListsJoin
<1> HIDE DEF merged
<1>19. /\ IsList(merged, m + N) /\ DOMAIN merged = 1..(m + N)
       /\ \A k \in 1..m : k \in 1..(m + N) /\ merged[k] = visible[k]
       /\ \A k \in 1..N : m + k \in 1..(m + N) /\ merged[m + k] = rest[k]
       /\ \A k \in 1..(m + N) : k \in 1..m \/ \E l \in 1..N : k = m + l
  BY <1>18 DEF Joined, IsList
<1>20. \A k \in 1..(m + N) : Truthful(merged[k])
  BY <1>9, <1>17, <1>19
<1>21. Once(merged)
  <2> SUFFICES ASSUME NEW j \in 1..(m + N), NEW k \in 1..(m + N),
                      merged[j].id = merged[k].id, merged[j].id # Pending
               PROVE  j = k
    BY <1>19 DEF Once
  <2>1. CASE j \in 1..m /\ k \in 1..m
    BY <1>10, <1>19, <2>1
  <2>2. CASE j \in 1..m /\ k \notin 1..m
    <3>1. PICK l \in 1..N : k = m + l
      BY <1>19, <2>2
    <3>2. merged[k].id \in others /\ merged[j] = visible[j]
      BY <1>15, <1>17, <1>19, <2>2, <3>1
    <3> QED BY <1>12, <2>2, <3>2
  <2>3. CASE j \notin 1..m /\ k \in 1..m
    <3>1. PICK l \in 1..N : j = m + l
      BY <1>19, <2>3
    <3>2. merged[j].id \in others /\ merged[k] = visible[k]
      BY <1>15, <1>17, <1>19, <2>3, <3>1
    <3> QED BY <1>12, <2>3, <3>2
  <2>4. CASE j \notin 1..m /\ k \notin 1..m
    <3>1. PICK a \in 1..N, b \in 1..N : j = m + a /\ k = m + b
      BY <1>19, <2>4
    <3>2. names[a] = names[b]
      BY <1>17, <1>19, <3>1
    <3>3. ~(a < b) /\ ~(b < a)
      BY <1>15, <3>2
    <3> QED BY <1>14, <3>1, <3>3
  <2> QED BY <2>1, <2>2, <2>3, <2>4
<1>22. ASSUME NEW i \in DOMAIN seen, RowIsTerminal(seen[i])
       PROVE  \E k \in 1..(m + N) : /\ merged[k].id = i /\ Complete(merged[k])
                                    /\ merged[k].settledAt = BlockClock
  <2>1. /\ Complete(ProjectedItem(seen, i)) /\ ProjectedItem(seen, i).phase # "NONE"
        /\ ProjectedItem(seen, i).settledAt = BlockClock
    BY <1>22, RowProjected
  <2>2. \A k \in 1..m : visible[k].id # i
    BY <1>6, <1>8, <2>1
  <2>3. PICK k \in 1..N : names[k] = i
    BY <1>13, <1>15, <2>2
  <2>4. m + k \in 1..(m + N) /\ merged[m + k] = rest[k] /\ rest[k].id = i /\ Complete(rest[k])
        /\ rest[k].settledAt = BlockClock
    BY <1>16, <1>17, <1>19, <2>1, <2>3
  <2> QED BY <2>4
<1>23. ItemsOK(merged, m + N)
  BY <1>19, <1>20, <1>21 DEF ItemsOK
<1>24. Merges(merged, seen)
  <2>1. \E k : ItemsOK(merged, k)
    BY <1>23
  <2> QED BY <1>19, <1>22, <2>1 DEF Merges
<1> QED BY <1>0, <1>24 DEF merged

-----------------------------------------------------------------------------
(* Every step keeps what is shown truthful.                                *)

EventTells(e) ==
  /\ e.kind = "advanced" => ~IsTerminalPhase(e.phase)
  /\ e.kind = "settled" => AsOnChain(e, e.id)

TransitTells == \A c \in Channels : \A n \in 1..Len(transit[c]) : EventTells(transit[c][n])

LEMMA RowEvolvesTruly ==
  ASSUME ResultsOnChain, NEW i \in 1..Len(chain), NEW row, RowHolds(row), RowTells(row, i),
         NEW e \in Event, e.id = i, EventTells(e)
  PROVE  RowTells(Evolve(row, e), i) /\ (RowTimed(row) => RowTimed(Evolve(row, e)))
         /\ (row.settledAt = BlockClock => Evolve(row, e).settledAt = BlockClock)
<1> DEFINE next == Evolve(row, e)
<1> SUFFICES RowTells(next, i) /\ (RowTimed(row) => RowTimed(next))
             /\ (row.settledAt = BlockClock => next.settledAt = BlockClock)
  OBVIOUS
<1>0. e.kind \in {"opened", "advanced", "settled"}
  BY EventFields
<1>1. CASE e.kind = "opened"
  <2>1. next = [row EXCEPT !.known = TRUE]
    BY <1>1 DEF Evolve
  <2> HIDE DEF next
  <2>2. Fulfills(next, row)
    BY <2>1 DEF Fulfills, RowHolds
  <2> QED BY <2>2 DEF Fulfills, RowTells, RowTimed, RowIsTerminal, AsOnChain
<1>2. CASE e.kind = "advanced" /\ (row.status = "settled" \/ e.step <= row.step)
  <2>1. next = row
    BY <1>2 DEF Evolve
  <2> HIDE DEF next
  <2> QED BY <2>1
<1>3. CASE e.kind = "advanced" /\ ~(row.status = "settled" \/ e.step <= row.step)
  <2>1. next = EvolveAdvanced(row, e)
    BY <1>3 DEF Evolve
  <2>2. next.status = row.status /\ next.phase = e.phase /\ next.settledAt = row.settledAt
    BY <2>1 DEF EvolveAdvanced, RowHolds
  <2> HIDE DEF next
  <2>3. ~RowIsTerminal(next)
    BY <1>3, <2>2 DEF EventTells, RowIsTerminal
  <2>4. RowTimed(row) => row.settledAt = Undefined
    BY <1>3 DEF RowTimed
  <2> QED BY <1>3, <2>2, <2>3, <2>4 DEF RowTells, RowTimed
<1>4. CASE e.kind = "settled"
  <2>1. next = EvolveSettled(row, e)
    BY <1>4 DEF Evolve
  <2>2. /\ next.phase = e.phase /\ next.payout = e.payout /\ next.gameState = e.gameState
        /\ next.status = "settled" /\ next.settledAt = BlockClock
    BY <2>1 DEF EvolveSettled, RowHolds
  <2> HIDE DEF next
  <2> QED BY <1>4, <2>2 DEF EventTells, RowTells, RowTimed, RowIsTerminal, AsOnChain
<1> QED BY <1>0, <1>1, <1>2, <1>3, <1>4

LEMMA PatchAdvancesTruly ==
  ASSUME NEW i, NEW patch, PatchHolds(patch), patch.settled = FALSE, patch.settledAt = Undefined,
         NEW e \in Event, ~IsTerminalPhase(e.phase)
  PROVE  PatchTells(PatchAdvanced(patch, e), i)
<1> DEFINE next == PatchAdvanced(patch, e)
           stepped == [patch EXCEPT !.step = e.step, !.phase = e.phase, !.gameState = e.gameState,
                                    !.encodedSession = e.step]
           answered == IF e.randomness = Undefined THEN stepped
                       ELSE WithFulfillment(stepped, e.step - 1, e.randomness)
<1>2. next = IF MakesRequest(e) THEN [answered EXCEPT !.requestNonce = e.step] ELSE answered
  BY DEF PatchAdvanced
<1>3. /\ stepped = [f \in PatchFields |-> stepped[f]]
      /\ stepped.settled = FALSE /\ stepped.phase = e.phase /\ stepped.settledAt = Undefined
  BY DEF PatchHolds, PatchFields
<1> HIDE DEF stepped
<1>4. /\ answered = [f \in PatchFields |-> answered[f]]
      /\ answered.settled = FALSE /\ answered.phase = e.phase /\ answered.settledAt = Undefined
  <2>1. CASE e.randomness = Undefined
    BY <1>3, <2>1
  <2>2. CASE e.randomness # Undefined
    <3>1. answered = [stepped EXCEPT !.randomness = e.randomness,
                                     !.fulfilledNonce = OrElse(e.step - 1, @)]
      BY <2>2 DEF WithFulfillment
    <3> QED BY <1>3, <3>1 DEF PatchFields
  <2> QED BY <2>1, <2>2
<1> HIDE DEF answered, next
<1>5. next.settled = FALSE /\ next.phase = e.phase /\ next.settledAt = Undefined
  BY <1>2, <1>4 DEF PatchFields
<1>6. PatchTells(next, i)
  BY <1>5 DEF PatchTells
<1> QED BY <1>6 DEF next

LEMMA PatchSettlesTruly ==
  ASSUME NEW i, NEW patch, PatchHolds(patch), NEW e \in Event, AsOnChain(e, i)
  PROVE  PatchTells(PatchSettled(patch, e), i)
<1> DEFINE next == PatchSettled(patch, e)
           stepped == [patch EXCEPT !.settled = TRUE, !.phase = e.phase, !.payout = e.payout,
                                    !.gameState = e.gameState, !.settledAt = PageClock]
           nonce == OrElse(patch.requestNonce, patch.step)
<1>1. next = IF e.randomness = Undefined THEN stepped ELSE WithFulfillment(stepped, nonce, e.randomness)
  BY DEF PatchSettled
<1>2. /\ stepped = [f \in PatchFields |-> stepped[f]] /\ stepped.settled = TRUE
      /\ stepped.settledAt = PageClock
      /\ stepped.phase = e.phase /\ stepped.payout = e.payout /\ stepped.gameState = e.gameState
  BY DEF PatchHolds, PatchFields
<1> HIDE DEF stepped, nonce, next
<1>3. /\ next.settled = TRUE /\ next.settledAt = PageClock
      /\ next.phase = e.phase /\ next.payout = e.payout /\ next.gameState = e.gameState
  <2>1. CASE e.randomness = Undefined
    BY <1>1, <1>2, <2>1
  <2>2. CASE e.randomness # Undefined
    <3>1. next = [stepped EXCEPT !.randomness = e.randomness, !.fulfilledNonce = OrElse(nonce, @)]
      BY <1>1, <2>2 DEF WithFulfillment
    <3> QED BY <1>2, <3>1 DEF PatchFields
  <2> QED BY <2>1, <2>2
<1>4. PatchTells(next, i)
  BY <1>3 DEF PatchTells, AsOnChain
<1> QED BY <1>4 DEF next

LEMMA EventsPatchTruly ==
  ASSUME Echoed, PatchesTell, NEW e \in Event, e.id \in 1..Len(chain), EventTells(e),
         patches' = ApplyFlashblockEvent(patches, e), UNCHANGED chain
  PROVE  PatchesTell'
<1> DEFINE patch == IF e.id \in DOMAIN patches THEN patches[e.id] ELSE NoPatch
<1>1. PatchHolds(patch) /\ PatchTells(patch, e.id)
  <2>1. CASE e.id \in DOMAIN patches
    BY <2>1 DEF Echoed, PatchesHold, PatchesTell
  <2>2. CASE e.id \notin DOMAIN patches
    BY <2>2, NoPatchHolds DEF NoPatch, PatchTells, IsTerminalPhase, TerminalPhases
  <2> QED BY <2>1, <2>2
<1>2. \/ UNCHANGED patches
      \/ \E next : /\ patches' = [i \in DOMAIN patches \cup {e.id} |-> IF i = e.id THEN next ELSE patches[i]]
                   /\ PatchTells(next, e.id)
  <2>0. e.kind \in {"opened", "advanced", "settled"}
    BY EventFields
  <2>1. CASE e.kind = "opened"
    <3>1. patches' = [i \in DOMAIN patches \cup {e.id} |-> IF i = e.id THEN patch ELSE patches[i]]
      BY <2>1 DEF ApplyFlashblockEvent
    <3> QED BY <1>1, <3>1
  <2>2. CASE e.kind = "advanced" /\ (patch.settled \/ e.step <= patch.step)
    BY <2>2 DEF ApplyFlashblockEvent
  <2>3. CASE e.kind = "advanced" /\ ~(patch.settled \/ e.step <= patch.step)
    <3>1. PICK next : next = PatchAdvanced(patch, e)
      OBVIOUS
    <3>2. patches' = [i \in DOMAIN patches \cup {e.id} |-> IF i = e.id THEN next ELSE patches[i]]
      BY <2>3, <3>1 DEF ApplyFlashblockEvent
    <3>3. PatchTells(next, e.id)
      <4>1. patch.settled = FALSE /\ patch.settledAt = Undefined /\ ~IsTerminalPhase(e.phase)
        BY <1>1, <2>3 DEF PatchTells, EventTells
      <4> HIDE DEF patch
      <4> QED BY <1>1, <3>1, <4>1, PatchAdvancesTruly
    <3> QED BY <3>2, <3>3
  <2>4. CASE e.kind = "settled" /\ patch.settled
    BY <2>4 DEF ApplyFlashblockEvent
  <2>5. CASE e.kind = "settled" /\ ~patch.settled
    <3>1. PICK next : next = PatchSettled(patch, e)
      OBVIOUS
    <3>2. patches' = [i \in DOMAIN patches \cup {e.id} |-> IF i = e.id THEN next ELSE patches[i]]
      BY <2>5, <3>1 DEF ApplyFlashblockEvent
    <3>3. PatchTells(next, e.id)
      <4>1. AsOnChain(e, e.id)
        BY <2>5 DEF EventTells
      <4> HIDE DEF patch
      <4> QED BY <1>1, <3>1, <4>1, PatchSettlesTruly
    <3> QED BY <3>2, <3>3
  <2> QED BY <2>0, <2>1, <2>2, <2>3, <2>4, <2>5
<1> HIDE DEF patch
<1>3. \A i \in DOMAIN patches' : PatchTells(patches'[i], i)
  BY <1>2 DEF PatchesTell
<1>4. \A x, i : PatchTells(x, i) => PatchTells(x, i)'
  BY DEF PatchTells, AsOnChain
<1> QED BY <1>3, <1>4 DEF PatchesTell, PatchTells, AsOnChain

-----------------------------------------------------------------------------
Now == [settled |-> publishedSettled, open |-> publishedOpen, snapshot |-> snapshot]

Results ==
  /\ Layers /\ TransitTells /\ Sound(Now)
  /\ world \in Worlds /\ Len(chain) <= world.sessions

\* A session on the chain stays, and so do its result and the block's time in its row.
Final ==
  /\ \A i \in DOMAIN rows :
       rows[i].settledAt = BlockClock => i \in DOMAIN rows' /\ rows'[i].settledAt = BlockClock
  /\ 1..Len(chain) \subseteq 1..Len(chain')
  /\ \A i \in 1..Len(chain) : chain[i].kind = "settled" => chain'[i] = chain[i]

LEMMA FinalKeepsItems ==
  ASSUME Final
  PROVE  \A item : Truthful(item) => Truthful(item)'
BY DEF Final, Truthful, AsOnChain, Pending

LEMMA FinalKeepsPublished ==
  ASSUME Final, UNCHANGED Now, Sound(Now)
  PROVE  Sound(Now)'
<1> PICK p : p = Now
  OBVIOUS
<1>1. Now' = p /\ Sound(p)
  OBVIOUS
<1>2. \A item : Truthful(item) => Truthful(item)'
  BY FinalKeepsItems
<1>3. \A memo : MemoOK(memo) => MemoOK(memo)'
  BY <1>2 DEF MemoOK, Final
<1>4. \A items, n : ItemsOK(items, n) => ItemsOK(items, n)'
  BY <1>2 DEF ItemsOK
<1>5. Sound(p)'
  BY <1>1, <1>3, <1>4 DEF Sound, SettledMemo, OpenMemo
<1>6. Sound(Now)' <=> Sound(p)'
  BY <1>1
<1> QED BY <1>5, <1>6

LEMMA FinalKeepsRows ==
  ASSUME Echoed, Final, RowsTell, UNCHANGED rows
  PROVE  RowsTell'
<1>1. \A i \in DOMAIN rows : i \in 1..Len(chain) /\ RowTells(rows[i], i)
  BY DEF Echoed, RowsHold, RowsTell
<1>2. \A i \in 1..Len(chain) : \A x : RowTells(x, i) => RowTells(x, i)'
  BY DEF Final, RowTells, AsOnChain
<1> QED BY <1>1, <1>2 DEF RowsTell, RowTells, AsOnChain

LEMMA FinalKeepsPatches ==
  ASSUME Echoed, Final, PatchesTell, UNCHANGED patches
  PROVE  PatchesTell'
<1>1. \A i \in DOMAIN patches : i \in 1..Len(chain) /\ PatchTells(patches[i], i)
  BY DEF Echoed, PatchesHold, PatchesTell
<1>2. \A i \in 1..Len(chain) : \A x : PatchTells(x, i) => PatchTells(x, i)'
  BY DEF Final, PatchTells, AsOnChain
<1> QED BY <1>1, <1>2 DEF PatchesTell, PatchTells, AsOnChain

LEMMA FinalKeepsOptimistic ==
  ASSUME Final, OptimisticOK, UNCHANGED <<optimistic, placed>>
  PROVE  OptimisticOK'
<1>1. \A k \in DOMAIN optimistic : Truthful(optimistic[k])'
  <2>1. PICK s : s = optimistic
    OBVIOUS
  <2>2. \A k \in DOMAIN s : Truthful(s[k])'
    BY <2>1, FinalKeepsItems DEF OptimisticOK
  <2> QED BY <2>1, <2>2 DEF Truthful, AsOnChain
<1> QED BY <1>1 DEF OptimisticOK

LEMMA EmissionKeepsResults ==
  ASSUME Results, NEW i, NEW e \in Event, NEW events \in Seq(Event), Emits(i, e, events), Committed(e),
         Len(chain') = Len(chain) \/ Len(chain') <= world.sessions
  PROVE  Results'
<1>1. /\ UNCHANGED <<rows, patches, optimistic, placed, world, publishedSettled, publishedOpen, snapshot>>
      /\ \A c \in Channels : transit'[c] = transit[c] \o events
  BY DEF Emits, page, view, Emitted
<1>2. /\ e.id = i /\ e.kind \in {"advanced", "settled"}
      /\ \A k \in 1..Len(events) : events[k] = e \/ (events[k].kind = "opened" /\ events[k].id = i)
      /\ 1..Len(chain') = (1..Len(chain)) \cup {i}
      /\ chain'[i] = e /\ \A j \in 1..Len(chain) : j # i => chain'[j] = chain[j]
      /\ i \in 1..Len(chain) => chain[i].kind = "advanced"
  BY DEF Emits
<1>3. Final
  BY <1>1, <1>2 DEF Final
<1>4. Echoed'
  BY EmissionKeepsEchoed DEF Results, Layers
<1>5. RowsTell' /\ PatchesTell' /\ OptimisticOK'
  BY <1>1, <1>3, FinalKeepsRows, FinalKeepsPatches, FinalKeepsOptimistic DEF Results, Layers
<1>6. ResultsOnChain'
  <2> SUFFICES ASSUME NEW j \in 1..Len(chain'), chain'[j].kind = "settled"
               PROVE  /\ IsTerminalPhase(chain'[j].phase)
                      /\ chain'[j].payout # Undefined /\ chain'[j].gameState # Undefined
    BY DEF ResultsOnChain
  <2>1. CASE j = i
    BY <1>2, <2>1 DEF Committed
  <2>2. CASE j # i
    <3>1. j \in 1..Len(chain) /\ chain'[j] = chain[j]
      BY <1>2, <2>2
    <3> QED BY <3>1 DEF Results, Layers, ResultsOnChain
  <2> QED BY <2>1, <2>2
<1>7. EventTells(e)'
  <2>1. ~(e.phase \in OpenPhases /\ IsTerminalPhase(e.phase))
    BY DEF OpenPhases, IsTerminalPhase, TerminalPhases
  <2> QED BY <1>2, <2>1 DEF EventTells, Committed, AsOnChain
<1>8. ASSUME NEW c \in Channels, NEW n \in 1..Len(transit'[c]) PROVE EventTells(transit[c][n])'
  <2>1. PICK s, t : s = transit[c] /\ t = transit'[c]
    OBVIOUS
  <2>2. s \in Seq(Event) /\ \A k \in 1..Len(s) : Told(s[k]) /\ EventTells(s[k])
    BY <2>1 DEF Results, Layers, Echoed, TransitTold, ChannelTold, TransitTells
  <2>3. t = s \o events
    BY <1>1, <2>1
  <2>4. /\ s \o events \in Seq(Event) /\ Len(s \o events) = Len(s) + Len(events)
        /\ \A k \in 1..Len(s) : (s \o events)[k] = s[k]
        /\ \A k \in 1..Len(events) : (s \o events)[Len(s) + k] = events[k]
    BY <2>2, Concatenated
  <2>5. /\ Len(t) = Len(s) + Len(events) /\ Len(s) \in Nat /\ Len(events) \in Nat
        /\ \A k \in 1..Len(s) : t[k] = s[k]
        /\ \A k \in 1..Len(events) : t[Len(s) + k] = events[k]
    <3>1. Len(s) \in Nat /\ Len(events) \in Nat
      BY <2>2
    <3> QED BY <2>3, <2>4, <3>1, Zenon
  <2>6. CASE n \in 1..Len(s)
    <3>1. t[n] = s[n] /\ Told(s[n]) /\ EventTells(s[n])
      BY <2>2, <2>5, <2>6
    <3>2. EventTells(t[n])'
      BY <1>3, <3>1 DEF Told, EventTells, Final, AsOnChain
    <3> QED BY <2>1, <3>2 DEF EventTells, AsOnChain
  <2>7. CASE n \notin 1..Len(s)
    <3>1. PICK k \in 1..Len(events) : n = Len(s) + k
      <4>1. n - Len(s) \in 1..Len(events) /\ n = Len(s) + (n - Len(s))
        BY <2>1, <2>5, <2>7
      <4> QED BY <4>1
    <3>2. t[n] = events[k]
      BY <2>5, <3>1
    <3>3. EventTells(t[n])'
      BY <1>2, <1>7, <3>2 DEF EventTells
    <3> QED BY <2>1, <3>3 DEF EventTells, AsOnChain
  <2> QED BY <2>6, <2>7
<1>9. TransitTells'
  BY <1>8 DEF TransitTells
<1>10. Sound(Now)'
  BY <1>1, <1>3, FinalKeepsPublished DEF Results, Now
<1>11. (world \in Worlds /\ Len(chain) <= world.sessions)'
  BY <1>1 DEF Results
<1> QED BY <1>4, <1>5, <1>6, <1>9, <1>10, <1>11 DEF Results, Layers

\* What is left in transit after a delivery.
LEMMA DeliveryLeavesTruth ==
  ASSUME Echoed, TransitTells, NEW c \in Channels, NEW n, Deliver(c, n), UNCHANGED chain
  PROVE  TransitTells' /\ transit[c][n] \in Event /\ Told(transit[c][n]) /\ EventTells(transit[c][n])
<1>1. /\ transit[c][n] \in Event /\ Told(transit[c][n])
      /\ \A d \in Channels : d # c => transit'[d] = transit[d]
      /\ \A m \in 1..Len(transit'[c]) : \E k \in 1..Len(transit[c]) : transit'[c][m] = transit[c][k]
  BY DeliveryTells
<1>2. n \in 1..Len(transit[c])
  BY DEF Deliver
<1>3. \A d \in Channels : \A m \in 1..Len(transit'[d]) :
        \E k \in 1..Len(transit[d]) : transit'[d][m] = transit[d][k]
  BY <1>1
<1>4. \A x : EventTells(x) <=> EventTells(x)'
  BY DEF EventTells, AsOnChain
<1>5. ASSUME NEW d \in Channels, NEW m \in 1..Len(transit'[d]) PROVE EventTells(transit[d][m])'
  <2>1. PICK k \in 1..Len(transit[d]) : transit'[d][m] = transit[d][k]
    BY <1>3
  <2>2. PICK x : x = transit[d][k]
    OBVIOUS
  <2>3. EventTells(x)'
    BY <1>4, <2>2 DEF TransitTells
  <2> QED BY <2>1, <2>2, <2>3 DEF EventTells, AsOnChain
<1> QED BY <1>1, <1>2, <1>5 DEF TransitTells

LEMMA IndexedKeepsResults ==
  ASSUME Results, NEW n, DeliverIndexed(n)
  PROVE  Results'
<1>1. /\ UNCHANGED <<chain, patches, optimistic, placed, world, publishedSettled, publishedOpen, snapshot>>
      /\ Deliver("indexed", n) /\ "indexed" \in Channels
  BY DEF DeliverIndexed, view, Channels
<1>2. PICK e : e = transit["indexed"][n]
  OBVIOUS
<1>3. e \in Event /\ Told(e) /\ EventTells(e) /\ TransitTells'
  BY <1>1, <1>2, DeliveryLeavesTruth DEF Results, Layers
<1>4. Echoed'
  BY IndexedDeliveryKeepsEchoed DEF Results, Layers
<1> PICK row, next : row = Row(e.id) /\ next = Evolve(row, e)
  OBVIOUS
<1>5. rows' = [i \in DOMAIN rows \cup {e.id} |-> IF i = e.id THEN next ELSE rows[i]]
  BY <1>2 DEF DeliverIndexed
<1>6. RowHolds(row) /\ RowTells(row, e.id) /\ RowTimed(row)
  <2>1. CASE e.id \in DOMAIN rows
    BY <2>1 DEF Row, Results, Layers, Echoed, RowsHold, RowsTell
  <2>2. CASE e.id \notin DOMAIN rows
    BY <2>2, InitialRowHolds
       DEF Row, InitialRow, RowTells, RowTimed, RowIsTerminal, IsTerminalPhase, TerminalPhases
  <2> QED BY <2>1, <2>2
<1>7. /\ RowTells(next, e.id) /\ RowTimed(next)
      /\ row.settledAt = BlockClock => next.settledAt = BlockClock
  <2>1. e.id \in 1..Len(chain) /\ ResultsOnChain
    BY <1>3 DEF Told, Results, Layers
  <2> QED BY <1>3, <1>6, <2>1, RowEvolvesTruly
<1>8. Final
  <2>1. e.id \in DOMAIN rows => row = rows[e.id]
    BY DEF Row
  <2>2. \A i \in DOMAIN rows :
          rows[i].settledAt = BlockClock => i \in DOMAIN rows' /\ rows'[i].settledAt = BlockClock
    BY <1>5, <1>7, <2>1
  <2> QED BY <1>1, <2>2 DEF Final
<1>9. RowsTell'
  <2>1. \A i \in DOMAIN rows' : RowTells(rows'[i], i) /\ RowTimed(rows'[i])
    BY <1>5, <1>7 DEF Results, Layers, RowsTell
  <2>2. \A x : RowTimed(x) => RowTimed(x)'
    BY DEF RowTimed, RowIsTerminal
  <2>3. \A x, i : RowTells(x, i) => RowTells(x, i)'
    BY <1>1 DEF RowTells, RowIsTerminal, AsOnChain
  <2> QED BY <1>1, <2>1, <2>2, <2>3 DEF RowsTell, RowTells, RowTimed, RowIsTerminal, AsOnChain
<1>10. PatchesTell' /\ OptimisticOK' /\ ResultsOnChain'
  BY <1>1, <1>8, FinalKeepsPatches, FinalKeepsOptimistic DEF Results, Layers, ResultsOnChain
<1>11. Sound(Now)'
  BY <1>1, <1>8, FinalKeepsPublished DEF Results, Now
<1> QED BY <1>1, <1>3, <1>4, <1>9, <1>10, <1>11 DEF Results, Layers
\* What holds of the optimistic sessions.
BetsOK(bets) ==
  /\ \A k \in DOMAIN bets :
       /\ Truthful(bets[k]) /\ ~bets[k].isSettled
       /\ bets[k].bet \in placed /\ bets[k].id \in {Pending, bets[k].bet}
  /\ \A j, k \in DOMAIN bets : bets[j].bet = bets[k].bet => j = k

LEMMA ConfirmationKeepsBets ==
  ASSUME OptimisticOK, NEW i \in 1..Len(chain), Confirm(i), UNCHANGED <<chain, rows, placed>>
  PROVE  OptimisticOK'
<1> PICK s, t : s = optimistic /\ t = optimistic'
  OBVIOUS
<1>1. PICK n : IsList(s, n)
  BY DEF OptimisticOK
<1>2. DOMAIN s = 1..n /\ t = [k \in 1..n |-> IF s[k].bet = i THEN [s[k] EXCEPT !.id = i] ELSE s[k]]
  BY <1>1 DEF Confirm, IsList
<1>3. IsList(t, n) /\ DOMAIN t = 1..n
  BY <1>1, <1>2 DEF IsList
<1>4. ASSUME NEW k \in 1..n
      PROVE  /\ Truthful(t[k]) /\ ~t[k].isSettled /\ t[k].bet = s[k].bet
             /\ t[k].bet \in placed /\ t[k].id \in {Pending, t[k].bet}
  <2> PICK o, x : o = s[k] /\ x = t[k]
    OBVIOUS
  <2>1. Truthful(o) /\ ~o.isSettled /\ o.bet \in placed /\ o.id \in {Pending, o.bet}
    BY <1>2 DEF OptimisticOK
  <2>2. x = o \/ (o.bet = i /\ x = [o EXCEPT !.id = i])
    BY <1>2
  <2>3. o.settledAt # BlockClock
    BY <2>1 DEF Truthful, Undefined, BlockClock
  <2>4. Truthful(x) /\ ~x.isSettled /\ x.bet = o.bet /\ x.id \in {Pending, o.bet}
    BY <2>1, <2>2, <2>3 DEF Truthful
  <2> QED BY <2>1, <2>4
<1>5. BetsOK(t)
  <2>1. \A j, k \in DOMAIN t : t[j].bet = t[k].bet => j = k
    BY <1>2, <1>3, <1>4 DEF OptimisticOK
  <2> QED BY <1>3, <1>4, <2>1 DEF BetsOK
<1>6. BetsOK(t)'
  BY <1>5 DEF BetsOK, Truthful, AsOnChain
<1> QED BY <1>3, <1>6 DEF OptimisticOK, BetsOK, Truthful, AsOnChain

LEMMA FlashblockKeepsResults ==
  ASSUME Results, NEW n, DeliverFlashblock(n)
  PROVE  Results'
<1>1. /\ UNCHANGED <<chain, rows, placed, world, publishedSettled, publishedOpen, snapshot>>
      /\ Deliver("flashblock", n) /\ "flashblock" \in Channels
  BY DEF DeliverFlashblock, view, Channels
<1>2. PICK e : e = transit["flashblock"][n]
  OBVIOUS
<1>3. e \in Event /\ Told(e) /\ EventTells(e) /\ TransitTells'
  BY <1>1, <1>2, DeliveryLeavesTruth DEF Results, Layers
<1>4. Echoed'
  BY FlashblockDeliveryKeepsEchoed DEF Results, Layers
<1>5. Final
  BY <1>1 DEF Final
<1>6. e.id \in 1..Len(chain)
  BY <1>3 DEF Told
<1>7. PatchesTell'
  <2>1. patches' = ApplyFlashblockEvent(patches, e)
    BY <1>2 DEF DeliverFlashblock
  <2> QED BY <1>1, <1>3, <1>6, <2>1, EventsPatchTruly DEF Results, Layers
<1>8. OptimisticOK'
  <2>1. Confirm(e.id) \/ UNCHANGED optimistic
    BY <1>2 DEF DeliverFlashblock, HandleFlashblockSessionOpened
  <2>2. CASE Confirm(e.id)
    BY <1>1, <1>6, <2>2, ConfirmationKeepsBets DEF Results, Layers
  <2>3. CASE UNCHANGED optimistic
    BY <1>1, <1>5, <2>3, FinalKeepsOptimistic DEF Results, Layers
  <2> QED BY <2>1, <2>2, <2>3
<1>9. RowsTell' /\ ResultsOnChain'
  BY <1>1, <1>5, FinalKeepsRows DEF Results, Layers, ResultsOnChain
<1>10. Sound(Now)'
  BY <1>1, <1>5, FinalKeepsPublished DEF Results, Now
<1> QED BY <1>1, <1>3, <1>4, <1>7, <1>8, <1>9, <1>10 DEF Results, Layers

\* Some of the optimistic sessions.
LEMMA BetsSelected ==
  ASSUME OptimisticOK, NEW K \in SUBSET DOMAIN optimistic
  PROVE  /\ IsList(AtPositions(optimistic, K), Cardinality(K)) /\ BetsOK(AtPositions(optimistic, K))
<1> PICK s : s = optimistic
  OBVIOUS
<1>1. PICK n : IsList(s, n)
  BY DEF OptimisticOK
<1>2. DOMAIN s = 1..n /\ K \in SUBSET (1..n)
  BY <1>1 DEF IsList
<1> DEFINE t == AtPositions(s, K)
<1>3. Selected(t, s, K)
  BY <1>1, <1>2, PositionsSelect
<1> HIDE DEF t
<1>4. /\ \A k \in DOMAIN t : \E m \in K : t[k] = s[m]
      /\ \A j, k \in DOMAIN t : j # k => \E l, m \in K : l # m /\ t[j] = s[l] /\ t[k] = s[m]
  BY <1>3 DEF Selected
<1>5. \A k \in DOMAIN t : /\ Truthful(t[k]) /\ ~t[k].isSettled
                          /\ t[k].bet \in placed /\ t[k].id \in {Pending, t[k].bet}
  BY <1>4 DEF OptimisticOK
<1>6. \A j, k \in DOMAIN t : t[j].bet = t[k].bet => j = k
  <2> SUFFICES ASSUME NEW j \in DOMAIN t, NEW k \in DOMAIN t, t[j].bet = t[k].bet, j # k PROVE FALSE
    OBVIOUS
  <2>1. PICK l \in K, m \in K : l # m /\ t[j] = s[l] /\ t[k] = s[m]
    BY <1>4
  <2> QED BY <2>1 DEF OptimisticOK
<1>7. IsList(t, Cardinality(K)) /\ BetsOK(t)
  BY <1>3, <1>5, <1>6 DEF Selected, BetsOK
<1> QED BY <1>7 DEF t

\* A change of the optimistic sessions and of the bets placed, and of nothing else.
LEMMA BetsKeepResults ==
  ASSUME Results, UNCHANGED <<chain, transit, rows, patches, view, world>>, OptimisticOK'
  PROVE  Results'
<1>1. Final
  BY DEF Final
<1>2. Echoed'
  BY OthersKeepEchoed DEF Results, Layers, view
<1>3. RowsTell' /\ PatchesTell' /\ ResultsOnChain'
  BY <1>1, FinalKeepsRows, FinalKeepsPatches DEF Results, Layers, ResultsOnChain
<1>4. Sound(Now)'
  BY <1>1, FinalKeepsPublished DEF Results, Now, view
<1>5. TransitTells'
  BY DEF Results, TransitTells, EventTells, AsOnChain
<1> QED BY <1>2, <1>3, <1>4, <1>5 DEF Results, Layers

LEMMA PlacementKeepsResults ==
  ASSUME Results, NEW i, PlaceBet(i)
  PROVE  Results'
<1>1. /\ UNCHANGED <<chain, transit, rows, patches, view, world>>
      /\ i \notin placed /\ placed' = placed \cup {i} /\ OptimisticOK
  BY DEF PlaceBet, Results, Layers
<1> DEFINE K == {n \in DOMAIN optimistic : optimistic[n].id \notin DOMAIN rendered}
           t == AtPositions(optimistic, K)
           o == OptimisticItem(i)
           head == <<o>>
<1>2. optimistic' = head \o t
  BY DEF PlaceBet
<1>3. K \in SUBSET DOMAIN optimistic
  OBVIOUS
<1>4. Truthful(o) /\ o.isSettled = FALSE /\ o.bet = i /\ o.id = Pending
  <2>1. o.settledAt # BlockClock
    BY DEF OptimisticItem, Undefined, BlockClock
  <2> QED BY <2>1 DEF OptimisticItem, Truthful
<1> HIDE DEF K
<1>5. IsList(t, Cardinality(K)) /\ BetsOK(t)
  BY <1>1, <1>3, BetsSelected
<1>6. IsList(head, 1) /\ head[1] = o
  BY DEF IsList
<1> DEFINE N == Cardinality(K)
           next == head \o t
<1>7. N \in Nat /\ DOMAIN t = 1..N
  BY <1>5 DEF IsList
<1> HIDE DEF N, t, o, head
<1>8. Joined(next, head, 1, t, N)
  BY <1>5, <1>6, ListsJoin DEF N
<1> HIDE DEF next
<1>9. /\ IsList(next, 1 + N) /\ DOMAIN next = 1..(1 + N)
      /\ next[1] = o
      /\ \A k \in 1..N : 1 + k \in 1..(1 + N) /\ next[1 + k] = t[k]
      /\ \A k \in 1..(1 + N) : k = 1 \/ \E l \in 1..N : k = 1 + l
  <2>1. /\ IsList(next, 1 + N)
        /\ \A k \in 1..1 : next[k] = head[k]
        /\ \A k \in 1..N : 1 + k \in 1..(1 + N) /\ next[1 + k] = t[k]
        /\ \A k \in 1..(1 + N) : k \in 1..1 \/ \E l \in 1..N : k = 1 + l
    BY <1>8 DEF Joined
  <2>2. 1 \in 1..1 /\ \A k \in 1..1 : k = 1
    OBVIOUS
  <2>3. DOMAIN next = 1..(1 + N)
    BY <2>1 DEF IsList
  <2> QED BY <1>6, <2>1, <2>2, <2>3
<1>10. \A k \in 1..N : /\ Truthful(t[k]) /\ ~t[k].isSettled
                       /\ t[k].bet \in placed /\ t[k].id \in {Pending, t[k].bet}
  BY <1>5, <1>7 DEF BetsOK
<1>11. \A k \in DOMAIN next : /\ Truthful(next[k]) /\ ~next[k].isSettled
                              /\ next[k].bet \in placed' /\ next[k].id \in {Pending, next[k].bet}
  BY <1>1, <1>4, <1>9, <1>10
<1>12. \A j, k \in DOMAIN next : next[j].bet = next[k].bet => j = k
  <2> SUFFICES ASSUME NEW j \in 1..(1 + N), NEW k \in 1..(1 + N), next[j].bet = next[k].bet, j # k
               PROVE  FALSE
    BY <1>9
  <2>1. CASE j = 1
    <3>1. PICK l \in 1..N : k = 1 + l
      BY <1>9, <2>1
    <3> QED BY <1>1, <1>4, <1>9, <1>10, <2>1, <3>1
  <2>2. CASE k = 1
    <3>1. PICK l \in 1..N : j = 1 + l
      BY <1>9, <2>2
    <3> QED BY <1>1, <1>4, <1>9, <1>10, <2>2, <3>1
  <2>3. CASE j # 1 /\ k # 1
    <3>1. PICK l \in 1..N, m \in 1..N : j = 1 + l /\ k = 1 + m
      BY <1>9, <2>3
    <3>2. t[l].bet = t[m].bet
      BY <1>9, <3>1
    <3> QED BY <1>5, <1>7, <3>1, <3>2 DEF BetsOK
  <2> QED BY <2>1, <2>2, <2>3
<1>13. OptimisticOK'
  <2>1. PICK x : x = next
    OBVIOUS
  <2>2. /\ optimistic' = x /\ IsList(x, 1 + N)
        /\ \A k \in DOMAIN x : /\ Truthful(x[k])' /\ ~x[k].isSettled
                               /\ x[k].bet \in placed' /\ x[k].id \in {Pending, x[k].bet}
        /\ \A j, k \in DOMAIN x : x[j].bet = x[k].bet => j = k
    <3>1. \A y : Truthful(y) => Truthful(y)'
      BY <1>1 DEF Truthful, AsOnChain
    <3> QED BY <1>2, <1>9, <1>11, <1>12, <2>1, <3>1 DEF next
  <2> QED BY <2>2 DEF OptimisticOK, Truthful, AsOnChain
<1> QED BY <1>1, <1>13, BetsKeepResults

LEMMA ReceiptKeepsResults ==
  ASSUME Results, NEW i \in world.bets, Receipt(i)
  PROVE  Results'
<1>1. i \in 1..Len(chain)
  BY SnapshotAssumption DEF Receipt, Results
<1>2. OptimisticOK'
  BY <1>1, ConfirmationKeepsBets DEF Receipt, Results, Layers
<1> QED BY <1>2, BetsKeepResults DEF Receipt

LEMMA FailureKeepsResults ==
  ASSUME Results, NEW i, BetFails(i)
  PROVE  Results'
<1> DEFINE K == {n \in DOMAIN optimistic : optimistic[n].bet # i}
<1> PICK t : t = AtPositions(optimistic, K)
  OBVIOUS
<1>1. UNCHANGED <<chain, transit, rows, patches, placed, view, world>> /\ optimistic' = t
  BY DEF BetFails
<1>2. K \in SUBSET DOMAIN optimistic
  OBVIOUS
<1> HIDE DEF K
<1>3. IsList(t, Cardinality(K)) /\ BetsOK(t)
  BY <1>2, BetsSelected DEF Results, Layers
<1>4. BetsOK(t)'
  BY <1>1, <1>3 DEF BetsOK, Truthful, AsOnChain
<1>5. OptimisticOK'
  BY <1>1, <1>3, <1>4 DEF OptimisticOK, BetsOK, Truthful, AsOnChain
<1> QED BY <1>1, <1>5, BetsKeepResults

LEMMA PruneKeepsResults ==
  ASSUME Results, Prune
  PROVE  Results'
<1>1. UNCHANGED <<chain, transit, rows, optimistic, placed, publishedSettled, publishedOpen, snapshot, world>>
  BY DEF Prune
<1>2. Final
  BY <1>1 DEF Final
<1>3. Echoed'
  BY PruneKeepsEchoed DEF Results, Layers
<1>4. PatchesTell'
  <2>1. \A i \in DOMAIN patches' : i \in DOMAIN patches /\ patches'[i] = patches[i]
    BY DEF Prune, PruneFlashblockPatches, Restrict
  <2>2. \A i \in DOMAIN patches' : PatchTells(patches'[i], i)
    BY <2>1 DEF Results, Layers, PatchesTell
  <2> QED BY <1>1, <2>2 DEF PatchesTell, PatchTells, AsOnChain
<1>5. RowsTell' /\ OptimisticOK' /\ ResultsOnChain'
  BY <1>1, <1>2, FinalKeepsRows, FinalKeepsOptimistic DEF Results, Layers, ResultsOnChain
<1>6. Sound(Now)'
  BY <1>1, <1>2, FinalKeepsPublished DEF Results, Now
<1>7. TransitTells'
  BY <1>1 DEF Results, TransitTells, EventTells, AsOnChain
<1> QED BY <1>1, <1>3, <1>4, <1>5, <1>6, <1>7 DEF Results, Layers

\* A render publishes what follows from what was published, and keeps every session.
LEMMA RenderPublishes ==
  ASSUME Results, Render
  PROVE  /\ Results' /\ Sound(Now)' /\ UNCHANGED chain
         /\ DOMAIN publishedSettled \subseteq DOMAIN publishedSettled'
         /\ DOMAIN publishedSettled \cup DOMAIN publishedOpen
              \subseteq DOMAIN publishedSettled' \cup DOMAIN publishedOpen'
         /\ UNCHANGED rows
         /\ \A i \in DOMAIN rendered' :
              rows[i].settledAt = BlockClock => publishedSettled'[i].settledAt = BlockClock
<1> PICK seen : seen = SessionRows
  OBVIOUS
<1> PICK merged, settled, open : /\ merged = MergedItems(seen)
                                 /\ settled = WithoutReleased(publishedSettled, seen)
                                 /\ open = WithoutReleased(publishedOpen, seen)
  OBVIOUS
<1> PICK p : p = Reconcile(merged, settled, open)
  OBVIOUS
<1>1. UNCHANGED <<chain, transit, rows, patches, optimistic, placed, world>>
  BY DEF Render
<1>2. /\ publishedSettled' = p.settled /\ publishedOpen' = p.open /\ snapshot' = p.snapshot
      /\ rendered' = SessionRows
  BY DEF Render, Published
<1>3. Seen(seen)
  <2>1. \A i \in DOMAIN SessionRows : i \in DOMAIN rows /\ SessionRows[i] = rows[i]
    BY DEF SessionRows, Restrict
  <2> QED BY <2>1 DEF Seen
<1>4. Merges(merged, seen)
  <2>1. Merges(MergedItems(seen), seen)
    BY <1>3, LayersMerge DEF Results
  <2> QED BY <2>1
<1>5. /\ SettledMemo(publishedSettled) /\ OpenMemo(publishedOpen)
  BY DEF Results, Sound, Now
<1>6. /\ \A i \in DOMAIN settled : i \in DOMAIN publishedSettled /\ settled[i] = publishedSettled[i]
      /\ \A i \in DOMAIN open : i \in DOMAIN publishedOpen /\ open[i] = publishedOpen[i]
      /\ \A i \in DOMAIN publishedSettled \cup DOMAIN publishedOpen :
           \/ i \in DOMAIN seen /\ RowIsTerminal(seen[i])
           \/ /\ i \in DOMAIN publishedSettled => i \in DOMAIN settled
              /\ i \in DOMAIN publishedOpen => i \in DOMAIN open
  BY DEF WithoutReleased, Restrict
<1>7. SettledMemo(settled) /\ OpenMemo(open)
  BY <1>5, <1>6 DEF SettledMemo, OpenMemo, MemoOK
<1>8. Follows(p, merged, settled, open)
  <2>1. PICK n : ItemsOK(merged, n)
    BY <1>4 DEF Merges
  <2>2. Len(chain) \in Nat
    BY DEF Results, Layers, Echoed, ChainOK
  <2>3. Follows(Reconcile(merged, settled, open), merged, settled, open)
    BY <1>7, <2>1, <2>2, ListReconciled
  <2> QED BY <2>3
<1>9. \A x : Truthful(x) => Truthful(x)'
  BY <1>1 DEF Truthful, AsOnChain
<1>10. Sound(Now)'
  <2>1. Sound(p)
    BY <1>8 DEF Follows
  <2>2. \A memo : MemoOK(memo) => MemoOK(memo)'
    BY <1>1, <1>9 DEF MemoOK
  <2>3. \A items, n : ItemsOK(items, n) => ItemsOK(items, n)'
    BY <1>9 DEF ItemsOK
  <2>4. Sound(p)'
    BY <2>1, <2>2, <2>3 DEF Sound, SettledMemo, OpenMemo
  <2>5. PICK q : q = Now'
    OBVIOUS
  <2>6. q.settled = p.settled /\ q.open = p.open /\ q.snapshot = p.snapshot
    BY <1>2, <2>5 DEF Now
  <2>7. Sound(q)'
    BY <2>4, <2>6 DEF Sound, Memorised, Kept
  <2>8. Sound(Now)' <=> Sound(q)'
    BY <2>5
  <2> QED BY <2>7, <2>8
<1>11. Results'
  <2>1. Echoed'
    BY <1>1, <1>2, OthersKeepEchoed DEF Results, Layers
  <2>2. Final
    BY <1>1 DEF Final
  <2>3. RowsTell' /\ PatchesTell' /\ OptimisticOK' /\ ResultsOnChain'
    BY <1>1, <2>2, FinalKeepsRows, FinalKeepsPatches, FinalKeepsOptimistic
       DEF Results, Layers, ResultsOnChain
  <2>4. TransitTells'
    BY <1>1 DEF Results, TransitTells, EventTells, AsOnChain
  <2> QED BY <1>1, <1>10, <2>1, <2>3, <2>4 DEF Results, Layers
<1>12. \A i \in DOMAIN seen :
         RowIsTerminal(seen[i]) => i \in DOMAIN p.settled /\ p.settled[i].settledAt = BlockClock
  <2> SUFFICES ASSUME NEW i \in DOMAIN seen, RowIsTerminal(seen[i])
               PROVE  i \in DOMAIN p.settled /\ p.settled[i].settledAt = BlockClock
    OBVIOUS
  <2>1. PICK k \in DOMAIN merged : /\ merged[k].id = i /\ Complete(merged[k])
                                  /\ merged[k].settledAt = BlockClock
    BY <1>4 DEF Merges
  <2>2. i # Pending
    BY <1>3, RowProjected DEF Results
  <2> QED BY <1>8, <2>1, <2>2 DEF Follows
<1>13. /\ DOMAIN publishedSettled \subseteq DOMAIN p.settled
       /\ DOMAIN publishedSettled \cup DOMAIN publishedOpen \subseteq DOMAIN p.settled \cup DOMAIN p.open
  <2>1. DOMAIN settled \subseteq DOMAIN p.settled /\ DOMAIN open \subseteq DOMAIN p.settled \cup DOMAIN p.open
    BY <1>8 DEF Follows, Memorised
  <2> QED BY <1>6, <1>12, <2>1
<1>14. \A i \in DOMAIN seen : rows[i].settledAt = BlockClock => p.settled[i].settledAt = BlockClock
  <2> SUFFICES ASSUME NEW i \in DOMAIN seen, rows[i].settledAt = BlockClock
               PROVE  p.settled[i].settledAt = BlockClock
    OBVIOUS
  <2>1. i \in DOMAIN rows /\ seen[i] = rows[i] /\ RowTimed(rows[i])
    BY <1>3 DEF Seen, Results, Layers, RowsTell
  <2>2. RowIsTerminal(rows[i])
    BY <2>1 DEF RowTimed, BlockClock, Undefined
  <2> QED BY <1>12, <2>1, <2>2
<1> QED BY <1>1, <1>2, <1>10, <1>11, <1>13, <1>14

\* before and after show session j with one result, at times that a sound list may tell.
ResultKept(before, after, j) ==
  /\ Shown(before, j) /\ Shown(after, j)
  /\ LET x == ItemOf(before, j)
         y == ItemOf(after, j)
     IN  /\ y.isSettled /\ <<y.phase, y.payout, y.gameState>> = <<x.phase, x.payout, x.gameState>>
         /\ x.settledAt # y.settledAt /\ {x.settledAt, y.settledAt} \subseteq {PageClock, BlockClock}
         /\ x.settledAt = BlockClock => rows[j].settledAt = BlockClock

\* A list that follows another as Sound lists do warns of no session of the chain, but of
\* the time of its result.
LEMMA SoundListsStay ==
  ASSUME Len(chain) \in Nat, NEW q, Sound(q), NEW p, Sound(p),
         DOMAIN q.settled \subseteq DOMAIN p.settled, Memorised(q) \subseteq Memorised(p),
         NEW warning \in SnapshotWarnings(q.snapshot, p.snapshot), warning.id # Pending
  PROVE  /\ warning.what = "MUTATED" /\ ResultKept(q.snapshot, p.snapshot, warning.id)
         /\ warning.id \in DOMAIN p.settled
         /\ ItemOf(p.snapshot, warning.id) = p.settled[warning.id]
<1> PICK before, after : before = q.snapshot /\ after = p.snapshot
  OBVIOUS
<1> DEFINE settled == {i \in {before[n].id : n \in DOMAIN before} :
                         Shown(after, i) /\ ItemOf(before, i).isSettled}
<1> DEFINE i == warning.id
<1>1. \A j : Shown(before, j) =>
        /\ \E n \in DOMAIN before : before[n].id = j /\ ItemOf(before, j) = before[n]
  BY DEF Shown, ItemOf
<1>2. \A j : Shown(after, j) =>
        /\ \E n \in DOMAIN after : after[n].id = j /\ ItemOf(after, j) = after[n]
  BY DEF Shown, ItemOf
<1>3. \A j : Shown(before, j) /\ j # Pending =>
        /\ j \in Memorised(q) /\ ItemOf(before, j) = Kept(q, j) /\ Shown(after, j)
        /\ j \in Memorised(p) /\ ItemOf(after, j) = Kept(p, j)
  <2> SUFFICES ASSUME NEW j, Shown(before, j), j # Pending
               PROVE  /\ j \in Memorised(q) /\ ItemOf(before, j) = Kept(q, j) /\ Shown(after, j)
                      /\ j \in Memorised(p) /\ ItemOf(after, j) = Kept(p, j)
    OBVIOUS
  <2>1. j \in Memorised(q) /\ ItemOf(before, j) = Kept(q, j)
    BY <1>1 DEF Sound
  <2>2. j \in Memorised(p) /\ Shown(after, j)
    BY <2>1 DEF Sound
  <2>3. ItemOf(after, j) = Kept(p, j)
    BY <1>2, <2>2 DEF Sound
  <2> QED BY <2>1, <2>2, <2>3
<1>4. \A j : Shown(before, j) /\ j # Pending /\ ItemOf(before, j).isSettled =>
        /\ ItemOf(after, j).isSettled
        /\ ItemOf(after, j).gameState = ItemOf(before, j).gameState
        /\ ItemOf(after, j).payout = ItemOf(before, j).payout
        /\ ItemOf(after, j).settledAt # ItemOf(before, j).settledAt => ResultKept(before, after, j)
        /\ j \in DOMAIN p.settled /\ ItemOf(after, j) = p.settled[j]
  <2> SUFFICES ASSUME NEW j, Shown(before, j), j # Pending, ItemOf(before, j).isSettled
               PROVE  /\ ItemOf(after, j).isSettled
                      /\ ItemOf(after, j).gameState = ItemOf(before, j).gameState
                      /\ ItemOf(after, j).payout = ItemOf(before, j).payout
                      /\ ItemOf(after, j).settledAt # ItemOf(before, j).settledAt =>
                           ResultKept(before, after, j)
                      /\ j \in DOMAIN p.settled /\ ItemOf(after, j) = p.settled[j]
    OBVIOUS
  <2>1. /\ j \in Memorised(q) /\ ItemOf(before, j) = Kept(q, j) /\ ItemOf(after, j) = Kept(p, j)
    BY <1>3
  <2>2. j \in DOMAIN q.settled
    BY <2>1 DEF Sound, OpenMemo, Kept, Memorised
  <2>3. j \in DOMAIN p.settled
    BY <2>2
  <2>4. /\ Truthful(q.settled[j]) /\ q.settled[j].id = j
        /\ Truthful(p.settled[j]) /\ p.settled[j].id = j /\ Complete(p.settled[j])
    BY <2>2, <2>3 DEF Sound, SettledMemo, MemoOK
  <2>5. ItemOf(before, j) = q.settled[j] /\ ItemOf(after, j) = p.settled[j]
    BY <2>1, <2>2, <2>3 DEF Kept
  <2> PICK x, y : x = ItemOf(before, j) /\ y = ItemOf(after, j)
    OBVIOUS
  <2>6. Truthful(x) /\ x.id = j /\ x.isSettled /\ Truthful(y) /\ y.id = j /\ y.isSettled
    BY <2>4, <2>5 DEF Complete
  <2>7. /\ y.gameState = x.gameState /\ y.payout = x.payout /\ y.phase = x.phase
        /\ x.isSettled = TRUE /\ y.isSettled = TRUE
    BY <2>6 DEF Truthful, AsOnChain
  <2>8. y.isSettled /\ <<y.phase, y.payout, y.gameState>> = <<x.phase, x.payout, x.gameState>>
    BY <2>7
  <2>9. /\ {x.settledAt, y.settledAt} \subseteq {PageClock, BlockClock}
        /\ x.settledAt = BlockClock => rows[j].settledAt = BlockClock
    BY <2>6 DEF Truthful
  <2>10. x.settledAt # y.settledAt => ResultKept(before, after, j)
    BY <1>3, <2>8, <2>9 DEF ResultKept
  <2> QED BY <2>3, <2>5, <2>6, <2>7, <2>10
<1>5. \/ i \in {before[n].id : n \in DOMAIN before} \ {after[n].id : n \in DOMAIN after}
      \/ i \in settled /\ ~ItemOf(after, i).isSettled
      \/ /\ warning.what = "MUTATED" /\ i \in settled
         /\ \/ ItemOf(after, i).gameState # ItemOf(before, i).gameState
            \/ ItemOf(after, i).payout # ItemOf(before, i).payout
            \/ ItemOf(after, i).settledAt # ItemOf(before, i).settledAt
      \/ /\ before # <<>> /\ after # <<>> /\ i = before[1].id
         /\ SessionOrdinal(after[1].id) < SessionOrdinal(before[1].id)
  <2> DEFINE mutated == {j \in settled : \/ ItemOf(after, j).gameState # ItemOf(before, j).gameState
                                         \/ ItemOf(after, j).payout # ItemOf(before, j).payout
                                         \/ ItemOf(after, j).settledAt # ItemOf(before, j).settledAt}
             gone == {before[n].id : n \in DOMAIN before} \ {after[n].id : n \in DOMAIN after}
             lost == {j \in settled : ~ItemOf(after, j).isSettled}
             changed == {j \in mutated : ItemOf(after, j).isSettled}
             first == IF before # <<>> /\ after # <<>>
                           /\ SessionOrdinal(after[1].id) < SessionOrdinal(before[1].id)
                      THEN {before[1].id} ELSE {}
  <2>1. warning \in [what : {"VANISHED"}, id : gone] \cup [what : {"settled then unsettled"}, id : lost]
                      \cup [what : {"MUTATED"}, id : changed] \cup [what : {"regressed"}, id : first]
    BY DEF SnapshotWarnings
  <2>2. i \in gone \/ i \in lost \/ (warning.what = "MUTATED" /\ i \in changed) \/ i \in first
    <3> HIDE DEF gone, lost, changed, first
    <3> QED BY <2>1
  <2> QED BY <2>2
<1>6. CASE i \in {before[n].id : n \in DOMAIN before} \ {after[n].id : n \in DOMAIN after}
  <2>1. Shown(before, i) /\ ~Shown(after, i)
    BY <1>6 DEF Shown
  <2> QED BY <1>3, <2>1
<1>7. CASE /\ i \in settled
           /\ \/ ~ItemOf(after, i).isSettled
              \/ /\ warning.what = "MUTATED"
                 /\ \/ ItemOf(after, i).gameState # ItemOf(before, i).gameState
                    \/ ItemOf(after, i).payout # ItemOf(before, i).payout
                    \/ ItemOf(after, i).settledAt # ItemOf(before, i).settledAt
  <2>1. Shown(before, i) /\ ItemOf(before, i).isSettled
    BY <1>7 DEF Shown
  <2>2. i # Pending
    OBVIOUS
  <2> PICK j : j = i
    OBVIOUS
  <2>3. /\ ItemOf(after, j).isSettled
        /\ ItemOf(after, j).gameState = ItemOf(before, j).gameState
        /\ ItemOf(after, j).payout = ItemOf(before, j).payout
        /\ ItemOf(after, j).settledAt # ItemOf(before, j).settledAt => ResultKept(before, after, j)
        /\ j \in DOMAIN p.settled /\ ItemOf(after, j) = p.settled[j]
    BY <1>4, <2>1, <2>2
  <2> HIDE DEF i, settled
  <2>4. warning.what = "MUTATED" /\ ItemOf(after, j).settledAt # ItemOf(before, j).settledAt
    BY <1>7, <2>3
  <2> QED BY <2>3, <2>4 DEF i
<1>8. CASE /\ before # <<>> /\ after # <<>> /\ i = before[1].id
           /\ SessionOrdinal(after[1].id) < SessionOrdinal(before[1].id)
  <2>1. PICK m, n : ItemsOK(before, m) /\ ItemsOK(after, n)
    BY DEF Sound
  <2>2. 1 \in DOMAIN before
    <3>1. m \in Nat /\ before = [k \in 1..m |-> before[k]]
      BY <2>1 DEF ItemsOK, IsList
    <3>2. m # 0
      BY <1>8, <3>1
    <3>3. 1 \in 1..m /\ DOMAIN before = 1..m
      BY <3>1, <3>2
    <3> QED BY <3>3
  <2>3. Shown(before, i)
    BY <1>8, <2>2 DEF Shown
  <2>4. PICK k \in DOMAIN after : after[k].id = i
    BY <1>3, <2>3 DEF Shown
  <2>5. n \in Nat /\ DOMAIN after = 1..n /\ k \in 1..n /\ 1 \in 1..n
    BY <2>1, <2>4 DEF ItemsOK, IsList
  <2>6. SessionOrdinal(after[1].id) \in Int /\ SessionOrdinal(after[k].id) \in Int
    <3>1. \A j \in 1..n : Truthful(after[j])
      BY <2>1 DEF ItemsOK
    <3>2. after[1].id \in Int /\ after[k].id \in Int
      <4>1. \A x : Truthful(x) => x.id \in Int
        BY DEF Truthful, Pending
      <4> QED BY <2>5, <3>1, <4>1
    <3>3. MaxSessions \in Int
      BY SnapshotAssumption
    <3>4. \A x \in Int : SessionOrdinal(x) \in Int
      BY <3>3 DEF SessionOrdinal
    <3> QED BY <3>2, <3>4
  <2>7. k = 1 \/ 1 < k
    BY <2>5
  <2>8. SessionOrdinal(after[1].id) >= SessionOrdinal(after[k].id)
    BY <2>5, <2>6, <2>7 DEF Sound
  <2> QED BY <1>8, <2>4, <2>6, <2>8
<1> QED BY <1>5, <1>6, <1>7, <1>8

LEMMA NextKeepsResults ==
  ASSUME Results, [Next]_vars
  PROVE  Results'
<1>1. CASE OpenOnChain \/ \E i \in DOMAIN chain : AdvanceOnChain(i) \/ SettleOnChain(i)
  <2>1. PICK i : \E e \in Event, events \in Seq(Event) :
           /\ Emits(i, e, events) /\ Committed(e)
           /\ Len(chain') = Len(chain) \/ Len(chain') <= world.sessions
    BY <1>1, ChainEmits DEF Results, Layers
  <2> QED BY <2>1, EmissionKeepsResults
<1>2. CASE Deliveries
  BY <1>2, IndexedKeepsResults, FlashblockKeepsResults DEF Deliveries
<1>3. CASE \E i \in world.bets : PlaceBet(i) \/ Receipt(i) \/ BetFails(i)
  BY <1>3, PlacementKeepsResults, ReceiptKeepsResults, FailureKeepsResults
<1>4. CASE ToggleWallet \/ UNCHANGED vars
  <2>1. UNCHANGED <<chain, transit, rows, patches, optimistic, placed, view, world>>
    BY <1>4 DEF ToggleWallet, vars, view
  <2>2. OptimisticOK'
    <3>1. Final
      BY <2>1 DEF Final
    <3> QED BY <2>1, <3>1, FinalKeepsOptimistic DEF Results, Layers
  <2> QED BY <2>1, <2>2, BetsKeepResults
<1>5. CASE Prune
  BY <1>5, PruneKeepsResults
<1>6. CASE Render
  BY <1>6, RenderPublishes
<1> QED BY <1>1, <1>2, <1>3, <1>4, <1>5, <1>6 DEF Next

LEMMA ResultsInvariant == Spec => []Results
<1>1. Init /\ Echoed => Results
  <2> SUFFICES ASSUME Init, Echoed PROVE Results
    OBVIOUS
  <2>1. /\ chain = <<>> /\ Len(<<>>) = 0 /\ 1..0 = {} /\ DOMAIN <<>> = {} /\ rows = <<>> /\ patches = <<>>
        /\ optimistic = <<>> /\ publishedSettled = <<>> /\ publishedOpen = <<>> /\ snapshot = <<>>
        /\ world \in Worlds
    BY DEF Init
  <2>2. IsList(<<>>, 0)
    BY <2>1 DEF IsList
  <2>3. RowsTell /\ PatchesTell /\ ResultsOnChain
    BY <2>1 DEF RowsTell, PatchesTell, ResultsOnChain
  <2>4. OptimisticOK
    <3>1. \E n : IsList(optimistic, n)
      BY <2>1, <2>2
    <3> QED BY <2>1, <3>1 DEF OptimisticOK
  <2>5. TransitTells
    <3>1. \A c \in Channels : transit[c] = <<>>
      BY DEF Init
    <3> QED BY <2>1, <3>1 DEF TransitTells
  <2>6. Sound(Now)
    <3>1. Now.settled = <<>> /\ Now.open = <<>> /\ Now.snapshot = <<>>
      BY <2>1 DEF Now
    <3>2. ItemsOK(<<>>, 0)
      BY <2>1, <2>2 DEF ItemsOK, Once
    <3>3. \E n : ItemsOK(Now.snapshot, n)
      BY <3>1, <3>2
    <3>4. Memorised(Now) = {}
      BY <2>1, <3>1 DEF Memorised
    <3> QED BY <2>1, <3>1, <3>3, <3>4 DEF Sound, SettledMemo, OpenMemo, MemoOK
  <2>7. Len(chain) <= world.sessions
    <3>1. world.sessions \in 0..MaxSessions /\ MaxSessions \in Nat
      BY <2>1, SnapshotAssumption
    <3> QED BY <2>1, <3>1
  <2> QED BY <2>1, <2>3, <2>4, <2>5, <2>6, <2>7 DEF Results, Layers
<1>2. Results /\ [Next]_vars => Results'
  BY NextKeepsResults
<1> QED BY <1>1, <1>2, EchoedInvariant, PTL DEF Spec

\* SettledAsOnChain for any numbers of sessions, payouts and layers in any order: a
\* session is in the published list once, and a result the game is shown is the one
\* the chain settled.
THEOREM SettlementsAreShownAsOnChain == Spec => []SettledAsOnChain
<1>1. Results => SettledAsOnChain
  <2> SUFFICES ASSUME Results, NEW n \in DOMAIN snapshot
               PROVE  /\ snapshot[n].id # Pending =>
                           \A m \in DOMAIN snapshot : snapshot[m].id = snapshot[n].id => m = n
                      /\ snapshot[n].isSettled => AsOnChain(snapshot[n], snapshot[n].id)
    BY DEF SettledAsOnChain, AsOnChain
  <2>1. PICK k : ItemsOK(snapshot, k)
    BY DEF Results, Sound, Now
  <2>2. Truthful(snapshot[n]) /\ Once(snapshot)
    BY <2>1 DEF ItemsOK, IsList
  <2> QED BY <2>2 DEF Truthful, Once
<1> QED BY <1>1, ResultsInvariant, PTL

\* ResultsStay in the same generality: no render drops a session of the chain that the
\* last one showed, takes its result back, changes its phase, payout or game state, or
\* puts an older one first; the time of a result changes to the block's, and back only
\* while the row of the session is not listed.
THEOREM ShownResultsStay == Spec => ResultsStay
<1> DEFINE Allowed(warning) == \/ warning.id = Pending
                               \/ warning.what = "MUTATED" /\ OnlyItsTimeChanges(warning.id)
           Stay == \A warning \in SnapshotWarnings(snapshot, snapshot') : Allowed(warning)
<1>1. ASSUME Results, Results', [Next]_vars PROVE [Stay]_vars
  <2>1. CASE Render
    <3>1. /\ Sound(Now)' /\ UNCHANGED chain
          /\ DOMAIN publishedSettled \subseteq DOMAIN publishedSettled'
          /\ DOMAIN publishedSettled \cup DOMAIN publishedOpen
               \subseteq DOMAIN publishedSettled' \cup DOMAIN publishedOpen'
          /\ UNCHANGED rows
          /\ \A i \in DOMAIN rendered' :
               rows[i].settledAt = BlockClock => publishedSettled'[i].settledAt = BlockClock
      BY <1>1, <2>1, RenderPublishes
    <3>2. PICK q, p : q = Now /\ p = Now'
      OBVIOUS
    <3>3. Sound(q)
      BY <1>1, <3>2 DEF Results
    <3>4. Sound(p)
      <4>1. Sound(Now)' <=> Sound(p)'
        BY <3>2
      <4>2. Sound(p)'
        BY <3>1, <4>1
      <4>3. \A x : Truthful(x)' => Truthful(x)
        BY <3>1 DEF Truthful, AsOnChain
      <4>4. \A memo : MemoOK(memo)' => MemoOK(memo)
        BY <3>1, <4>3 DEF MemoOK
      <4>5. \A items, n : ItemsOK(items, n)' => ItemsOK(items, n)
        BY <4>3 DEF ItemsOK
      <4> QED BY <4>2, <4>4, <4>5 DEF Sound, SettledMemo, OpenMemo
    <3>5. /\ q.snapshot = snapshot /\ p.snapshot = snapshot' /\ p.settled = publishedSettled'
          /\ DOMAIN q.settled \subseteq DOMAIN p.settled /\ Memorised(q) \subseteq Memorised(p)
      BY <3>1, <3>2 DEF Now, Memorised
    <3>6. Len(chain) \in Nat
      BY <1>1 DEF Results, Layers, Echoed, ChainOK
    <3>7. ASSUME NEW warning \in SnapshotWarnings(q.snapshot, p.snapshot), warning.id # Pending
          PROVE  warning.what = "MUTATED" /\ OnlyItsTimeChanges(warning.id)
      <4>1. /\ warning.what = "MUTATED" /\ ResultKept(snapshot, snapshot', warning.id)
            /\ ItemOf(snapshot', warning.id) = publishedSettled'[warning.id]
        BY <3>3, <3>4, <3>5, <3>6, <3>7, SoundListsStay
      <4>2. PICK i, x, y : i = warning.id /\ x = ItemOf(snapshot, i) /\ y = ItemOf(snapshot', i)
        OBVIOUS
      <4>3. /\ Shown(snapshot, i) /\ Shown(snapshot', i)
            /\ y.isSettled /\ <<y.phase, y.payout, y.gameState>> = <<x.phase, x.payout, x.gameState>>
            /\ x.settledAt # y.settledAt /\ {x.settledAt, y.settledAt} \subseteq {PageClock, BlockClock}
            /\ x.settledAt = BlockClock => rows[i].settledAt = BlockClock
        BY <4>1, <4>2 DEF ResultKept
      <4>4. y.settledAt = BlockClock \/ i \notin DOMAIN rendered'
        BY <3>1, <4>1, <4>2, <4>3
      <4> QED BY <4>1, <4>2, <4>3, <4>4 DEF OnlyItsTimeChanges
    <3> QED BY <3>5, <3>7
  <2>2. CASE snapshot' = snapshot
    <3>1. PICK q : q = Now
      OBVIOUS
    <3>2. Sound(q) /\ q.snapshot = snapshot /\ Len(chain) \in Nat
      BY <1>1, <3>1 DEF Results, Layers, Echoed, ChainOK, Now
    <3>3. \A warning \in SnapshotWarnings(q.snapshot, q.snapshot) :
            warning.id # Pending => ResultKept(q.snapshot, q.snapshot, warning.id)
      BY <3>2, SoundListsStay
    <3>4. \A warning \in SnapshotWarnings(q.snapshot, q.snapshot) : warning.id = Pending
      BY <3>3 DEF ResultKept
    <3> QED BY <2>2, <3>2, <3>4
  <2>3. Render \/ snapshot' = snapshot
    BY <1>1 DEF Next, OpenOnChain, AdvanceOnChain, SettleOnChain, Deliveries, DeliverIndexed,
       DeliverFlashblock, PlaceBet, Receipt, BetFails, ToggleWallet, Prune, vars, view, page
  <2> QED BY <2>1, <2>2, <2>3
<1> QED BY <1>1, ResultsInvariant, PTL DEF Spec, ResultsStay
=============================================================================
