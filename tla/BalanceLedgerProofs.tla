------------------------ MODULE BalanceLedgerProofs -------------------------
(***************************************************************************)
(* That the displayed balance follows the game, proved for any number of   *)
(* bets and actions, any stakes, deposit and payouts, and any number of    *)
(* balance reads, mounts and failures, in the worlds that are orderly.     *)
(***************************************************************************)
EXTENDS BalanceLedger, FiniteSums, TLAPS

\* The balance is exact for a host that stays and is told the truth, and whose game
\* waits for openSession.
Plain == world.mounts = 1 /\ ~world.misreports /\ ~world.hasty

Amount == Nat \cup {None}

LedgerState ==
  [baseline : Amount, adjustment : Int, active : SUBSET RoundKey, epoch : Nat, timer : BOOLEAN]

TypeOK ==
  /\ ledger \in LedgerState
  /\ reads \subseteq [epoch : Nat, value : Amount]
  /\ mounted \in BOOLEAN /\ mounts \in Nat \ {0}
  /\ raw \in Amount
  /\ DOMAIN tracked \subseteq Bets
  /\ stage \in [Bets -> Stages]
  /\ action \in [Actions -> Stages]
  /\ outcome \in [Bets -> Amount]
  /\ pendingReveal \subseteq revealed
  /\ wallet \in Nat
  /\ world \in Worlds

Settled(b) == outcome[b] # None

\* A bet under way holds its key, a tracked one the key it is tracked under; one that
\* openSession has not returned is only tracked because the game resumed it.
RoundOK(b) ==
  /\ stage[b] \in {"sending", "mined"} => <<"open", b>> \in ledger.active
  /\ b \in DOMAIN tracked =>
       /\ tracked[b] \in ledger.active /\ tracked[b] \in {<<"open", b>>, <<"resume", b>>}
       /\ \/ stage[b] \in {"returned", "misreported"}
          \/ stage[b] = "mined" /\ world.hasty /\ tracked[b] = <<"resume", b>>
  /\ stage[b] \in {"idle", "sending", "failed"} => ~Settled(b)
  /\ b \in revealed \cup indexed => Settled(b)
  /\ stage[b] = "mined" /\ Settled(b) => world.early
  /\ stage[b] = "misreported" => world.misreports

\* A stake is only pulled by an action of a round that is tracked and open.
ActionOK(a) ==
  /\ action[a] # "idle" => stage[a.bet] \in {"mined", "returned", "misreported"}
  /\ action[a] = "misreported" => world.misreports
  /\ action[a] = "sending" /\ a.extra # 0 =>
       a.bet \in DOMAIN tracked /\ ~Settled(a.bet) /\ world.mounts = 1 /\ ~world.early

Rounds == (\A b \in Bets : RoundOK(b)) /\ \A a \in Actions : ActionOK(a)

\* A round that its one host lets go of has been presented, or paid nothing.
OneMount ==
  world.mounts = 1 =>
    /\ mounted /\ mounts = 1 /\ orphans = {}
    /\ \A b \in Bets :
         /\ Plain =>
              /\ <<"resume", b>> \notin ledger.active
              /\ <<"open", b>> \in ledger.active =>
                   stage[b] \in {"sending", "mined"} \/ b \in DOMAIN tracked
         /\ stage[b] = "returned" =>
              \/ b \in DOMAIN tracked
              \/ Settled(b) /\ (b \in revealed \/ (outcome[b] = 0 /\ b \in indexed))

\* A read that would be adopted was made with no round on, and read what the
\* wallet holds now, or less.
ReadsOK ==
  \A r \in reads :
    /\ r.epoch <= ledger.epoch
    /\ r.epoch = ledger.epoch =>
         /\ ledger.active = {}
         /\ r.value # None => r.value <= wallet /\ (Plain => r.value = wallet)

\* Nothing happens before a balance is shown.
AtRest ==
  ledger.baseline = None =>
    /\ \A b \in Bets : stage[b] = "idle"
    /\ ledger.active = {} /\ ledger.adjustment = 0
    /\ wallet = Deposit /\ raw \in {None, Deposit}

\* The bets whose payouts may still be credited.  One that a hasty game resumed is
\* tracked anew when openSession returns, but it is revealed only once.
Due ==
  {b \in Bets : /\ Settled(b)
                /\ b \in DOMAIN tracked \/ (stage[b] = "mined" /\ b \notin orphans)
                /\ ~world.hasty \/ b \notin revealed \/ b \in pendingReveal}

\* What the wallet is ahead of the display by, for each bet and each action.
owed ==
  [b \in Bets |-> (IF stage[b] = "sending" THEN Stake ELSE 0)
                  - (IF stage[b] = "misreported" THEN Stake ELSE 0)
                  + (IF b \in Due THEN outcome[b] ELSE 0)]

pulled ==
  [a \in Actions |-> (IF action[a] = "sending" THEN a.extra ELSE 0)
                     - (IF action[a] = "misreported" THEN a.extra ELSE 0)]

Pulled == SumFunctionOnSet(pulled, Actions)

Total == SumFunctionOnSet(owed, Bets) + Pulled

Books ==
  ledger.baseline # None =>
    LET after == ledger.baseline + ledger.adjustment + Total
    IN  after <= wallet /\ (Plain => after = wallet)

IInv == TypeOK /\ Rounds /\ OneMount /\ ReadsOK /\ AtRest /\ Books

-----------------------------------------------------------------------------
(* The sum of what is owed.                                                *)

LEMMA WorldType ==
  ASSUME TypeOK
  PROVE  /\ world.calls \subseteq Actions /\ world.mounts \in Nat
         /\ world.early \in BOOLEAN /\ world.misreports \in BOOLEAN /\ world.hasty \in BOOLEAN
BY LedgerAssumption DEF TypeOK

LEMMA OwedType ==
  ASSUME TypeOK
  PROVE  \A b \in Bets : owed[b] \in Int
<1> SUFFICES ASSUME NEW b \in Bets PROVE owed[b] \in Int
  OBVIOUS
<1>1. /\ (IF stage[b] = "sending" THEN Stake ELSE 0) \in Int
      /\ (IF stage[b] = "misreported" THEN Stake ELSE 0) \in Int
      /\ (IF b \in Due THEN outcome[b] ELSE 0) \in Int
  BY LedgerAssumption DEF TypeOK, Amount, Due, Settled, None
<1>2. QED BY <1>1 DEF owed

\* What the actions have pulled changes by what those that move pull.
LEMMA PulledType ==
  /\ \A a \in Actions : pulled[a] \in Int
  /\ Pulled \in Int
<1>1. \A a \in Actions : pulled[a] \in Int
  BY LedgerAssumption DEF pulled
<1>2. QED BY <1>1, SumType, LedgerAssumption DEF Pulled

LEMMA PulledTypeNext ==
  /\ \A a \in Actions : pulled'[a] \in Int
  /\ Pulled' \in Int
<1>1. \A a \in Actions : pulled'[a] \in Int
  BY LedgerAssumption DEF pulled
<1>2. QED BY <1>1, SumType, LedgerAssumption DEF Pulled

LEMMA PulledStays ==
  ASSUME action' = action
  PROVE  Pulled' = Pulled
BY DEF Pulled, pulled

LEMMA PulledOfOne ==
  ASSUME NEW a \in Actions, \A c \in Actions \ {a} : action'[c] = action[c]
  PROVE  Pulled' = Pulled + pulled'[a] - pulled[a]
<1>1. IsFiniteSet(Actions)
  BY LedgerAssumption
<1>2. (\A c \in Actions : pulled[c] \in Int) /\ pulled'[a] \in Int
  BY PulledType, PulledTypeNext
<1>3. \A c \in Actions \ {a} : pulled'[c] = pulled[c]
  BY DEF pulled
<1>4. QED BY <1>1, <1>2, <1>3, SumUpdate DEF Pulled

LEMMA TotalType ==
  ASSUME TypeOK
  PROVE  Total \in Int
<1>1. SumFunctionOnSet(owed, Bets) \in Int
  BY OwedType, SumType, LedgerAssumption
<1>2. QED BY <1>1, PulledType DEF Total

LEMMA OwedTypeNext ==
  ASSUME TypeOK'
  PROVE  \A b \in Bets : owed'[b] \in Int
<1> SUFFICES ASSUME NEW b \in Bets PROVE owed'[b] \in Int
  OBVIOUS
<1>1. /\ (IF stage'[b] = "sending" THEN Stake ELSE 0) \in Int
      /\ (IF stage'[b] = "misreported" THEN Stake ELSE 0) \in Int
      /\ (IF b \in Due' THEN outcome'[b] ELSE 0) \in Int
  BY LedgerAssumption DEF TypeOK, Amount, Due, Settled, None
<1>2. QED BY <1>1 DEF owed

LEMMA TotalTypeNext ==
  ASSUME TypeOK'
  PROVE  Total' \in Int
<1>1. SumFunctionOnSet(owed', Bets) \in Int
  BY OwedTypeNext, SumType, LedgerAssumption
<1>2. QED BY <1>1, PulledTypeNext DEF Total

\* A step that touches one bet changes the total by what it owes.
LEMMA TotalOfOne ==
  ASSUME TypeOK, TypeOK', NEW b \in Bets, \A c \in Bets \ {b} : owed'[c] = owed[c],
         action' = action
  PROVE  Total' = Total + owed'[b] - owed[b]
<1> DEFINE S(f) == SumFunctionOnSet(f, Bets)
<1>1. IsFiniteSet(Bets)
  BY LedgerAssumption
<1>2. (\A c \in Bets : owed[c] \in Int) /\ owed'[b] \in Int
  BY OwedType, OwedTypeNext
<1>3. S(owed') = S(owed) + owed'[b] - owed[b] /\ S(owed) \in Int
  BY <1>1, <1>2, SumUpdate, SumType
<1>4. Total = S(owed) + Pulled /\ Total' = S(owed') + Pulled /\ Pulled \in Int
  BY PulledStays, PulledType DEF Total
<1> HIDE DEF S
<1>5. QED BY <1>2, <1>3, <1>4

\* One that touches none leaves it.
LEMMA TotalOfNone ==
  ASSUME \A c \in Bets : owed'[c] = owed[c], action' = action
  PROVE  Total' = Total
<1>1. SumFunctionOnSet(owed', Bets) = SumFunctionOnSet(owed, Bets)
  BY SumAgree, LedgerAssumption
<1>2. QED BY <1>1, PulledStays DEF Total

\* One that touches one action changes it by what that has pulled.
LEMMA TotalOfAction ==
  ASSUME TypeOK, \A c \in Bets : owed'[c] = owed[c],
         NEW a \in Actions, \A c \in Actions \ {a} : action'[c] = action[c]
  PROVE  Total' = Total + pulled'[a] - pulled[a]
<1> DEFINE S(f) == SumFunctionOnSet(f, Bets)
<1>1. S(owed') = S(owed)
  BY SumAgree, LedgerAssumption
<1>2. S(owed) \in Int /\ Pulled \in Int /\ pulled[a] \in Int /\ pulled'[a] \in Int
  BY OwedType, SumType, LedgerAssumption, PulledType, PulledTypeNext
<1>3. Total = S(owed) + Pulled /\ Total' = S(owed') + Pulled'
  BY DEF Total
<1>4. Pulled' = Pulled + pulled'[a] - pulled[a]
  BY PulledOfOne
<1> HIDE DEF S
<1>5. QED BY <1>1, <1>2, <1>3, <1>4

\* The total moves by what the rounds of E no longer owe.
LEMMA TotalOfSome ==
  ASSUME TypeOK, TypeOK', NEW E \in SUBSET Bets, action' = action,
         \A c \in E : outcome[c] \in Nat /\ owed'[c] = owed[c] - outcome[c],
         \A c \in Bets \ E : owed'[c] = owed[c]
  PROVE  Total = Total' + SumFunctionOnSet(outcome, E)
<1> DEFINE part == [c \in Bets |-> IF c \in E THEN outcome[c] ELSE 0]
           S(f) == SumFunctionOnSet(f, Bets)
<1>1. IsFiniteSet(Bets)
  BY LedgerAssumption
<1>2. SumFunctionOnSet(outcome, E) = S(part)
  BY <1>1, SumOfPart
<1>3. \A c \in Bets : owed'[c] \in Int /\ part[c] \in Int /\ owed[c] = owed'[c] + part[c]
  BY OwedType, OwedTypeNext
<1> HIDE DEF part
<1>4. S(owed) = S(owed') + S(part)
  BY <1>1, <1>3, SumPlus
<1>5. S(owed') \in Int /\ S(part) \in Int
  BY <1>1, <1>3, SumType
<1>6. Total = S(owed) + Pulled /\ Total' = S(owed') + Pulled /\ Pulled \in Int
  BY PulledStays, PulledType DEF Total
<1> HIDE DEF S
<1>7. QED BY <1>2, <1>4, <1>5, <1>6

-----------------------------------------------------------------------------
(* Steps that move no money.                                               *)

\* The books stay right when display and wallet move with what is owed.
LEMMA BooksMove ==
  ASSUME TypeOK, TypeOK', Books, world' = world, ledger'.baseline = ledger.baseline,
         NEW d \in Int, Total' = Total + d,
         ledger'.adjustment + d - wallet' <= ledger.adjustment - wallet,
         Plain => ledger'.adjustment + d - wallet' = ledger.adjustment - wallet
  PROVE  Books'
<1>1. Plain' <=> Plain
  BY DEF Plain
<1>2. Total \in Int
  BY TotalType
<1>3. /\ ledger.baseline \in Amount /\ ledger.adjustment \in Int /\ wallet \in Nat
      /\ ledger'.adjustment \in Int /\ wallet' \in Nat
  BY DEF TypeOK, LedgerState
<1>4. ASSUME ledger.baseline # None
      PROVE  /\ ledger'.baseline + ledger'.adjustment + Total' <= wallet'
             /\ Plain => ledger'.baseline + ledger'.adjustment + Total' = wallet'
  <2>1. /\ ledger.baseline + ledger.adjustment + Total <= wallet
        /\ Plain => ledger.baseline + ledger.adjustment + Total = wallet
    BY <1>4 DEF Books
  <2>2. ledger.baseline \in Int
    BY <1>3, <1>4 DEF Amount
  <2>3. QED BY <2>1, <2>2, <1>2, <1>3
<1>5. QED BY <1>1, <1>4 DEF Books

bets == <<stage, orphans, action, outcome, tracked, revealed, pendingReveal>>

LEMMA BooksStay ==
  ASSUME TypeOK, TypeOK', Books, UNCHANGED <<bets, wallet, world>>,
         ledger'.baseline = ledger.baseline, ledger'.adjustment = ledger.adjustment
  PROVE  Books'
<1>1. \A c \in Bets : owed'[c] = owed[c]
  BY DEF owed, Due, Settled, bets
<1>11. action' = action
  BY DEF bets
<1>2. Total' = Total + 0
  BY <1>1, <1>11, TotalOfNone, TotalType
<1>3. /\ ledger'.adjustment \in Int /\ wallet' \in Nat
      /\ ledger.adjustment \in Int /\ wallet \in Nat
  BY DEF TypeOK, LedgerState
<1> HIDE DEF Books, TypeOK, Plain
<1>4. wallet' = wallet /\ ledger'.adjustment = ledger.adjustment
  OBVIOUS
<1>5. ledger'.adjustment + 0 - wallet' = ledger.adjustment - wallet
  BY <1>3, <1>4
<1>6. ledger'.adjustment + 0 - wallet' <= ledger.adjustment - wallet
  BY <1>3, <1>4
<1>7. QED BY <1>2, <1>5, <1>6, BooksMove

\* Nor when some bets owe less than they did, which is then not exact.
LEMMA BooksDrop ==
  ASSUME TypeOK, TypeOK', Books, world' = world, wallet' = wallet, action' = action,
         ledger'.baseline = ledger.baseline, ledger'.adjustment = ledger.adjustment,
         \A b \in Bets : owed'[b] <= owed[b] /\ (Plain => owed'[b] = owed[b])
  PROVE  Books'
<1> DEFINE S(f) == SumFunctionOnSet(f, Bets)
           d == S(owed') - S(owed)
<1>1. \A b \in Bets : owed[b] \in Int /\ owed'[b] \in Int
  BY OwedType, OwedTypeNext
<1>2. S(owed') <= S(owed) /\ S(owed') \in Int /\ S(owed) \in Int
  BY <1>1, SumLeq, SumType, LedgerAssumption
<1>3. Plain => S(owed') = S(owed)
  BY SumAgree, LedgerAssumption
<1>4. Total = S(owed) + Pulled /\ Total' = S(owed') + Pulled /\ Pulled \in Int
  BY PulledStays, PulledType DEF Total
<1> HIDE DEF S
<1>5. d \in Int /\ d <= 0 /\ Total' = Total + d /\ (Plain => d = 0)
  BY <1>2, <1>3, <1>4
<1> HIDE DEF d
<1>6. ledger.adjustment \in Int /\ wallet \in Nat
  BY DEF TypeOK, LedgerState
<1>7. /\ ledger'.adjustment + d - wallet' <= ledger.adjustment - wallet
      /\ Plain => ledger'.adjustment + d - wallet' = ledger.adjustment - wallet
  BY <1>5, <1>6
<1>8. QED BY <1>5, <1>7, BooksMove

\* What a bet's session, its host and its round are does not change.
still == <<bets, indexed, wallet, world>>

LEMMA RoundsStay ==
  ASSUME Rounds, UNCHANGED <<still, mounted, mounts>>, ledger'.active = ledger.active, OneMount
  PROVE  Rounds' /\ OneMount'
<1>1. Rounds'
  BY DEF Rounds, RoundOK, ActionOK, Settled, still, bets
<1>2. OneMount'
  BY DEF OneMount, Plain, Settled, still, bets
<1>3. QED BY <1>1, <1>2

LEMMA TimerStep ==
  ASSUME IInv, ReconcileTimer
  PROVE  IInv'
<1> USE DEF IInv, ReconcileTimer, host, rounds, sends, chain, feed
<1>1. /\ ledger'.active = ledger.active /\ ledger'.baseline = ledger.baseline
      /\ ledger'.adjustment = ledger.adjustment /\ ledger'.epoch = ledger.epoch
  BY DEF TypeOK, LedgerState
<1>2. TypeOK'
  <2>1. ledger' \in LedgerState
    BY DEF TypeOK, LedgerState
  <2>2. reads' \subseteq [epoch : Nat, value : Amount]
    BY DEF TypeOK, LedgerState, Amount
  <2>3. QED BY <2>1, <2>2 DEF TypeOK
<1>3. Rounds' /\ OneMount'
  BY <1>1, RoundsStay DEF still, bets
<1>4. ReadsOK'
  BY <1>1 DEF ReadsOK, Plain, TypeOK, LedgerState
<1>5. AtRest'
  BY <1>1 DEF AtRest
<1>6. Books'
  BY <1>1, <1>2, BooksStay DEF bets
<1>7. QED BY <1>2, <1>3, <1>4, <1>5, <1>6

LEMMA ReadStep ==
  ASSUME IInv, NEW r \in reads, ReadBalance(r) \/ ReadFails(r)
  PROVE  IInv'
<1> USE DEF IInv, ReadBalance, ReadFails, host, rounds, sends, chain, feed
<1>1. ledger' = ledger /\ UNCHANGED <<still, mounted, mounts, raw, effectDue>>
  BY DEF still, bets
<1>2. reads' \subseteq reads \cup {[r EXCEPT !.value = wallet]}
  OBVIOUS
<1>3. TypeOK'
  <2>1. reads' \subseteq [epoch : Nat, value : Amount]
    BY <1>2 DEF TypeOK, Amount
  <2>2. QED BY <1>1, <2>1 DEF TypeOK, still, bets
<1>4. Rounds' /\ OneMount'
  BY <1>1, RoundsStay
<1>5. ReadsOK'
  <2>1. Plain' <=> Plain
    BY <1>1 DEF Plain, still
  <2>2. [r EXCEPT !.value = wallet].epoch = r.epoch /\ [r EXCEPT !.value = wallet].value = wallet
    BY DEF TypeOK
  <2>3. QED BY <1>1, <1>2, <2>1, <2>2 DEF ReadsOK, still, TypeOK
<1>6. AtRest'
  BY <1>1 DEF AtRest, still, bets
<1>7. Books'
  BY <1>1, <1>3, BooksStay DEF still
<1>8. QED BY <1>3, <1>4, <1>5, <1>6, <1>7

\* The read at mount, a mount, and a settlement that arrives.
LEMMA NewsStep ==
  ASSUME IInv, RawBalance \/ Mount \/ \E b \in Bets : PushSettlement(b) \/ IndexSettlement(b)
  PROVE  IInv'
<1> USE DEF IInv, RawBalance, Mount, PushSettlement, IndexSettlement, host, rounds, sends, chain, feed
<1>1. ledger' = ledger /\ reads' = reads /\ UNCHANGED <<bets, wallet, world>>
  BY DEF bets
<1>2. /\ indexed \subseteq indexed'
      /\ \A b \in indexed' : b \in indexed \/ (b \in Bets /\ Settled(b))
  BY DEF Settled
<1>3. mounted' \in BOOLEAN /\ mounts' \in Nat \ {0}
  <2>1. mounts \in Nat \ {0} /\ mounted \in BOOLEAN
    BY DEF TypeOK
  <2>2. CASE Mount
    <3>1. mounts' = mounts + 1 /\ mounted' = TRUE
      BY <2>2
    <3>2. QED BY <2>1, <3>1
  <2>3. CASE mounts' = mounts /\ mounted' = mounted
    BY <2>1, <2>3
  <2>4. QED BY <2>2, <2>3
<1>4. raw' \in Amount /\ (AtRest => AtRest')
  <2>1. CASE RawBalance
    BY <2>1 DEF AtRest, TypeOK, Amount
  <2>2. CASE raw' = raw
    BY <1>1, <2>2 DEF AtRest, TypeOK, bets
  <2>3. QED BY <2>1, <2>2
<1>5. TypeOK'
  BY <1>1, <1>3, <1>4 DEF TypeOK, bets
<1>6. Rounds'
  BY <1>1, <1>2 DEF Rounds, RoundOK, ActionOK, Settled, bets
<1>7. OneMount'
  <2>1. world.mounts = 1 => mounted' = mounted /\ mounts' = mounts
    BY DEF OneMount
  <2>2. QED BY <1>1, <1>2, <2>1 DEF OneMount, Plain, Settled, bets
<1>8. ReadsOK'
  BY <1>1 DEF ReadsOK, Plain
<1>9. Books'
  BY <1>1, <1>5, BooksStay
<1>10. QED BY <1>4, <1>5, <1>6, <1>7, <1>8, <1>9

-----------------------------------------------------------------------------
(* Adopting a balance.                                                     *)

\* While no round is on, nothing is owed but the stakes put back.
LEMMA Flat ==
  ASSUME TypeOK, Rounds, ledger.active = {}
  PROVE  Total <= 0 /\ (Plain => Total = 0)
<1> DEFINE S(f) == SumFunctionOnSet(f, Bets)
<1>1. /\ IsFiniteSet(Bets) /\ Stake \in Nat /\ IsFiniteSet(Actions)
      /\ \A a \in Actions : a.bet \in Bets /\ a.extra \in Nat
  BY LedgerAssumption
<1>2. ASSUME NEW b \in Bets
      PROVE  owed[b] = (IF stage[b] = "misreported" THEN -Stake ELSE 0) /\ b \notin DOMAIN tracked
  <2>1. stage[b] \notin {"sending", "mined"} /\ b \notin DOMAIN tracked
    BY DEF Rounds, RoundOK
  <2>2. b \notin Due
    BY <2>1 DEF Due
  <2>3. owed[b] = 0 - (IF stage[b] = "misreported" THEN Stake ELSE 0) + 0
    BY <2>1, <2>2 DEF owed
  <2>4. QED BY <1>1, <2>1, <2>3
<1>3. ASSUME NEW a \in Actions
      PROVE  pulled[a] <= 0 /\ (Plain => pulled[a] = 0)
  <2>1. ActionOK(a) /\ a.bet \notin DOMAIN tracked /\ a.extra \in Nat
    BY <1>1, <1>2 DEF Rounds
  <2>2. action[a] = "sending" => a.extra = 0
    BY <2>1 DEF ActionOK
  <2>3. Plain => action[a] # "misreported"
    BY <2>1 DEF ActionOK, Plain
  <2>4. QED BY <2>1, <2>2, <2>3 DEF pulled
<1> DEFINE zero == [b \in Bets |-> 0]
           none == [a \in Actions |-> 0]
<1>4. S(zero) = 0 /\ SumFunctionOnSet(none, Actions) = 0
  BY <1>1, SumZero
<1>5. Pulled <= 0 /\ Pulled \in Int
  <2>1. \A a \in Actions : pulled[a] \in Int /\ none[a] \in Int /\ pulled[a] <= none[a]
    BY <1>3, PulledType
  <2> HIDE DEF none
  <2>2. QED BY <1>1, <1>4, <2>1, SumLeq, PulledType DEF Pulled
<1>6. S(owed) <= 0 /\ S(owed) \in Int
  <2>1. \A b \in Bets : owed[b] \in Int /\ zero[b] \in Int /\ owed[b] <= zero[b]
    BY <1>1, <1>2
  <2> HIDE DEF zero
  <2>2. QED BY <1>1, <1>4, <2>1, SumLeq, SumType
<1>7. ASSUME Plain PROVE S(owed) = 0 /\ Pulled = 0
  <2>1. \A b \in Bets : owed[b] = 0
    BY <1>2, <1>7 DEF Rounds, RoundOK, Plain
  <2>2. QED BY <1>1, <1>3, <1>7, <2>1, SumZero DEF Pulled
<1>8. Total = S(owed) + Pulled
  BY DEF Total
<1> HIDE DEF S
<1>9. QED BY <1>5, <1>6, <1>7, <1>8

\* A step that sets the baseline to what the wallet holds, or less, and clears
\* the adjustment, while no round is on.
LEMMA BooksOpen ==
  ASSUME TypeOK, TypeOK', Rounds, ledger.active = {}, UNCHANGED <<bets, wallet, world>>,
         ledger'.adjustment = 0, ledger'.baseline \in Nat,
         ledger'.baseline <= wallet, Plain => ledger'.baseline = wallet
  PROVE  Books'
<1>1. Total' = Total
  <2>1. \A c \in Bets : owed'[c] = owed[c]
    BY DEF owed, Due, Settled, bets
  <2>2. action' = action
    BY DEF bets
  <2>3. QED BY <2>1, <2>2, TotalOfNone
<1>2. Total \in Int /\ Total <= 0 /\ (Plain => Total = 0)
  BY Flat, TotalType
<1>3. Plain' <=> Plain
  BY DEF Plain
<1>4. wallet' = wallet /\ wallet \in Nat
  BY DEF TypeOK
<1> HIDE DEF TypeOK, Plain
<1>5. /\ ledger'.baseline + ledger'.adjustment + Total' <= wallet'
      /\ Plain => ledger'.baseline + ledger'.adjustment + Total' = wallet'
  BY <1>1, <1>2, <1>4
<1>6. QED BY <1>3, <1>5 DEF Books

LEMMA SeedStep ==
  ASSUME IInv, SeedBaseline
  PROVE  IInv'
<1> USE DEF IInv, SeedBaseline, host, rounds, sends, chain, feed
<1>1. /\ ledger'.active = ledger.active /\ ledger'.epoch = ledger.epoch
      /\ ledger'.adjustment = 0 /\ ledger'.baseline = raw /\ ledger'.timer = ledger.timer
      /\ ledger.active = {} /\ ledger.baseline = None
  BY DEF TypeOK, LedgerState
<1>2. UNCHANGED <<still, reads, mounted, mounts, raw, effectDue>>
  BY DEF still, bets
<1>3. raw = wallet /\ raw \in Nat
  BY DEF AtRest, TypeOK, Amount
<1>4. TypeOK'
  <2>1. ledger' \in LedgerState
    BY <1>3 DEF TypeOK, LedgerState, Amount
  <2>2. QED BY <1>2, <2>1 DEF TypeOK, still, bets
<1>5. Rounds' /\ OneMount'
  BY <1>1, <1>2, RoundsStay
<1>6. ReadsOK'
  BY <1>1, <1>2 DEF ReadsOK, Plain, still
<1>7. AtRest'
  BY <1>1, <1>3 DEF AtRest, None
<1>8. Books'
  BY <1>1, <1>2, <1>3, <1>4, BooksOpen DEF still, TypeOK
<1>9. QED BY <1>4, <1>5, <1>6, <1>7, <1>8

LEMMA AdoptedType ==
  ASSUME NEW l \in LedgerState, NEW v \in Nat
  PROVE  [l EXCEPT !.baseline = v, !.adjustment = 0] \in LedgerState
<1> DEFINE m == [l EXCEPT !.baseline = v]
<1>1. m \in LedgerState
  BY DEF LedgerState, Amount
<1>2. [l EXCEPT !.baseline = v, !.adjustment = 0] = [m EXCEPT !.adjustment = 0]
  BY DEF LedgerState
<1> HIDE DEF m
<1>3. [m EXCEPT !.adjustment = 0] \in LedgerState
  BY <1>1 DEF LedgerState
<1>4. QED BY <1>2, <1>3

LEMMA ReconcileStep ==
  ASSUME IInv, NEW r \in reads, Reconcile(r)
  PROVE  IInv'
<1> USE DEF IInv, Reconcile, host, rounds, sends, chain, feed
<1>1. UNCHANGED <<still, mounted, mounts, raw, effectDue>> /\ reads' \subseteq reads
  BY DEF still, bets
<1>2. CASE ledger.epoch = r.epoch /\ ledger.active = {}
  <2>1. /\ ledger'.active = ledger.active /\ ledger'.epoch = ledger.epoch
        /\ ledger'.adjustment = 0 /\ ledger'.baseline = r.value /\ ledger'.timer = ledger.timer
        /\ ledger' = [ledger EXCEPT !.baseline = r.value, !.adjustment = 0]
    BY <1>2 DEF TypeOK, LedgerState
  <2>2. r.value \in Nat /\ r.value <= wallet /\ (Plain => r.value = wallet)
    BY <1>2 DEF ReadsOK, TypeOK, Amount
  <2>3. TypeOK'
    <3>1. ledger' \in LedgerState
      BY <2>1, <2>2, AdoptedType DEF TypeOK
    <3>2. QED BY <1>1, <3>1 DEF TypeOK, still, bets
  <2>4. Rounds' /\ OneMount'
    BY <1>1, <2>1, RoundsStay
  <2>5. ReadsOK'
    BY <1>1, <2>1 DEF ReadsOK, Plain, still
  <2>6. AtRest'
    BY <2>1, <2>2 DEF AtRest, None
  <2>7. Books'
    BY <1>1, <1>2, <2>1, <2>2, <2>3, BooksOpen DEF still
  <2>8. QED BY <2>3, <2>4, <2>5, <2>6, <2>7
<1>3. CASE ~(ledger.epoch = r.epoch /\ ledger.active = {})
  <2>1. ledger' = ledger
    BY <1>3
  <2>2. TypeOK'
    BY <1>1, <2>1 DEF TypeOK, still, bets
  <2>3. Rounds' /\ OneMount'
    BY <1>1, <2>1, RoundsStay
  <2>4. ReadsOK'
    BY <1>1, <2>1 DEF ReadsOK, Plain, still
  <2>5. AtRest'
    BY <1>1, <2>1 DEF AtRest, still, bets
  <2>6. Books'
    BY <1>1, <2>1, <2>2, BooksStay DEF still
  <2>7. QED BY <2>2, <2>3, <2>4, <2>5, <2>6
<1>4. QED BY <1>2, <1>3

-----------------------------------------------------------------------------
(* Rounds that end.                                                        *)

Ended(l, keys) == {b \in DOMAIN keys : keys[b] \in l.active}

LEMMA RoundsEndEffect ==
  ASSUME NEW l \in LedgerState, NEW keys, DOMAIN keys \subseteq Bets,
         NEW payouts, \A b \in Ended(l, keys) : payouts[b] \in Int
  PROVE  /\ RoundsEnd(l, keys, payouts) \in LedgerState
         /\ RoundsEnd(l, keys, payouts).baseline = l.baseline
         /\ RoundsEnd(l, keys, payouts).epoch = l.epoch
         /\ RoundsEnd(l, keys, payouts).active = l.active \ {keys[b] : b \in DOMAIN keys}
         /\ RoundsEnd(l, keys, payouts).adjustment
              = l.adjustment + SumFunctionOnSet(payouts, Ended(l, keys))
<1> DEFINE sum == SumFunctionOnSet(payouts, Ended(l, keys))
           gone == {keys[b] : b \in DOMAIN keys}
           last == Ended(l, keys) # {} /\ l.active \subseteq gone
           timer == l.timer \/ last
           m == [l EXCEPT !.active = @ \ gone, !.adjustment = @ + sum, !.timer = @ \/ last]
<1>1. RoundsEnd(l, keys, payouts) = m
  BY Zenon DEF RoundsEnd, Ended, Range
<1>2. sum \in Int
  <2>1. IsFiniteSet(Ended(l, keys))
    BY FS_Subset, LedgerAssumption DEF Ended
  <2>2. QED BY <2>1, SumType
<1> HIDE DEF sum, gone, last
<1>3. l.active \ gone \in SUBSET RoundKey /\ l.adjustment + sum \in Int /\ l.epoch \in Nat
      /\ l.baseline \in Amount
  BY <1>2 DEF LedgerState
<1>4. timer \in BOOLEAN
  OBVIOUS
<1> DEFINE m1 == [l EXCEPT !.active = @ \ gone]
           m2 == [m1 EXCEPT !.adjustment = @ + sum]
<1>5. m1 \in LedgerState /\ m1.adjustment = l.adjustment /\ m1.active = l.active \ gone
      /\ m1.baseline = l.baseline /\ m1.epoch = l.epoch /\ m1.timer = l.timer
  BY <1>3 DEF LedgerState
<1>6. m = [m2 EXCEPT !.timer = timer]
  BY DEF LedgerState
<1> HIDE DEF m1
<1>7. m2 \in LedgerState /\ m2.adjustment = l.adjustment + sum /\ m2.active = l.active \ gone
      /\ m2.baseline = l.baseline /\ m2.epoch = l.epoch
  BY <1>3, <1>5 DEF LedgerState
<1> HIDE DEF m, m2, timer
<1>8. /\ m \in LedgerState
      /\ m.baseline = l.baseline /\ m.epoch = l.epoch /\ m.active = l.active \ gone
      /\ m.adjustment = l.adjustment + sum
  BY <1>4, <1>6, <1>7 DEF LedgerState
<1>9. QED BY <1>1, <1>8 DEF sum, gone

LEMMA EndRoundsKeeps ==
  ASSUME IInv, NEW E \in SUBSET DOMAIN tracked, EndRounds(E),
         UNCHANGED <<stage, orphans, action, outcome, indexed, wallet, world, reads,
                     mounted, mounts, raw>>,
         revealed \subseteq revealed', revealed' \subseteq revealed \cup E,
         \A b \in E : Settled(b) /\ (b \in revealed' \/ (outcome[b] = 0 /\ b \in indexed)),
         \A b \in E : b \notin revealed \/ b \in pendingReveal \/ outcome[b] = 0
  PROVE  IInv'
<1> DEFINE keys == Restrict(tracked, E)
           gone == {keys[b] : b \in DOMAIN keys}
<1>1. DOMAIN keys = E /\ \A b \in E : keys[b] = tracked[b]
  BY DEF Restrict
<1>2. DOMAIN tracked' = DOMAIN tracked \ E /\ \A b \in DOMAIN tracked' : tracked'[b] = tracked[b]
  BY DEF EndRounds, Restrict
<1>3. E \subseteq Bets /\ \A b \in E : tracked[b] \in ledger.active /\ outcome[b] \in Nat
  BY DEF IInv, TypeOK, Rounds, RoundOK, Settled, Amount
<1>4. ledger' = RoundsEnd(ledger, keys, outcome)
  BY Zenon DEF EndRounds
<1> HIDE DEF keys
<1>5. Ended(ledger, keys) = E
  BY <1>1, <1>3 DEF Ended
<1>6. /\ ledger' \in LedgerState
      /\ ledger'.baseline = ledger.baseline /\ ledger'.epoch = ledger.epoch
      /\ ledger'.active = ledger.active \ gone
      /\ ledger'.adjustment = ledger.adjustment + SumFunctionOnSet(outcome, E)
  <2>1. ledger \in LedgerState /\ DOMAIN keys \subseteq Bets
    BY <1>1, <1>3 DEF IInv, TypeOK
  <2>2. \A b \in Ended(ledger, keys) : outcome[b] \in Int
    BY <1>3, <1>5
  <2> DEFINE m == RoundsEnd(ledger, keys, outcome)
  <2>3. /\ m \in LedgerState
        /\ m.baseline = ledger.baseline /\ m.epoch = ledger.epoch
        /\ m.active = ledger.active \ {keys[b] : b \in DOMAIN keys}
        /\ m.adjustment = ledger.adjustment + SumFunctionOnSet(outcome, Ended(ledger, keys))
    BY <2>1, <2>2, RoundsEndEffect
  <2> HIDE DEF m
  <2>4. SumFunctionOnSet(outcome, Ended(ledger, keys)) = SumFunctionOnSet(outcome, E)
    BY <1>5
  <2>5. ledger' = m
    BY <1>4 DEF m
  <2>6. QED BY <2>3, <2>4, <2>5
<1>7. \A k \in gone : \E b \in E : k = tracked[b] /\ k \in {<<"open", b>>, <<"resume", b>>}
  <2>1. \A b \in E : tracked[b] \in {<<"open", b>>, <<"resume", b>>}
    <3>1. SUFFICES ASSUME NEW b \in E PROVE tracked[b] \in {<<"open", b>>, <<"resume", b>>}
      OBVIOUS
    <3>2. b \in DOMAIN tracked /\ RoundOK(b)
      BY <1>3, <3>1 DEF IInv, Rounds
    <3>3. QED BY <3>2 DEF RoundOK
  <2>2. QED BY <1>1, <2>1
<1>8. \A b \in E : tracked[b] \in gone
  BY <1>1
<1> HIDE DEF gone
<1>9. pendingReveal' \subseteq revealed'
  BY DEF EndRounds, IInv, TypeOK
<1>10. TypeOK'
  BY <1>2, <1>6, <1>9 DEF IInv, TypeOK
<1>11. \A b \in Bets \ E : \A k \in {<<"open", b>>, <<"resume", b>>} : k \notin gone
  <2>1. SUFFICES ASSUME NEW b \in Bets \ E, NEW k \in {<<"open", b>>, <<"resume", b>>}, k \in gone
                 PROVE  FALSE
    OBVIOUS
  <2>2. PICK c \in E : k \in {<<"open", c>>, <<"resume", c>>}
    BY <1>7, <2>1
  <2>3. k[2] = b /\ k[2] = c
    BY <2>1, <2>2
  <2>4. QED BY <2>3
<1>12. ASSUME NEW b \in Bets PROVE RoundOK(b)'
  <2>2. RoundOK(b)
    BY DEF IInv, Rounds
  <2>3. stage[b] \in {"sending", "mined"} => <<"open", b>> \in ledger'.active
    <3> SUFFICES ASSUME stage[b] \in {"sending", "mined"}, <<"open", b>> \in gone PROVE FALSE
      BY <1>6, <2>2 DEF RoundOK
    <3>1. PICK c \in E : <<"open", b>> = tracked[c] /\ tracked[c] \in {<<"open", c>>, <<"resume", c>>}
      BY <1>7
    <3>2. tracked[c][2] = c /\ tracked[c][2] = b
      BY <3>1
    <3>3. c \in DOMAIN tracked /\ c = b
      BY <3>2
    <3>4. tracked[b] = <<"resume", b>>
      BY <2>2, <3>3 DEF RoundOK
    <3>5. tracked[b][1] = "open" /\ tracked[b][1] = "resume"
      BY <3>1, <3>3, <3>4
    <3>6. QED BY <3>5
  <2>4. b \in DOMAIN tracked' => b \notin E /\ tracked'[b] \in ledger'.active /\ tracked'[b] = tracked[b]
    <3>1. SUFFICES ASSUME b \in DOMAIN tracked'
                   PROVE  b \notin E /\ tracked'[b] \in ledger'.active /\ tracked'[b] = tracked[b]
      OBVIOUS
    <3>2. b \in DOMAIN tracked /\ b \notin E /\ tracked'[b] = tracked[b]
      BY <1>2, <3>1
    <3>3. tracked[b] \in ledger.active /\ tracked[b] \in {<<"open", b>>, <<"resume", b>>}
      BY <2>2, <3>2 DEF RoundOK
    <3>4. tracked[b] \notin gone
      BY <1>11, <3>2, <3>3
    <3>5. QED BY <1>6, <3>2, <3>3, <3>4
  <2>5. QED BY <1>2, <2>2, <2>3, <2>4 DEF RoundOK, Settled
<1>121. Rounds'
  <2>1. \A a \in Actions : ActionOK(a)'
    <3>1. \A a \in Actions : ActionOK(a)
      BY DEF IInv, Rounds
    <3>2. QED BY <1>2, <3>1 DEF ActionOK, Settled
  <2>2. QED BY <1>12, <2>1 DEF Rounds
<1>13. OneMount'
  <2>1. SUFFICES ASSUME world.mounts = 1, NEW b \in Bets
                 PROVE  /\ Plain =>
                             /\ <<"resume", b>> \notin ledger'.active
                             /\ <<"open", b>> \in ledger'.active =>
                                  stage[b] \in {"sending", "mined"} \/ b \in DOMAIN tracked'
                        /\ stage[b] = "returned" =>
                             \/ b \in DOMAIN tracked'
                             \/ Settled(b) /\ (b \in revealed' \/ (outcome[b] = 0 /\ b \in indexed))
    BY DEF IInv, OneMount, Plain, Settled
  <2>2. /\ Plain =>
             /\ <<"resume", b>> \notin ledger.active
             /\ <<"open", b>> \in ledger.active => stage[b] \in {"sending", "mined"} \/ b \in DOMAIN tracked
        /\ stage[b] = "returned" =>
             \/ b \in DOMAIN tracked
             \/ Settled(b) /\ (b \in revealed \/ (outcome[b] = 0 /\ b \in indexed))
    BY <2>1 DEF IInv, OneMount
  <2>3. b \in E /\ Plain => tracked[b] = <<"open", b>>
    BY <1>3, <2>2 DEF IInv, Rounds, RoundOK
  <2>4. b \in DOMAIN tracked' \/ b \notin DOMAIN tracked \/ b \in E
    BY <1>2
  <2>5. QED BY <1>6, <1>8, <2>2, <2>3, <2>4
<1>14. ReadsOK'
  BY <1>6 DEF IInv, ReadsOK, Plain
<1>15. AtRest'
  <2>1. SUFFICES ASSUME ledger.baseline = None
                 PROVE  ledger'.active = {} /\ ledger'.adjustment = 0
    BY <1>6 DEF IInv, AtRest
  <2>2. E = {} /\ ledger.active = {} /\ ledger.adjustment = 0
    BY <1>3, <2>1 DEF IInv, AtRest
  <2>3. SumFunctionOnSet(outcome, E) = 0
    BY <2>2, SumEmpty
  <2>4. QED BY <1>6, <2>2, <2>3
<1>16. Books'
  <2>1. pendingReveal' = pendingReveal \ E
    BY DEF EndRounds
  <2>2. \A c \in Bets \ E : c \in Due' <=> c \in Due
    BY <1>2, <2>1 DEF Due, Settled
  <2>21. \A c \in E : /\ outcome[c] # 0 => c \in Due
                      /\ outcome[c] # 0 => c \notin Due'
    <3> SUFFICES ASSUME NEW c \in E, outcome[c] # 0 PROVE c \in Due /\ c \notin Due'
      OBVIOUS
    <3>1. c \in Due
      BY <1>3 DEF Due
    <3>2. c \in revealed' /\ c \notin pendingReveal' /\ c \notin DOMAIN tracked'
      BY <1>2, <2>1
    <3>3. stage[c] = "mined" => world.hasty
      BY <1>3 DEF IInv, Rounds, RoundOK
    <3>4. c \notin Due'
      BY <3>2, <3>3 DEF Due
    <3>5. QED BY <3>1, <3>4
  <2>3. \A c \in E : outcome[c] \in Nat /\ owed'[c] = owed[c] - outcome[c]
    <3>1. SUFFICES ASSUME NEW c \in E PROVE owed'[c] = owed[c] - outcome[c]
      BY <1>3
    <3> DEFINE rest == (IF stage[c] = "sending" THEN Stake ELSE 0)
                       - (IF stage[c] = "misreported" THEN Stake ELSE 0)
    <3>2. owed[c] = rest + outcome[c] /\ owed'[c] = rest + 0
      BY <1>3, <2>21 DEF owed
    <3>3. rest \in Int
      BY <1>3, LedgerAssumption
    <3> HIDE DEF rest
    <3>4. QED BY <1>3, <3>2, <3>3
  <2>4. \A c \in Bets \ E : owed'[c] = owed[c]
    BY <2>2 DEF owed
  <2>5. Total = Total' + SumFunctionOnSet(outcome, E)
    BY <1>3, <1>10, <2>3, <2>4, TotalOfSome DEF IInv
  <2> DEFINE sum == SumFunctionOnSet(outcome, E)
  <2>6. sum \in Int /\ Total \in Int /\ Total' \in Int
    <3>1. IsFiniteSet(E)
      BY <1>3, FS_Subset, LedgerAssumption
    <3>2. QED BY <1>3, <1>10, <3>1, SumType, TotalType, TotalTypeNext DEF IInv
  <2> HIDE DEF sum
  <2>7. Total' = Total + (0 - sum)
    BY <2>5, <2>6 DEF sum
  <2>8. ledger.adjustment \in Int /\ wallet \in Nat /\ wallet' = wallet
    BY DEF IInv, TypeOK, LedgerState
  <2>9. ledger'.adjustment + (0 - sum) - wallet' = ledger.adjustment - wallet
    BY <1>6, <2>6, <2>8 DEF sum
  <2>10. ledger'.adjustment + (0 - sum) - wallet' <= ledger.adjustment - wallet
    BY <2>8, <2>9
  <2>11. (0 - sum) \in Int
    BY <2>6
  <2>12. QED BY <1>6, <1>10, <2>7, <2>9, <2>10, <2>11, BooksMove, Zenon DEF IInv
<1>17. QED BY <1>10, <1>121, <1>13, <1>14, <1>15, <1>16 DEF IInv

LEMMA SettleRoundsStep ==
  ASSUME IInv, SettleTrackedRounds
  PROVE  IInv'
<1> DEFINE E == {b \in DOMAIN tracked \cap indexed : b \in pendingReveal \/ outcome[b] = 0}
<1>1. EndRounds(E) /\ E \in SUBSET DOMAIN tracked
  BY DEF SettleTrackedRounds
<1>2. UNCHANGED <<stage, orphans, action, outcome, indexed, wallet, world, reads,
                  mounted, mounts, raw, revealed>>
  BY DEF SettleTrackedRounds, host, sends, chain, feed
<1>3. \A b \in E : /\ Settled(b) /\ (b \in revealed' \/ (outcome[b] = 0 /\ b \in indexed))
                   /\ b \in pendingReveal \/ outcome[b] = 0
  BY <1>2 DEF IInv, TypeOK, Rounds, RoundOK
<1> HIDE DEF E
<1>4. QED BY <1>1, <1>2, <1>3, EndRoundsKeeps

LEMMA RevealStep ==
  ASSUME IInv, NEW b \in Bets, RevealOutcome(b)
  PROVE  IInv'
<1>1. /\ UNCHANGED <<stage, orphans, action, outcome, indexed, wallet, world, reads,
                     mounted, mounts, raw, effectDue>>
      /\ revealed' = revealed \cup {b} /\ Settled(b)
  BY DEF RevealOutcome, host, sends, chain, feed, Settled
<1>11. b \notin revealed
  BY DEF RevealOutcome
<1>2. CASE EndRounds({b}) /\ b \in DOMAIN tracked
  <2>1. {b} \in SUBSET DOMAIN tracked
    BY <1>2
  <2>2. QED BY <1>1, <1>11, <1>2, <2>1, EndRoundsKeeps
<1>3. CASE /\ ledger' = ledger /\ tracked' = tracked
           /\ \/ b \notin DOMAIN tracked /\ pendingReveal' = pendingReveal
              \/ pendingReveal' = pendingReveal \cup {b}
  <2>1. TypeOK'
    BY <1>1, <1>3 DEF IInv, TypeOK
  <2>2. Rounds'
    BY <1>1, <1>3 DEF IInv, Rounds, RoundOK, ActionOK, Settled
  <2>3. OneMount'
    BY <1>1, <1>3 DEF IInv, OneMount, Plain, Settled
  <2>4. ReadsOK'
    BY <1>1, <1>3 DEF IInv, ReadsOK, Plain
  <2>5. AtRest'
    BY <1>1, <1>3 DEF IInv, AtRest
  <2>6. Books'
    <3>1. ASSUME NEW c \in Bets PROVE owed'[c] <= owed[c] /\ (Plain => owed'[c] = owed[c])
      <4> DEFINE rest == (IF stage[c] = "sending" THEN Stake ELSE 0)
                         - (IF stage[c] = "misreported" THEN Stake ELSE 0)
                 due == IF c \in Due THEN outcome[c] ELSE 0
                 next == IF c \in Due' THEN outcome[c] ELSE 0
      <4>1. c \in Due' => c \in Due
        BY <1>1, <1>11, <1>3 DEF Due, Settled
      <4>2. Plain => (c \in Due' <=> c \in Due)
        BY <1>1, <1>3 DEF Due, Settled, Plain
      <4>3. owed[c] = rest + due /\ owed'[c] = rest + next
        BY <1>1 DEF owed
      <4>4. rest \in Int /\ due \in Nat /\ next \in Nat
        BY <4>1, LedgerAssumption DEF IInv, TypeOK, Amount, Due, Settled
      <4>5. next <= due /\ (Plain => next = due)
        BY <4>1, <4>2, <4>4
      <4> HIDE DEF rest, due, next
      <4>6. QED BY <4>3, <4>4, <4>5
    <3>2. QED BY <1>1, <1>3, <2>1, <3>1, BooksDrop DEF IInv
  <2>7. QED BY <2>1, <2>2, <2>3, <2>4, <2>5, <2>6 DEF IInv
<1>4. QED BY <1>2, <1>3 DEF RevealOutcome, rounds

LEMMA UnmountStep ==
  ASSUME IInv, Unmount
  PROVE  IInv'
<1>1. /\ UNCHANGED <<stage, action, outcome, indexed, revealed, wallet, world, reads, mounts>>
      /\ mounted' = FALSE /\ raw' = None /\ effectDue' = FALSE /\ pendingReveal' = {}
      /\ ledger' = RoundsEnd(ledger, tracked, Nothing)
      /\ orphans' = orphans \cup {b \in Bets : stage[b] \in {"sending", "mined"}}
  BY Zenon DEF Unmount, chain
<1>2. DOMAIN tracked' = {}
  BY DEF Unmount
<1>3. world.mounts # 1
  <2>1. mounts \in Nat \ {0} /\ mounts < world.mounts
    BY DEF Unmount, IInv, TypeOK
  <2>2. QED BY <2>1
<1> DEFINE gone == {tracked[b] : b \in DOMAIN tracked}
<1>4. /\ ledger' \in LedgerState
      /\ ledger'.baseline = ledger.baseline /\ ledger'.epoch = ledger.epoch
      /\ ledger'.active = ledger.active \ gone
      /\ ledger'.adjustment = ledger.adjustment
  <2> DEFINE m == RoundsEnd(ledger, tracked, Nothing)
  <2>1. ledger \in LedgerState /\ DOMAIN tracked \subseteq Bets
    BY DEF IInv, TypeOK
  <2>2. \A b \in Ended(ledger, tracked) : Nothing[b] = 0
    BY <2>1 DEF Nothing, Ended
  <2>3. IsFiniteSet(Ended(ledger, tracked))
    BY <2>1, FS_Subset, LedgerAssumption DEF Ended
  <2>4. SumFunctionOnSet(Nothing, Ended(ledger, tracked)) = 0
    BY <2>2, <2>3, SumZero
  <2>5. /\ m \in LedgerState
        /\ m.baseline = ledger.baseline /\ m.epoch = ledger.epoch
        /\ m.active = ledger.active \ gone
        /\ m.adjustment = ledger.adjustment + SumFunctionOnSet(Nothing, Ended(ledger, tracked))
    BY <2>1, <2>2, RoundsEndEffect
  <2>6. ledger' = m /\ ledger.adjustment \in Int
    BY <1>1, <2>1 DEF LedgerState
  <2> HIDE DEF m, gone
  <2>7. QED BY <2>4, <2>5, <2>6
<1>5. \A b \in Bets : stage[b] \in {"sending", "mined"} => <<"open", b>> \notin gone
  <2>1. SUFFICES ASSUME NEW b \in Bets, stage[b] \in {"sending", "mined"},
                        NEW c \in DOMAIN tracked, tracked[c] = <<"open", b>>
                 PROVE  FALSE
    OBVIOUS
  <2>2. /\ c \in Bets /\ tracked[c] \in {<<"open", c>>, <<"resume", c>>}
        /\ stage[c] \in {"returned", "misreported"} \/ tracked[c] = <<"resume", c>>
    BY DEF IInv, TypeOK, Rounds, RoundOK
  <2>3. tracked[c][2] = c /\ tracked[c][2] = b /\ tracked[c][1] = "open"
    BY <2>1, <2>2
  <2>4. stage[c] \in {"returned", "misreported"}
    BY <2>2, <2>3
  <2>5. QED BY <2>1, <2>3, <2>4
<1> HIDE DEF gone
<1>6. TypeOK'
  BY <1>1, <1>2, <1>4 DEF IInv, TypeOK, Amount
<1>7. Rounds'
  BY <1>1, <1>2, <1>3, <1>4, <1>5 DEF IInv, Rounds, RoundOK, ActionOK, Settled
<1>8. OneMount'
  BY <1>1, <1>3 DEF OneMount
<1>9. ReadsOK'
  BY <1>1, <1>4 DEF IInv, ReadsOK, Plain
<1>10. AtRest'
  BY <1>1, <1>4 DEF IInv, AtRest
<1>11. Books'
  <2>1. \A b \in Bets : b \notin Due'
    BY <1>1, <1>2 DEF Due
  <2>2. ASSUME NEW b \in Bets PROVE owed'[b] <= owed[b]
    <3> DEFINE rest == (IF stage[b] = "sending" THEN Stake ELSE 0)
                       - (IF stage[b] = "misreported" THEN Stake ELSE 0)
               due == IF b \in Due THEN outcome[b] ELSE 0
    <3>1. owed[b] = rest + due /\ owed'[b] = rest + 0
      BY <1>1, <2>1 DEF owed
    <3>2. rest \in Int
      BY LedgerAssumption
    <3>3. due \in Nat
      BY DEF IInv, TypeOK, Amount, Due, Settled
    <3> HIDE DEF rest, due
    <3>4. QED BY <3>1, <3>2, <3>3
  <2>3. ~Plain
    BY <1>3 DEF Plain
  <2>4. QED BY <1>1, <1>4, <1>6, <2>2, <2>3, BooksDrop DEF IInv
<1>12. QED BY <1>6, <1>7, <1>8, <1>9, <1>10, <1>11 DEF IInv

-----------------------------------------------------------------------------
(* The steps of one bet.                                                   *)

\* What no step of bet b changes for the others.
Others(b) ==
  \A c \in Bets \ {b} :
    /\ stage'[c] = stage[c] /\ outcome'[c] = outcome[c]
    /\ (c \in DOMAIN tracked' <=> c \in DOMAIN tracked)
    /\ c \in DOMAIN tracked => tracked'[c] = tracked[c]
    /\ (c \in pendingReveal' <=> c \in pendingReveal)
    /\ \A k \in {<<"open", c>>, <<"resume", c>>} : k \in ledger'.active <=> k \in ledger.active

LEMMA OthersKeep ==
  ASSUME IInv, NEW b \in Bets, Others(b), UNCHANGED <<orphans, indexed, revealed, world>>
  PROVE  /\ \A c \in Bets \ {b} : RoundOK(c)' /\ owed'[c] = owed[c]
         /\ \A a \in Actions : a.bet # b /\ action'[a] = action[a] => ActionOK(a)'
<1>1. ASSUME NEW c \in Bets \ {b} PROVE RoundOK(c)' /\ owed'[c] = owed[c]
  <2>1. RoundOK(c)
    BY DEF IInv, Rounds
  <2>2. RoundOK(c)'
    BY <2>1 DEF Others, RoundOK, Settled
  <2>3. c \in Due' <=> c \in Due
    BY DEF Due, Settled, Others
  <2>4. owed'[c] = owed[c]
    BY <2>3 DEF owed, Others
  <2>5. QED BY <2>2, <2>4
<1>2. ASSUME NEW a \in Actions, a.bet # b, action'[a] = action[a] PROVE ActionOK(a)'
  <2>1. ActionOK(a) /\ a.bet \in Bets \ {b}
    BY <1>2, LedgerAssumption DEF IInv, Rounds
  <2>2. QED BY <1>2, <2>1 DEF Others, ActionOK, Settled
<1>3. QED BY <1>1, <1>2

\* A step of bet b that leaves the actions alone, and all they ask of b.
LEMMA RoundsOfOne ==
  ASSUME IInv, NEW b \in Bets, Others(b), UNCHANGED <<orphans, indexed, revealed, world, action>>,
         RoundOK(b)',
         stage[b] \in {"mined", "returned", "misreported"} =>
           stage'[b] \in {"mined", "returned", "misreported"},
         b \in DOMAIN tracked => b \in DOMAIN tracked',
         Settled(b)' => \/ Settled(b)
                        \/ world.early \/ \A a \in Actions : a.bet = b => action[a] # "sending"
  PROVE  Rounds'
<1>1. ASSUME NEW a \in Actions, a.bet = b PROVE ActionOK(a)'
  <2>1. ActionOK(a)
    BY DEF IInv, Rounds
  <2>2. QED BY <1>1, <2>1 DEF ActionOK
<1>2. \A a \in Actions : ActionOK(a)'
  BY <1>1, OthersKeep
<1>3. \A c \in Bets : RoundOK(c)'
  BY OthersKeep
<1>4. QED BY <1>2, <1>3 DEF Rounds

LEMMA OpenTrackedStep ==
  ASSUME IInv, NEW b \in Bets, stage[b] = "mined", OpenTracked(b),
         UNCHANGED <<reads, host, effectDue, orphans, action, chain, feed, revealed, failures, world>>
  PROVE  IInv'
<1> USE DEF host, chain, feed
<1>1. /\ stage' = [stage EXCEPT ![b] = "returned"]
      /\ ledger' = ledger /\ pendingReveal' = pendingReveal
  BY DEF OpenTracked
<1>2. /\ b \in orphans => tracked' = tracked
      /\ b \notin orphans =>
           /\ DOMAIN tracked' = DOMAIN tracked \cup {b}
           /\ tracked'[b] = <<"open", b>>
           /\ \A c \in DOMAIN tracked \ {b} : tracked'[c] = tracked[c]
  BY <1>1 DEF OpenTracked, Track
<1>3. RoundOK(b) /\ <<"open", b>> \in ledger.active /\ stage'[b] = "returned"
  BY <1>1 DEF IInv, Rounds, RoundOK, TypeOK
<1>4. Others(b)
  BY <1>1, <1>2 DEF Others, IInv, TypeOK
<1>5. TypeOK'
  BY <1>1, <1>2 DEF IInv, TypeOK, Stages
<1>6. RoundOK(b)'
  <2>1. CASE b \in orphans
    BY <1>1, <1>2, <1>3, <2>1 DEF RoundOK, Settled
  <2>2. CASE b \notin orphans
    BY <1>1, <1>2, <1>3, <2>2 DEF RoundOK, Settled
  <2>3. QED BY <2>1, <2>2
<1>7. Rounds'
  BY <1>1, <1>2, <1>3, <1>4, <1>6, RoundsOfOne DEF Settled
<1>8. OneMount'
  BY <1>1, <1>2, <1>3, <1>4 DEF IInv, OneMount, Others, Plain, Settled
<1>9. ReadsOK'
  BY <1>1 DEF IInv, ReadsOK, Plain
<1>10. AtRest'
  BY <1>1 DEF IInv, AtRest
<1>11. Books'
  <2>1. b \in Due' <=> b \in Due
    BY <1>1, <1>2, <1>3 DEF Due, Settled
  <2>2. owed'[b] = owed[b]
    BY <1>1, <1>3, <2>1 DEF owed
  <2>3. Total' = Total
    BY <1>4, <2>2, OthersKeep, TotalOfNone
  <2>4. Total \in Int /\ ledger.adjustment \in Int /\ wallet \in Nat
    BY TotalType DEF IInv, TypeOK, LedgerState
  <2>5. Total' = Total + 0 /\ ledger'.adjustment + 0 - wallet' = ledger.adjustment - wallet
        /\ ledger'.adjustment + 0 - wallet' <= ledger.adjustment - wallet
    BY <1>1, <2>3, <2>4
  <2>6. QED BY <1>1, <1>5, <2>5, BooksMove DEF IInv
<1>12. QED BY <1>5, <1>7, <1>8, <1>9, <1>10, <1>11 DEF IInv

\* The keys of two bets differ.
LEMMA KeysDiffer ==
  ASSUME NEW b, NEW c, b # c
  PROVE  /\ <<"open", b>> \notin {<<"open", c>>, <<"resume", c>>}
         /\ <<"resume", b>> \notin {<<"open", c>>, <<"resume", c>>}
OBVIOUS

LEMMA BetPlacedEffect ==
  ASSUME NEW l \in LedgerState, NEW key \in RoundKey, NEW stake \in Nat
  PROVE  /\ BetPlaced(l, key, stake) \in LedgerState
         /\ BetPlaced(l, key, stake).baseline = l.baseline
         /\ BetPlaced(l, key, stake).epoch = l.epoch + 1
         /\ BetPlaced(l, key, stake).active = l.active \cup {key}
         /\ BetPlaced(l, key, stake).adjustment = l.adjustment - stake
<1> DEFINE m1 == [l EXCEPT !.epoch = @ + 1]
           m2 == [m1 EXCEPT !.timer = FALSE]
           m3 == [m2 EXCEPT !.active = @ \cup {key}]
           m4 == [m3 EXCEPT !.adjustment = @ - stake]
<1>1. BetPlaced(l, key, stake) = m4
  BY DEF BetPlaced, LedgerState
<1>2. /\ m1 \in LedgerState /\ m1.baseline = l.baseline /\ m1.epoch = l.epoch + 1
      /\ m1.active = l.active /\ m1.adjustment = l.adjustment
  BY DEF LedgerState
<1> HIDE DEF m1
<1>3. /\ m2 \in LedgerState /\ m2.baseline = l.baseline /\ m2.epoch = l.epoch + 1
      /\ m2.active = l.active /\ m2.adjustment = l.adjustment
  BY <1>2 DEF LedgerState
<1> HIDE DEF m2
<1>4. /\ m3 \in LedgerState /\ m3.baseline = l.baseline /\ m3.epoch = l.epoch + 1
      /\ m3.active = l.active \cup {key} /\ m3.adjustment = l.adjustment
  BY <1>3 DEF LedgerState
<1> HIDE DEF m3
<1>5. /\ m4 \in LedgerState /\ m4.baseline = l.baseline /\ m4.epoch = l.epoch + 1
      /\ m4.active = l.active \cup {key} /\ m4.adjustment = l.adjustment - stake
  BY <1>4 DEF LedgerState
<1> HIDE DEF m4
<1>6. QED BY <1>1, <1>5

LEMMA RefundEffect ==
  ASSUME NEW l \in LedgerState, NEW stake \in Nat
  PROVE  /\ RefundStake(l, stake) \in LedgerState
         /\ RefundStake(l, stake).baseline = l.baseline
         /\ RefundStake(l, stake).epoch = l.epoch
         /\ RefundStake(l, stake).active = l.active
         /\ RefundStake(l, stake).adjustment = l.adjustment + stake
BY DEF RefundStake, LedgerState

LEMMA OpenSessionStep ==
  ASSUME IInv, NEW b \in Bets, OpenSession(b)
  PROVE  IInv'
<1> USE DEF host, rounds, chain, feed
<1>1. /\ stage[b] = "idle" /\ stage' = [stage EXCEPT ![b] = "sending"] /\ ledger.baseline # None
      /\ UNCHANGED <<reads, mounted, mounts, raw, tracked, pendingReveal, effectDue, orphans, action,
                     outcome, wallet, pushed, indexed, revealed, failures, world>>
  BY DEF OpenSession
<1>2. ledger \in LedgerState /\ Stake \in Nat /\ <<"open", b>> \in RoundKey
  BY LedgerAssumption DEF IInv, TypeOK, RoundKey
<1>3. /\ ledger' \in LedgerState
      /\ ledger'.baseline = ledger.baseline /\ ledger'.epoch = ledger.epoch + 1
      /\ ledger'.active = ledger.active \cup {<<"open", b>>}
      /\ ledger'.adjustment = ledger.adjustment - Stake
  <2>1. ledger' = BetPlaced(ledger, <<"open", b>>, Stake)
    BY DEF OpenSession
  <2>2. QED BY <1>2, <2>1, BetPlacedEffect
<1>4. RoundOK(b) /\ stage'[b] = "sending"
  BY <1>1 DEF IInv, Rounds, TypeOK
<1>5. Others(b)
  BY <1>1, <1>3, KeysDiffer DEF Others, IInv, TypeOK
<1>6. TypeOK'
  BY <1>1, <1>3 DEF IInv, TypeOK, Stages
<1>7. RoundOK(b)'
  BY <1>1, <1>3, <1>4 DEF RoundOK, Settled
<1>8. Rounds'
  BY <1>1, <1>4, <1>5, <1>7, RoundsOfOne DEF Settled
<1>9. OneMount'
  BY <1>1, <1>3, <1>4, <1>5 DEF IInv, OneMount, Others, Plain, Settled
<1>10. ReadsOK'
  <2>1. \A r \in reads : r.epoch \in Nat /\ r.epoch <= ledger.epoch
    BY DEF IInv, TypeOK, ReadsOK
  <2>2. QED BY <1>1, <1>2, <1>3, <2>1 DEF ReadsOK, LedgerState
<1>11. AtRest'
  BY <1>1, <1>3 DEF AtRest
<1>12. Books'
  <2>1. b \notin Due' /\ b \notin Due
    BY <1>1, <1>4 DEF Due, Settled, RoundOK
  <2>2. owed[b] = 0 /\ owed'[b] = Stake
    BY <1>1, <1>2, <1>4, <2>1 DEF owed
  <2>3. Total' = Total + owed'[b] - owed[b]
    BY <1>1, <1>5, <1>6, OthersKeep, TotalOfOne DEF IInv
  <2>4. Total \in Int /\ ledger.adjustment \in Int /\ wallet \in Nat
    BY TotalType DEF IInv, TypeOK, LedgerState
  <2>5. Total' = Total + Stake /\ ledger'.adjustment + Stake - wallet' = ledger.adjustment - wallet
        /\ ledger'.adjustment + Stake - wallet' <= ledger.adjustment - wallet
    BY <1>1, <1>2, <1>3, <2>2, <2>3, <2>4
  <2>6. QED BY <1>1, <1>2, <1>3, <1>6, <2>5, BooksMove DEF IInv
<1>13. QED BY <1>6, <1>8, <1>9, <1>10, <1>11, <1>12 DEF IInv

LEMMA OpenMinedStep ==
  ASSUME IInv, NEW b \in Bets, OpenMined(b)
  PROVE  IInv'
<1> USE DEF host, rounds, chain, feed
<1>1. /\ stage[b] = "sending" /\ stage' = [stage EXCEPT ![b] = "mined"] /\ ledger' = ledger
      /\ Stake <= wallet /\ wallet' = wallet - Stake
      /\ UNCHANGED <<reads, mounted, mounts, raw, tracked, pendingReveal, effectDue, orphans, action,
                     outcome, pushed, indexed, revealed, failures, world>>
  BY DEF OpenMined
<1>2. Stake \in Nat /\ wallet \in Nat /\ wallet' \in Nat
  BY <1>1, LedgerAssumption DEF IInv, TypeOK
<1>3. RoundOK(b) /\ stage'[b] = "mined" /\ ~Settled(b) /\ <<"open", b>> \in ledger.active
  BY <1>1 DEF IInv, Rounds, RoundOK, TypeOK
<1>4. Others(b)
  BY <1>1 DEF Others, IInv, TypeOK
<1>5. TypeOK'
  BY <1>1, <1>2 DEF IInv, TypeOK, Stages
<1>6. RoundOK(b)'
  BY <1>1, <1>3 DEF RoundOK, Settled
<1>7. Rounds'
  BY <1>1, <1>3, <1>4, <1>6, RoundsOfOne DEF Settled
<1>8. OneMount'
  BY <1>1, <1>3, <1>4 DEF IInv, OneMount, Others, Plain, Settled
<1>9. ReadsOK'
  BY <1>1, <1>3 DEF IInv, ReadsOK
<1>10. AtRest'
  BY <1>1 DEF IInv, AtRest
<1>11. Books'
  <2>1. b \notin Due' /\ b \notin Due
    BY <1>1, <1>3 DEF Due, Settled, RoundOK
  <2>2. owed[b] = Stake /\ owed'[b] = 0
    BY <1>1, <1>2, <1>3, <2>1 DEF owed
  <2>3. Total' = Total + owed'[b] - owed[b]
    BY <1>1, <1>4, <1>5, OthersKeep, TotalOfOne DEF IInv
  <2>4. Total \in Int /\ ledger.adjustment \in Int
    BY TotalType DEF IInv, TypeOK, LedgerState
  <2>5. /\ Total' = Total + (0 - Stake) /\ (0 - Stake) \in Int
        /\ ledger'.adjustment + (0 - Stake) - wallet' = ledger.adjustment - wallet
        /\ ledger'.adjustment + (0 - Stake) - wallet' <= ledger.adjustment - wallet
    BY <1>1, <1>2, <2>2, <2>3, <2>4
  <2>6. QED BY <1>1, <1>5, <2>5, BooksMove DEF IInv
<1>12. QED BY <1>5, <1>7, <1>8, <1>9, <1>10, <1>11 DEF IInv

LEMMA OpenFailsStep ==
  ASSUME IInv, NEW b \in Bets, OpenFails(b)
  PROVE  IInv'
<1> USE DEF host, rounds, chain, feed
<1>1. CASE stage[b] = "mined" /\ OpenTracked(b)
  BY <1>1, OpenTrackedStep DEF OpenFails
<1>2. CASE /\ stage' = [stage EXCEPT ![b] = IF @ = "mined" THEN "misreported" ELSE "failed"]
           /\ ledger' = RoundsEnd(RefundStake(ledger, Stake), [c \in {b} |-> <<"open", c>>], Nothing)
           /\ UNCHANGED <<tracked, pendingReveal>>
  <2>1. /\ stage[b] = "sending" \/ (stage[b] = "mined" /\ world.misreports)
        /\ UNCHANGED <<reads, mounted, mounts, raw, effectDue, orphans, action, outcome, wallet,
                       pushed, indexed, revealed, failures, world>>
    BY DEF OpenFails
  <2>2. ledger \in LedgerState /\ Stake \in Nat
    BY LedgerAssumption DEF IInv, TypeOK
  <2>3. /\ ledger' \in LedgerState
        /\ ledger'.baseline = ledger.baseline /\ ledger'.epoch = ledger.epoch
        /\ ledger'.active = ledger.active \ {<<"open", b>>}
        /\ ledger'.adjustment = ledger.adjustment + Stake
    <3> DEFINE l == RefundStake(ledger, Stake)
               keys == [c \in {b} |-> <<"open", c>>]
               m == RoundsEnd(l, keys, Nothing)
    <3>1. /\ l \in LedgerState /\ l.baseline = ledger.baseline /\ l.epoch = ledger.epoch
          /\ l.active = ledger.active /\ l.adjustment = ledger.adjustment + Stake
      BY <2>2, RefundEffect
    <3> HIDE DEF l
    <3>2. DOMAIN keys \subseteq Bets /\ {keys[c] : c \in DOMAIN keys} = {<<"open", b>>}
      OBVIOUS
    <3>3. \A c \in Ended(l, keys) : Nothing[c] = 0
      BY <3>2 DEF Nothing, Ended
    <3>4. IsFiniteSet(Ended(l, keys))
      BY <3>2, FS_Subset, LedgerAssumption DEF Ended
    <3> HIDE DEF keys
    <3>5. SumFunctionOnSet(Nothing, Ended(l, keys)) = 0
      BY <3>3, <3>4, SumZero
    <3>6. /\ m \in LedgerState /\ m.baseline = l.baseline /\ m.epoch = l.epoch
          /\ m.active = l.active \ {keys[c] : c \in DOMAIN keys}
          /\ m.adjustment = l.adjustment + SumFunctionOnSet(Nothing, Ended(l, keys))
      BY <3>1, <3>2, <3>3, RoundsEndEffect
    <3>7. ledger' = m /\ ledger.adjustment \in Int
      BY <1>2, <2>2 DEF l, keys, LedgerState
    <3> HIDE DEF m
    <3>8. m.adjustment = ledger.adjustment + Stake
      BY <2>2, <3>1, <3>5, <3>6, <3>7
    <3>9. QED BY <3>1, <3>2, <3>6, <3>7, <3>8
  <2>4. RoundOK(b) /\ (b \in DOMAIN tracked => stage[b] = "mined" /\ tracked[b] = <<"resume", b>>)
    BY <2>1 DEF IInv, Rounds, RoundOK
  <2>5. \/ stage[b] = "sending" /\ stage'[b] = "failed" /\ ~Settled(b)
        \/ stage[b] = "mined" /\ stage'[b] = "misreported" /\ world.misreports
    BY <1>2, <2>1, <2>4 DEF RoundOK, IInv, TypeOK
  <2>6. Others(b)
    BY <1>2, <2>1, <2>3, KeysDiffer DEF Others, IInv, TypeOK
  <2>7. TypeOK'
    BY <1>2, <2>1, <2>3 DEF IInv, TypeOK, Stages
  <2>8. RoundOK(b)'
    <3>1. <<"resume", b>> # <<"open", b>>
      <4>1. <<"resume", b>>[1] = "resume" /\ <<"open", b>>[1] = "open"
        OBVIOUS
      <4>2. QED BY <4>1
    <3>2. b \in DOMAIN tracked' =>
            tracked'[b] \in ledger'.active /\ tracked'[b] = <<"resume", b>> /\ stage'[b] = "misreported"
      BY <1>2, <2>3, <2>4, <2>5, <3>1 DEF RoundOK
    <3>3. QED BY <2>1, <2>4, <2>5, <3>2 DEF RoundOK, Settled
  <2>9. Rounds'
    BY <1>2, <2>1, <2>5, <2>6, <2>8, RoundsOfOne DEF Settled
  <2>10. OneMount'
    BY <1>2, <2>1, <2>3, <2>5, <2>6 DEF IInv, OneMount, Others, Plain, Settled
  <2>11. ReadsOK'
    BY <2>1, <2>3 DEF IInv, ReadsOK, Plain
  <2>12. AtRest'
    BY <2>1, <2>3 DEF IInv, AtRest
  <2>13. Books'
    <3> DEFINE due == IF b \in Due /\ b \notin Due' THEN outcome[b] ELSE 0
               was == IF b \in Due THEN outcome[b] ELSE 0
               is == IF b \in Due' THEN outcome[b] ELSE 0
    <3>0. b \in Due' => b \in Due
      BY <1>2, <2>1, <2>5 DEF Due, Settled
    <3>1. due \in Nat /\ is \in Nat /\ was \in Nat /\ is = was - due
      BY <3>0 DEF IInv, TypeOK, Amount, Due, Settled
    <3>11. Plain => due = 0
      BY <2>1, <2>5 DEF Plain, Due
    <3>12. \/ owed[b] = Stake - 0 + was /\ owed'[b] = 0 - 0 + is
           \/ owed[b] = 0 - 0 + was /\ owed'[b] = 0 - Stake + is
      BY <2>1, <2>5 DEF owed
    <3> HIDE DEF due, was, is
    <3>2. owed'[b] = owed[b] - Stake - due
      BY <2>2, <3>1, <3>12
    <3>3. Plain => due = 0
      BY <3>11
    <3>4. Total' = Total + owed'[b] - owed[b]
      BY <2>1, <2>6, <2>7, OthersKeep, TotalOfOne DEF IInv
    <3>5. Total \in Int /\ ledger.adjustment \in Int /\ wallet \in Nat /\ owed[b] \in Int
      BY TotalType, OwedType DEF IInv, TypeOK, LedgerState
    <3>6. /\ Total' = Total + (0 - Stake - due) /\ (0 - Stake - due) \in Int
          /\ Plain => ledger'.adjustment + (0 - Stake - due) - wallet' = ledger.adjustment - wallet
          /\ ledger'.adjustment + (0 - Stake - due) - wallet' <= ledger.adjustment - wallet
      BY <2>1, <2>2, <2>3, <3>1, <3>2, <3>3, <3>4, <3>5
    <3>7. QED BY <2>1, <2>3, <2>7, <3>6, BooksMove DEF IInv
  <2>14. QED BY <2>7, <2>9, <2>10, <2>11, <2>12, <2>13 DEF IInv
<1>3. QED BY <1>1, <1>2 DEF OpenFails

LEMMA ActionStep ==
  ASSUME IInv, NEW a \in Actions, Acting(a)
  PROVE  IInv'
<1> USE DEF host, rounds, chain, feed
<1> DEFINE b == a.bet
           x == a.extra
<1>1. /\ action[a] \in {"sending", "mined"} /\ action'[a] # action[a] /\ action'[a] # "idle"
      /\ action' = [action EXCEPT ![a] = action'[a]]
      /\ UNCHANGED <<reads, mounted, mounts, raw, tracked, pendingReveal, effectDue, stage, orphans,
                     outcome, pushed, indexed, revealed, failures, world>>
  BY DEF Acting, ActionMined, ActionReturns, ActionFails, IInv, TypeOK
<1>2. x \in Nat /\ b \in Bets /\ ledger \in LedgerState /\ wallet \in Nat
  BY LedgerAssumption DEF IInv, TypeOK
<1>3. /\ ledger' \in LedgerState /\ wallet' \in Nat
      /\ ledger'.baseline = ledger.baseline /\ ledger'.epoch = ledger.epoch
      /\ ledger'.active = ledger.active
      /\ action'[a] \in {"mined", "returned", "failed", "misreported"}
      /\ action'[a] = "misreported" => world.misreports
      /\ \/ /\ action[a] = "sending" /\ action'[a] = "mined"
            /\ ledger'.adjustment = ledger.adjustment /\ wallet' = wallet - x
         \/ /\ action[a] = "mined" /\ action'[a] = "returned"
            /\ ledger'.adjustment = ledger.adjustment /\ wallet' = wallet
         \/ /\ action[a] = "sending" /\ action'[a] = "failed"
            /\ ledger'.adjustment = ledger.adjustment + x /\ wallet' = wallet
         \/ /\ action[a] = "mined" /\ action'[a] = "misreported"
            /\ ledger'.adjustment = ledger.adjustment + x /\ wallet' = wallet
  <2>1. CASE ActionMined(a)
    BY <1>2, <2>1 DEF ActionMined, IInv, TypeOK
  <2>2. CASE ActionReturns(a)
    BY <1>2, <2>2 DEF ActionReturns, IInv, TypeOK
  <2>3. CASE ActionFails(a)
    <3>1. /\ ledger' = RefundStake(ledger, x) /\ wallet' = wallet
          /\ \/ action[a] = "sending" /\ action'[a] = "failed"
             \/ action[a] = "mined" /\ action'[a] = "misreported" /\ world.misreports
      BY <2>3 DEF ActionFails, IInv, TypeOK
    <3> HIDE DEF x
    <3> DEFINE m == RefundStake(ledger, x)
    <3>2. /\ m \in LedgerState /\ m.baseline = ledger.baseline /\ m.epoch = ledger.epoch
          /\ m.active = ledger.active /\ m.adjustment = ledger.adjustment + x
      BY <1>2, RefundEffect
    <3> HIDE DEF m
    <3>3. ledger' = m
      BY <3>1 DEF m
    <3>4. QED BY <1>2, <3>1, <3>2, <3>3
  <2>4. QED BY <2>1, <2>2, <2>3 DEF Acting
<1>4. /\ ActionOK(a) /\ RoundOK(b) /\ stage[b] \in {"mined", "returned", "misreported"}
      /\ \A c \in Actions \ {a} : action'[c] = action[c]
  BY <1>1, <1>2 DEF IInv, Rounds, ActionOK, TypeOK
<1>5. TypeOK'
  <2>1. action' \in [Actions -> Stages]
    BY <1>1, <1>3 DEF IInv, TypeOK, Stages
  <2>2. QED BY <1>1, <1>3, <2>1 DEF IInv, TypeOK
<1>6. Rounds'
  <2>1. \A c \in Bets : RoundOK(c)'
    BY <1>1, <1>3 DEF IInv, Rounds, RoundOK, Settled
  <2>2. \A c \in Actions \ {a} : ActionOK(c)'
    BY <1>1, <1>4 DEF IInv, Rounds, ActionOK, Settled
  <2>3. ActionOK(a)'
    BY <1>1, <1>3, <1>4 DEF ActionOK
  <2>4. QED BY <2>1, <2>2, <2>3 DEF Rounds
<1>7. OneMount'
  BY <1>1, <1>3 DEF IInv, OneMount, Plain, Settled
<1>8. ReadsOK'
  <2>1. ledger.active = {} => wallet' = wallet
    <3> SUFFICES ASSUME ledger.active = {} PROVE wallet' = wallet
      OBVIOUS
    <3>1. b \notin DOMAIN tracked
      BY <1>4 DEF RoundOK
    <3>2. action[a] = "sending" => x = 0
      BY <1>4, <3>1 DEF ActionOK
    <3> HIDE DEF x
    <3>3. QED BY <1>2, <1>3, <3>2
  <2>2. QED BY <1>1, <1>3, <2>1 DEF IInv, ReadsOK, Plain
<1>9. AtRest'
  BY <1>2, <1>3, <1>4 DEF IInv, AtRest
<1>10. Books'
  <2>1. \A c \in Bets : owed'[c] = owed[c]
    BY <1>1 DEF owed, Due, Settled
  <2>2. Total' = Total + pulled'[a] - pulled[a]
    BY <1>4, <2>1, TotalOfAction DEF IInv
  <2>3. /\ pulled[a] = IF action[a] = "sending" THEN x ELSE 0
        /\ pulled'[a] = IF action'[a] = "misreported" THEN 0 - x ELSE 0
    BY <1>1, <1>2, <1>3 DEF pulled
  <2>4. Total \in Int /\ ledger.adjustment \in Int
    BY <1>2, TotalType DEF IInv, LedgerState
  <2> HIDE DEF x
  <2> DEFINE d == pulled'[a] - pulled[a]
  <2>5. d \in Int /\ Total' = Total + d
    BY <1>2, <2>2, <2>3, <2>4
  <2>6. ledger'.adjustment + d - wallet' = ledger.adjustment - wallet
    BY <1>2, <1>3, <2>3, <2>4
  <2>7. ledger'.adjustment + d - wallet' <= ledger.adjustment - wallet
    BY <1>2, <2>4, <2>6
  <2> HIDE DEF d
  <2>8. QED BY <1>1, <1>3, <1>5, <2>5, <2>6, <2>7, BooksMove DEF IInv
<1>11. QED BY <1>5, <1>6, <1>7, <1>8, <1>9, <1>10 DEF IInv

LEMMA SettleStep ==
  ASSUME IInv, NEW b \in Bets, Settle(b)
  PROVE  IInv'
<1> USE DEF host, rounds, sends, feed
<1>1. PICK payout \in Payouts : outcome' = [outcome EXCEPT ![b] = payout] /\ wallet' = wallet + payout
  BY DEF Settle
<1>2. /\ ledger' = ledger
      /\ UNCHANGED <<reads, mounted, mounts, raw, tracked, pendingReveal, effectDue, stage, orphans, action,
                     pushed, indexed, revealed, failures, world>>
      /\ \/ world.early
         \/ stage[b] # "mined" /\ \A a \in Actions : a.bet = b => action[a] # "sending"
      /\ stage[b] \in {"mined", "returned", "misreported"} /\ ~Settled(b)
  BY DEF Settle, Live, Settled
<1>3. payout \in Nat /\ wallet \in Nat /\ wallet' \in Nat /\ payout # None
  BY <1>1, LedgerAssumption DEF IInv, TypeOK, None
<1>4. RoundOK(b) /\ outcome'[b] = payout
  BY <1>1 DEF IInv, Rounds, TypeOK
<1>5. Others(b)
  BY <1>1, <1>2 DEF Others, IInv, TypeOK
<1>6. TypeOK'
  BY <1>1, <1>2, <1>3 DEF IInv, TypeOK, Amount
<1>7. RoundOK(b)'
  BY <1>2, <1>3, <1>4 DEF RoundOK, Settled
<1>8. Rounds'
  BY <1>2, <1>5, <1>7, RoundsOfOne
<1>9. OneMount'
  BY <1>2, <1>3, <1>4, <1>5 DEF IInv, OneMount, Others, Plain, Settled
<1>10. Plain => stage[b] # "misreported" /\ b \notin orphans /\ ledger.active # {}
                /\ (stage[b] = "mined" \/ b \in DOMAIN tracked)
  BY <1>2, <1>4 DEF Plain, IInv, OneMount, RoundOK
<1>11. ReadsOK'
  <2>1. ASSUME NEW r \in reads, r.epoch = ledger.epoch, r.value # None
        PROVE  r.value <= wallet' /\ (Plain => r.value = wallet')
    <3>1. /\ ledger.active = {} /\ r.value <= wallet /\ r.value \in Int
      BY <2>1 DEF IInv, ReadsOK, TypeOK, Amount
    <3>2. ~Plain
      BY <1>10, <3>1
    <3>3. QED BY <1>1, <1>3, <3>1, <3>2
  <2>2. Plain' <=> Plain
    BY <1>2 DEF Plain
  <2>3. QED BY <1>2, <2>1, <2>2 DEF IInv, ReadsOK
<1>12. AtRest'
  BY <1>2 DEF IInv, AtRest
<1>13. Books'
  <2> DEFINE due == IF b \in Due' THEN payout ELSE 0
  <2>1. b \notin Due
    BY <1>2 DEF Due
  <2>2. owed'[b] = owed[b] + due
    <3> DEFINE rest == (IF stage[b] = "sending" THEN Stake ELSE 0)
                       - (IF stage[b] = "misreported" THEN Stake ELSE 0)
    <3>1. owed[b] = rest + 0 /\ owed'[b] = rest + due
      BY <1>2, <1>4, <2>1 DEF owed
    <3>2. rest \in Int /\ due \in Int
      BY <1>3, LedgerAssumption DEF IInv, TypeOK, Amount, None
    <3> HIDE DEF rest, due
    <3>3. QED BY <3>1, <3>2
  <2>3. due \in Nat /\ due <= payout
    BY <1>3
  <2>4. Plain => due = payout
    BY <1>2, <1>3, <1>4, <1>10 DEF Due, Settled, Plain
  <2>5. Total' = Total + owed'[b] - owed[b]
    BY <1>2, <1>5, <1>6, OthersKeep, TotalOfOne DEF IInv
  <2>6. Total \in Int /\ ledger.adjustment \in Int /\ owed[b] \in Int
    BY TotalType, OwedType DEF IInv, TypeOK, LedgerState
  <2> HIDE DEF due
  <2>7. /\ Total' = Total + due
        /\ Plain => ledger'.adjustment + due - wallet' = ledger.adjustment - wallet
        /\ ledger'.adjustment + due - wallet' <= ledger.adjustment - wallet
    <3>1. Total' = Total + due
      BY <2>2, <2>3, <2>5, <2>6
    <3>2. wallet' = wallet + payout /\ ledger'.adjustment = ledger.adjustment
      BY <1>1, <1>2
    <3>3. /\ Plain => ledger'.adjustment + due - wallet' = ledger.adjustment - wallet
          /\ ledger'.adjustment + due - wallet' <= ledger.adjustment - wallet
      <4>1. \A a, x, w, y \in Int : y <= x =>
              a + y - (w + x) <= a - w /\ (y = x => a + y - (w + x) = a - w)
        OBVIOUS
      <4>2. ledger.adjustment \in Int /\ payout \in Int /\ wallet \in Int /\ due \in Int
        BY <1>3, <2>3, <2>6
      <4>3. /\ ledger.adjustment + due - (wallet + payout) <= ledger.adjustment - wallet
            /\ due = payout => ledger.adjustment + due - (wallet + payout) = ledger.adjustment - wallet
        BY <2>3, <4>1, <4>2
      <4>4. QED BY <2>4, <3>2, <4>3
    <3>4. QED BY <3>1, <3>3
  <2>8. QED BY <1>2, <1>6, <2>3, <2>7, BooksMove DEF IInv
<1>14. QED BY <1>6, <1>8, <1>9, <1>11, <1>12, <1>13 DEF IInv

LEMMA SubmitStep ==
  ASSUME IInv, Orderly(world), NEW a \in Actions, SubmitAction(a)
  PROVE  IInv'
<1> USE DEF host, chain, feed
<1> DEFINE b == a.bet
           extra == a.extra
           key == IF b \in DOMAIN tracked THEN tracked[b] ELSE <<"resume", b>>
           resumed == IF b \in DOMAIN tracked THEN ledger ELSE BetPlaced(ledger, key, 0)
<1>1. /\ stage[b] \in {"returned", "misreported"} \/ (stage[b] = "mined" /\ world.hasty)
      /\ b \notin indexed /\ b \notin revealed /\ a \in world.calls /\ action[a] = "idle"
      /\ world.early \/ outcome[b] = None
      /\ Track(b, key)
      /\ ledger' = IF extra > 0 THEN BetPlaced(resumed, key, extra) ELSE resumed
      /\ action' = [action EXCEPT ![a] = "sending"]
      /\ UNCHANGED <<reads, mounted, mounts, raw, pendingReveal, effectDue, stage, orphans,
                     outcome, wallet, pushed, indexed, revealed, failures, world>>
  BY DEF SubmitAction
<1>2. extra \in Nat /\ b \in Bets /\ ledger \in LedgerState
  BY LedgerAssumption DEF IInv, TypeOK
<1> HIDE DEF b
<1>3. RoundOK(b) /\ action'[a] = "sending" /\ (\A c \in Actions \ {a} : action'[c] = action[c])
  BY <1>1, <1>2 DEF IInv, Rounds, TypeOK
<1>4. key \in RoundKey /\ key \in {<<"open", b>>, <<"resume", b>>}
      /\ (b \in DOMAIN tracked => key \in ledger.active)
      /\ (stage[b] = "mined" => key = <<"resume", b>>)
  BY <1>2, <1>3 DEF RoundKey, RoundOK
<1>5. /\ world.early => world.mounts = 1 /\ ~world.misreports
      /\ extra # 0 => world.mounts = 1 /\ ~world.early
  BY <1>1, WorldType DEF Orderly, IInv
<1>6. /\ extra # 0 => world.mounts = 1 /\ ~world.early /\ ~Settled(b)
      /\ b \notin DOMAIN tracked /\ Settled(b) => stage[b] = "mined" /\ b \notin orphans
      /\ Plain => b \in DOMAIN tracked
  <2>1. world.mounts = 1 => orphans = {} /\ (stage[b] = "returned" => b \in DOMAIN tracked)
    BY <1>1, <1>2 DEF IInv, OneMount
  <2>2. stage[b] = "misreported" => world.misreports
    BY <1>3 DEF RoundOK
  <2>3. QED BY <1>1, <1>5, <2>1, <2>2 DEF Settled, Plain
<1>7. /\ DOMAIN tracked' = DOMAIN tracked \cup {b} /\ tracked'[b] = key
      /\ \A c \in DOMAIN tracked \ {b} : tracked'[c] = tracked[c]
  BY <1>1 DEF Track
<1> HIDE DEF key
<1>8. /\ resumed \in LedgerState /\ resumed.baseline = ledger.baseline
      /\ resumed.active = (IF b \in DOMAIN tracked THEN ledger.active ELSE ledger.active \cup {key})
      /\ resumed.adjustment = ledger.adjustment
      /\ resumed = ledger \/ resumed.epoch = ledger.epoch + 1
  <2>1. CASE b \in DOMAIN tracked
    BY <1>2, <2>1
  <2>2. CASE b \notin DOMAIN tracked
    <3> DEFINE m == BetPlaced(ledger, key, 0)
    <3>1. /\ m \in LedgerState /\ m.baseline = ledger.baseline /\ m.epoch = ledger.epoch + 1
          /\ m.active = ledger.active \cup {key} /\ m.adjustment = ledger.adjustment - 0
      BY <1>2, <1>4, BetPlacedEffect
    <3>2. resumed = m /\ ledger.adjustment \in Int
      BY <1>2, <2>2 DEF LedgerState
    <3> HIDE DEF m, resumed
    <3>3. QED BY <2>2, <3>1, <3>2
  <2>3. QED BY <2>1, <2>2
<1> HIDE DEF resumed
<1> HIDE DEF extra
<1>9. /\ ledger' \in LedgerState /\ ledger'.baseline = ledger.baseline
      /\ ledger'.active = ledger.active \cup {key}
      /\ ledger'.adjustment = ledger.adjustment - extra
      /\ ledger' = ledger \/ ledger'.epoch > ledger.epoch
  <2>1. ledger.epoch \in Nat /\ ledger.adjustment \in Int
    BY <1>2 DEF LedgerState
  <2>2. resumed.active \cup {key} = ledger.active \cup {key}
    BY <1>8
  <2>3. CASE extra > 0
    <3> DEFINE m == BetPlaced(resumed, key, extra)
    <3>1. /\ m \in LedgerState /\ m.baseline = resumed.baseline /\ m.epoch = resumed.epoch + 1
          /\ m.active = resumed.active \cup {key} /\ m.adjustment = resumed.adjustment - extra
      BY <1>2, <1>4, <1>8, BetPlacedEffect
    <3>2. ledger' = m
      BY <1>1, <2>3
    <3> HIDE DEF m
    <3>3. m.epoch > ledger.epoch
      BY <1>8, <2>1, <3>1
    <3>4. QED BY <1>8, <2>2, <3>1, <3>2, <3>3
  <2>4. CASE extra = 0
    <3>1. ledger' = resumed
      BY <1>1, <2>4
    <3>2. resumed.active = ledger.active \cup {key}
      BY <1>4, <1>8
    <3>3. ledger.adjustment - extra = ledger.adjustment
      BY <2>1, <2>4
    <3>4. resumed = ledger \/ resumed.epoch > ledger.epoch
      BY <1>8, <2>1
    <3>5. QED BY <1>8, <3>1, <3>2, <3>3, <3>4
  <2>5. QED BY <1>2, <2>3, <2>4
<1>10. Others(b)
  BY <1>1, <1>2, <1>4, <1>7, <1>9, KeysDiffer DEF Others, IInv, TypeOK
<1>11. TypeOK'
  BY <1>1, <1>2, <1>7, <1>9 DEF IInv, TypeOK, Stages
<1>12. RoundOK(b)'
  BY <1>1, <1>3, <1>4, <1>7, <1>9 DEF RoundOK, Settled
<1>13. Rounds'
  <2>1. \A c \in Bets : RoundOK(c)'
    BY <1>1, <1>2, <1>10, <1>12, OthersKeep
  <2>2. \A c \in Actions \ {a} : ActionOK(c)'
    <3> SUFFICES ASSUME NEW c \in Actions \ {a} PROVE ActionOK(c)'
      OBVIOUS
    <3>1. ActionOK(c) /\ c.bet \in Bets
      BY LedgerAssumption DEF IInv, Rounds
    <3>2. QED BY <1>1, <1>3, <1>7, <3>1 DEF ActionOK, Settled
  <2>3. ActionOK(a)'
    BY <1>1, <1>3, <1>6, <1>7 DEF ActionOK, Settled, b, extra
  <2>4. QED BY <2>1, <2>2, <2>3 DEF Rounds
<1>14. OneMount'
  <2>1. Plain => ledger'.active = ledger.active
    BY <1>4, <1>6, <1>9
  <2>2. QED BY <1>1, <1>2, <1>7, <1>10, <2>1 DEF IInv, OneMount, Others, Plain, Settled
<1>15. ReadsOK'
  <2>1. \A r \in reads : r.epoch \in Nat /\ r.epoch <= ledger.epoch
    BY DEF IInv, TypeOK, ReadsOK
  <2>2. ledger.epoch \in Nat /\ ledger'.epoch \in Nat
    BY <1>2, <1>9 DEF LedgerState
  <2>3. CASE ledger' = ledger
    BY <1>1, <2>3 DEF IInv, ReadsOK, Plain
  <2>4. CASE ledger'.epoch > ledger.epoch
    <3>1. \A r \in reads : r.epoch <= ledger'.epoch /\ r.epoch # ledger'.epoch
      BY <2>1, <2>2, <2>4
    <3>2. QED BY <1>1, <3>1 DEF ReadsOK
  <2>5. QED BY <1>9, <2>3, <2>4
<1>16. AtRest'
  BY <1>1, <1>2, <1>9 DEF IInv, AtRest
<1>17. Books'
  <2>1. b \in Due' <=> b \in Due
    BY <1>1, <1>6, <1>7 DEF Due, Settled
  <2>2. \A c \in Bets : owed'[c] = owed[c]
    <3>1. \A c \in Bets \ {b} : owed'[c] = owed[c]
      BY <1>1, <1>2, <1>10, OthersKeep
    <3>2. owed'[b] = owed[b]
      BY <1>1, <1>2, <2>1 DEF owed
    <3>3. QED BY <3>1, <3>2
  <2>3. Total' = Total + pulled'[a] - pulled[a]
    BY <1>3, <2>2, TotalOfAction DEF IInv
  <2>4. pulled[a] = 0 - 0 /\ pulled'[a] = extra - 0
    BY <1>1, <1>3 DEF pulled, extra
  <2>5. Total \in Int /\ ledger.adjustment \in Int /\ wallet \in Nat
    BY <1>2, TotalType DEF IInv, TypeOK, LedgerState
  <2>6. /\ Total' = Total + extra
        /\ ledger'.adjustment + extra - wallet' = ledger.adjustment - wallet
        /\ ledger'.adjustment + extra - wallet' <= ledger.adjustment - wallet
    BY <1>1, <1>2, <1>9, <2>3, <2>4, <2>5
  <2>7. QED BY <1>1, <1>2, <1>9, <1>11, <2>6, BooksMove DEF IInv
<1>18. QED BY <1>11, <1>13, <1>14, <1>15, <1>16, <1>17 DEF IInv

-----------------------------------------------------------------------------
(* The invariant.                                                          *)

LEMMA StartsRight == Init => IInv
<1> SUFFICES ASSUME Init PROVE IInv
  OBVIOUS
<1> USE DEF Init
<1>1. ledger \in LedgerState
  BY DEF LedgerState, Amount
<1>2. TypeOK
  BY <1>1, LedgerAssumption DEF TypeOK, Amount, Stages
<1>3. Rounds
  BY LedgerAssumption DEF Rounds, RoundOK, ActionOK, Settled, None
<1>4. OneMount /\ ReadsOK /\ AtRest /\ Books
  BY DEF OneMount, ReadsOK, AtRest, Books, Settled
<1>5. QED BY <1>2, <1>3, <1>4 DEF IInv

LEMMA StutterStep ==
  ASSUME IInv, UNCHANGED vars
  PROVE  IInv'
<1> USE DEF IInv, vars
<1>1. ledger' = ledger /\ UNCHANGED <<still, mounted, mounts, raw, reads>>
  BY DEF still, bets
<1>2. TypeOK'
  BY <1>1 DEF TypeOK, still, bets
<1>3. Rounds' /\ OneMount'
  BY <1>1, RoundsStay
<1>4. ReadsOK' /\ AtRest'
  BY <1>1 DEF ReadsOK, AtRest, Plain, still, bets
<1>5. Books'
  BY <1>1, <1>2, BooksStay DEF still
<1>6. QED BY <1>2, <1>3, <1>4, <1>5

LEMMA EveryStep ==
  ASSUME IInv, Orderly(world), [Next]_vars
  PROVE  IInv'
<1>1. CASE UNCHANGED vars
  BY <1>1, StutterStep
<1>2. CASE Reconciling
  BY <1>2, TimerStep, ReadStep, ReconcileStep DEF Reconciling
<1>3. CASE RawBalance \/ Mount
  BY <1>3, NewsStep
<1>4. CASE SeedBaseline
  BY <1>4, SeedStep
<1>5. CASE SettleTrackedRounds
  BY <1>5, SettleRoundsStep
<1>6. CASE Unmount
  BY <1>6, UnmountStep
<1>7. ASSUME NEW r \in reads, ReadFails(r) PROVE IInv'
  BY <1>7, ReadStep
<1>8. ASSUME NEW b \in Bets, OpenReturns(b) PROVE IInv'
  BY <1>8, OpenTrackedStep DEF OpenReturns
<1>9. ASSUME NEW b \in Bets, OpenMined(b) PROVE IInv'
  BY <1>9, OpenMinedStep
<1>10. ASSUME NEW b \in Bets, OpenSession(b) \/ OpenFails(b) \/ RevealOutcome(b) \/ Settle(b)
       PROVE  IInv'
  BY <1>10, OpenSessionStep, OpenFailsStep, RevealStep, SettleStep
<1>11. ASSUME NEW b \in Bets, PushSettlement(b) \/ IndexSettlement(b) PROVE IInv'
  BY <1>11, NewsStep
<1>12. ASSUME NEW a \in Actions, SubmitAction(a) \/ Acting(a) PROVE IInv'
  BY <1>12, SubmitStep, ActionStep
<1>13. QED
  BY <1>1, <1>2, <1>3, <1>4, <1>5, <1>6, <1>7, <1>8, <1>9, <1>10, <1>11, <1>12 DEF Next

LEMMA WorldStays ==
  ASSUME [Next]_vars
  PROVE  world' = world
BY DEF vars, Next, Reconciling, Acting, ReconcileTimer, ReadBalance, Reconcile, RawBalance, SeedBaseline,
       SettleTrackedRounds, Unmount, Mount, ReadFails, OpenSession, OpenFails, RevealOutcome, OpenMined,
       OpenReturns, ActionMined, ActionReturns, ActionFails, SubmitAction, Settle, PushSettlement, IndexSettlement

LEMMA LedgerInvariant == Spec => [](Orderly(world) => IInv)
<1> DEFINE J == Orderly(world) => IInv
<1>1. Init => J
  BY StartsRight
<1>2. ASSUME J, [Next]_vars PROVE J'
  <2>1. Orderly(world)' <=> Orderly(world)
    BY <1>2, WorldStays DEF Orderly
  <2>2. QED BY <1>2, <2>1, EveryStep
<1>3. QED BY <1>1, <1>2, PTL DEF Spec

-----------------------------------------------------------------------------
(* What is owed, and what is shown.                                        *)

LEMMA StakesOf ==
  ASSUME NEW A \in SUBSET Bets, NEW f, \A b \in Bets : f[b] = IF b \in A THEN Stake ELSE 0
  PROVE  SumFunctionOnSet(f, Bets) = Stake * Cardinality(A)
<1> DEFINE each == [b \in A |-> Stake]
<1>1. IsFiniteSet(Bets) /\ IsFiniteSet(A) /\ Stake \in Int
  BY LedgerAssumption, FS_Subset
<1>2. (\A b \in A : each[b] = Stake) /\ (\A b \in Bets : f[b] = IF b \in A THEN each[b] ELSE 0)
  OBVIOUS
<1> HIDE DEF each
<1>3. SumFunctionOnSet(each, A) = Stake * Cardinality(A)
  BY <1>1, <1>2, SumConstant
<1>4. SumFunctionOnSet(each, A) = SumFunctionOnSet(f, Bets)
  BY <1>1, <1>2, SumOfPart
<1>5. QED BY <1>3, <1>4

LEMMA ExtrasOf ==
  ASSUME NEW st, NEW f, \A a \in Actions : f[a] = IF action[a] = st THEN a.extra ELSE 0
  PROVE  SumFunctionOnSet(f, Actions)
           = SumFunctionOnSet([a \in Actions |-> a.extra], {a \in Actions : action[a] = st})
<1> DEFINE g == [a \in Actions |-> a.extra]
           A == {a \in Actions : action[a] = st}
<1>1. IsFiniteSet(Actions) /\ A \in SUBSET Actions
  BY LedgerAssumption
<1>2. (\A a \in A : g[a] \in Int) /\ (\A a \in Actions : f[a] = IF a \in A THEN g[a] ELSE 0)
  BY LedgerAssumption
<1> HIDE DEF A, g
<1>3. SumFunctionOnSet(g, A) = SumFunctionOnSet(f, Actions)
  BY <1>1, <1>2, SumOfPart
<1>4. QED BY <1>3 DEF A, g

\* The total is what is in flight, less what was put back, and what is due.
LEMMA WhatIsOwed ==
  ASSUME TypeOK
  PROVE  Total = InFlight - PutBack + SumFunctionOnSet(outcome, Due)
<1> DEFINE sent == [b \in Bets |-> IF stage[b] = "sending" THEN Stake ELSE 0]
           put == [b \in Bets |-> IF stage[b] = "misreported" THEN Stake ELSE 0]
           due == [b \in Bets |-> IF b \in Due THEN outcome[b] ELSE 0]
           both == [b \in Bets |-> sent[b] + due[b]]
           leaving == [a \in Actions |-> IF action[a] = "sending" THEN a.extra ELSE 0]
           back == [a \in Actions |-> IF action[a] = "misreported" THEN a.extra ELSE 0]
           S(f) == SumFunctionOnSet(f, Bets)
           A(f) == SumFunctionOnSet(f, Actions)
<1>1. IsFiniteSet(Bets) /\ Stake \in Nat /\ IsFiniteSet(Actions)
  BY LedgerAssumption
<1>2. \A b \in Bets : sent[b] \in Int /\ put[b] \in Int
  BY <1>1
<1>3. \A b \in Bets : due[b] \in Int
  BY DEF TypeOK, Amount, Due, Settled
<1>4. \A b \in Bets : owed[b] \in Int
  BY OwedType
<1>5. \A b \in Bets : owed[b] = sent[b] - put[b] + due[b]
  BY DEF owed
<1>6. InFlight = S(sent) + A(leaving)
  <2>1. \A b \in Bets : sent[b] = IF b \in {c \in Bets : stage[c] = "sending"} THEN Stake ELSE 0
    OBVIOUS
  <2>2. \A a \in Actions : leaving[a] = IF action[a] = "sending" THEN a.extra ELSE 0
    OBVIOUS
  <2> HIDE DEF sent, leaving
  <2>3. S(sent) = Stake * Cardinality({b \in Bets : stage[b] = "sending"})
    BY <2>1, StakesOf
  <2>4. A(leaving) = SumFunctionOnSet([a \in Actions |-> a.extra], {a \in Actions : action[a] = "sending"})
    BY <2>2, ExtrasOf
  <2>5. QED BY <2>3, <2>4 DEF InFlight, StakesIn
<1>7. PutBack = S(put) + A(back)
  <2>1. \A b \in Bets : put[b] = IF b \in {c \in Bets : stage[c] = "misreported"} THEN Stake ELSE 0
    OBVIOUS
  <2>2. \A a \in Actions : back[a] = IF action[a] = "misreported" THEN a.extra ELSE 0
    OBVIOUS
  <2> HIDE DEF put, back
  <2>3. S(put) = Stake * Cardinality({b \in Bets : stage[b] = "misreported"})
    BY <2>1, StakesOf
  <2>4. A(back) = SumFunctionOnSet([a \in Actions |-> a.extra], {a \in Actions : action[a] = "misreported"})
    BY <2>2, ExtrasOf
  <2>5. QED BY <2>3, <2>4 DEF PutBack, StakesIn
<1>8. /\ \A a \in Actions : leaving[a] \in Int /\ back[a] \in Int /\ pulled[a] \in Int
      /\ \A a \in Actions : leaving[a] = pulled[a] + back[a]
  BY LedgerAssumption DEF pulled
<1>9. S(due) = SumFunctionOnSet(outcome, Due)
  <2>1. Due \in SUBSET Bets /\ (\A b \in Due : outcome[b] \in Int)
    BY DEF TypeOK, Amount, Due, Settled
  <2>2. \A b \in Bets : due[b] = IF b \in Due THEN outcome[b] ELSE 0
    OBVIOUS
  <2> HIDE DEF due
  <2>3. QED BY <1>1, <2>1, <2>2, SumOfPart
<1>10. \A b \in Bets : both[b] = sent[b] + due[b] /\ both[b] = owed[b] + put[b]
  <2> HIDE DEF sent, put, due
  <2>1. \A b \in Bets : both[b] = sent[b] + due[b]
    OBVIOUS
  <2> HIDE DEF both
  <2>2. QED BY <1>2, <1>3, <1>4, <1>5, <2>1
<1> HIDE DEF sent, put, due, both, leaving, back
<1>11. S(both) = S(sent) + S(due)
  BY <1>1, <1>2, <1>3, <1>10, SumPlus
<1>12. S(both) = S(owed) + S(put)
  BY <1>1, <1>2, <1>4, <1>10, SumPlus
<1>13. A(leaving) = Pulled + A(back)
  BY <1>1, <1>8, SumPlus DEF Pulled
<1>14. /\ S(sent) \in Int /\ S(due) \in Int /\ S(put) \in Int /\ S(owed) \in Int
       /\ A(leaving) \in Int /\ A(back) \in Int /\ Pulled \in Int
  BY <1>1, <1>2, <1>3, <1>4, <1>8, SumType, PulledType
<1>15. Total = S(owed) + Pulled
  BY DEF Total
<1> HIDE DEF S, A
<1>16. Total = S(sent) + A(leaving) - (S(put) + A(back)) + S(due)
  BY <1>11, <1>12, <1>13, <1>14, <1>15
<1>17. QED BY <1>6, <1>7, <1>9, <1>14, <1>16

\* Where the balance is exact, what is due is what the game has not presented.
LEMMA HiddenIsDue ==
  ASSUME TypeOK, Rounds, OneMount, Plain
  PROVE  Hidden = SumFunctionOnSet(outcome, Due)
<1> DEFINE H == {b \in Bets : /\ outcome[b] # None
                              /\ \/ b \notin revealed
                                 \/ {<<"open", b>>, <<"resume", b>>} \cap ledger.active # {}}
           shown == [b \in Bets |-> IF b \in Due THEN outcome[b] ELSE 0]
<1>1. IsFiniteSet(Bets)
  BY LedgerAssumption
<1>2. /\ H \in SUBSET Bets /\ (\A b \in H : outcome[b] \in Int)
      /\ Due \in SUBSET Bets /\ (\A b \in Due : outcome[b] \in Int)
  BY DEF TypeOK, Amount, Due, Settled
<1>3. \A b \in Bets : shown[b] = IF b \in Due THEN outcome[b] ELSE 0
  OBVIOUS
<1>4. \A b \in Bets : shown[b] = IF b \in H THEN outcome[b] ELSE 0
  <2> SUFFICES ASSUME NEW b \in Bets PROVE shown[b] = IF b \in H THEN outcome[b] ELSE 0
    OBVIOUS
  <2>1. RoundOK(b) /\ stage[b] # "misreported" /\ stage[b] \in Stages /\ orphans = {}
    BY DEF Rounds, RoundOK, OneMount, Plain, TypeOK
  <2>2. CASE b \in Due
    <3>1. <<"open", b>> \in ledger.active \/ <<"resume", b>> \in ledger.active
      BY <2>1, <2>2 DEF RoundOK, Due
    <3>2. b \in H
      BY <2>2, <3>1 DEF Due, Settled
    <3>3. QED BY <2>2, <3>2
  <2>3. CASE b \notin Due
    <3>1. b \in H => outcome[b] = 0
      <4> SUFFICES ASSUME b \in H PROVE outcome[b] = 0
        OBVIOUS
      <4>1. Settled(b)
        BY DEF Settled
      <4>2. stage[b] = "returned" /\ b \notin DOMAIN tracked
        BY <2>1, <2>3, <4>1 DEF RoundOK, Due, Stages, Plain
      <4>3. /\ {<<"open", b>>, <<"resume", b>>} \cap ledger.active = {}
            /\ b \in revealed \/ outcome[b] = 0
        BY <4>2 DEF OneMount, Plain
      <4>4. QED BY <4>3
    <3>2. QED BY <2>3, <3>1
  <2>4. QED BY <2>2, <2>3
<1> HIDE DEF H, shown
<1>5. /\ SumFunctionOnSet(outcome, H) = SumFunctionOnSet(shown, Bets)
      /\ SumFunctionOnSet(outcome, Due) = SumFunctionOnSet(shown, Bets)
  BY <1>1, <1>2, <1>3, <1>4, SumOfPart
<1>6. Hidden = SumFunctionOnSet(outcome, H)
  BY DEF Hidden, H
<1>7. QED BY <1>5, <1>6

\* The books of the balance shown, also before there is a baseline.
LEMMA Shown ==
  ASSUME IInv, Displayed # None
  PROVE  /\ Displayed \in Int
         /\ Displayed <= wallet - Total /\ (Plain => Displayed = wallet - Total)
<1>1. /\ Total \in Int /\ wallet \in Nat /\ ledger.adjustment \in Int
      /\ ledger.baseline \in Amount /\ raw \in Amount
  BY TotalType DEF IInv, TypeOK, LedgerState
<1>2. CASE ledger.baseline # None
  <2>1. /\ ledger.baseline + ledger.adjustment + Total <= wallet
        /\ Plain => ledger.baseline + ledger.adjustment + Total = wallet
    BY <1>2 DEF IInv, Books
  <2>2. Displayed = ledger.baseline + ledger.adjustment /\ ledger.baseline \in Int
    BY <1>1, <1>2 DEF Displayed, Amount
  <2>3. QED BY <1>1, <2>1, <2>2
<1>3. CASE ledger.baseline = None
  <2>1. raw # None /\ Displayed = raw + ledger.adjustment
    BY <1>3 DEF Displayed
  <2>2. ledger.adjustment = 0 /\ raw = wallet /\ (\A b \in Bets : stage[b] = "idle")
    BY <1>3, <2>1 DEF IInv, AtRest
  <2>3. \A b \in Bets : owed[b] = 0
    <3> SUFFICES ASSUME NEW b \in Bets PROVE owed[b] = 0
      OBVIOUS
    <3>1. stage[b] = "idle" /\ b \notin Due
      BY <2>2 DEF IInv, Rounds, RoundOK, Due
    <3>2. QED BY <3>1 DEF owed
  <2>31. \A a \in Actions : pulled[a] = 0
    <3> SUFFICES ASSUME NEW a \in Actions PROVE pulled[a] = 0
      OBVIOUS
    <3>1. ActionOK(a) /\ stage[a.bet] = "idle"
      BY <2>2, LedgerAssumption DEF IInv, Rounds
    <3>2. action[a] = "idle"
      BY <3>1 DEF ActionOK
    <3>3. QED BY <3>2 DEF pulled
  <2>4. Total = 0
    <3>1. SumFunctionOnSet(owed, Bets) = 0 /\ Pulled = 0
      BY <2>3, <2>31, LedgerAssumption, SumZero DEF Pulled
    <3>2. QED BY <3>1 DEF Total
  <2>5. Displayed = wallet
    BY <1>1, <2>1, <2>2
  <2>6. QED BY <1>1, <2>4, <2>5
<1>4. QED BY <1>2, <1>3

LEMMA SumsType ==
  ASSUME IInv
  PROVE  /\ SumFunctionOnSet(outcome, Due) \in Nat
         /\ InFlight \in Int /\ PutBack \in Int /\ (Plain => PutBack = 0)
<1>1. IsFiniteSet(Bets) /\ Stake \in Nat /\ TypeOK
  BY LedgerAssumption DEF IInv
<1>2. IsFiniteSet(Due) /\ (\A b \in Due : outcome[b] \in Int /\ outcome[b] >= 0)
  <2>1. Due \subseteq Bets
    BY DEF Due
  <2>2. QED BY <1>1, <2>1, FS_Subset DEF Due, Settled, TypeOK, Amount
<1>3. SumFunctionOnSet(outcome, Due) \in Nat
  BY <1>2, SumType
<1>4. ASSUME NEW st PROVE StakesIn(st) \in Int
  <2> DEFINE A == {a \in Actions : action[a] = st}
             N == {b \in Bets : stage[b] = st}
             g == [a \in Actions |-> a.extra]
  <2>1. IsFiniteSet(A) /\ IsFiniteSet(N) /\ (\A a \in A : g[a] \in Int)
    BY <1>1, FS_Subset, LedgerAssumption
  <2> HIDE DEF A, N, g
  <2>2. SumFunctionOnSet(g, A) \in Int /\ Cardinality(N) \in Nat
    BY <2>1, SumType, FS_CardinalityType
  <2>3. Stake * Cardinality(N) \in Int
    BY <1>1, <2>2
  <2>4. StakesIn(st) = Stake * Cardinality(N) + SumFunctionOnSet(g, A)
    BY DEF StakesIn, A, N, g
  <2>5. QED BY <2>2, <2>3, <2>4
<1>5. Plain => PutBack = 0
  <2> SUFFICES ASSUME Plain PROVE PutBack = 0
    OBVIOUS
  <2> DEFINE A == {a \in Actions : action[a] = "misreported"}
             N == {b \in Bets : stage[b] = "misreported"}
             g == [a \in Actions |-> a.extra]
  <2>1. A = {} /\ N = {}
    <3>1. ~world.misreports /\ (\A b \in Bets : RoundOK(b)) /\ (\A a \in Actions : ActionOK(a))
      BY DEF Plain, IInv, Rounds
    <3>2. \A b \in Bets : stage[b] # "misreported"
      BY <3>1 DEF RoundOK
    <3>3. \A a \in Actions : action[a] # "misreported"
      BY <3>1 DEF ActionOK
    <3>4. QED BY <3>2, <3>3
  <2> HIDE DEF A, N, g
  <2>2. Cardinality(N) = 0 /\ SumFunctionOnSet(g, A) = 0
    BY <2>1, FS_EmptySet, SumEmpty
  <2>3. PutBack = Stake * Cardinality(N) + SumFunctionOnSet(g, A)
    BY DEF PutBack, StakesIn, A, N, g
  <2>4. QED BY <1>1, <2>2, <2>3
<1>6. QED BY <1>3, <1>4, <1>5 DEF InFlight, PutBack

\* Where the host stays, no receipt is misreported and the game waits for openSession, the
\* balance shown is, to the unit, the wallet less the stakes in flight and the payouts
\* still to be presented, whatever reads, bets, actions, settlements and reveals overlap.
THEOREM DisplayIsExact == Spec => [](Orderly(world) => DisplayFollowsTheGame)
<1>1. ASSUME IInv PROVE DisplayFollowsTheGame
  <2> SUFFICES ASSUME Plain, Displayed # None PROVE Displayed = wallet - InFlight - Hidden
    BY DEF DisplayFollowsTheGame, Plain
  <2>1. Displayed = wallet - Total /\ Displayed \in Int
    BY <1>1, Shown
  <2>2. Hidden = SumFunctionOnSet(outcome, Due) /\ Total = InFlight - PutBack + Hidden
    BY <1>1, HiddenIsDue, WhatIsOwed DEF IInv
  <2>3. PutBack = 0 /\ InFlight \in Int /\ Hidden \in Nat /\ wallet \in Nat
    BY <1>1, <2>2, SumsType DEF IInv, TypeOK
  <2>4. QED BY <2>1, <2>2, <2>3
<1>2. QED BY <1>1, LedgerInvariant, PTL

\* However hosts come and go, however many actions overlap or come before openSession has
\* returned, and whichever receipts of opens and actions are misreported, the balance
\* shown never exceeds what the wallet holds less the stakes in flight, but for the
\* wagers and extra stakes put back because a mined transaction was reported failed.
THEOREM NeverShowsTooMuch == Spec => [](Orderly(world) => NeverAhead)
<1>1. ASSUME IInv PROVE NeverAhead
  <2> SUFFICES ASSUME Displayed # None PROVE Displayed <= wallet - InFlight + PutBack
    BY DEF NeverAhead
  <2>1. Displayed <= wallet - Total /\ Displayed \in Int
    BY <1>1, Shown
  <2>2. Total = InFlight - PutBack + SumFunctionOnSet(outcome, Due)
    BY <1>1, WhatIsOwed DEF IInv
  <2>3. /\ InFlight \in Int /\ PutBack \in Int /\ SumFunctionOnSet(outcome, Due) \in Nat
        /\ wallet \in Nat
    BY <1>1, SumsType DEF IInv, TypeOK
  <2>4. QED BY <2>1, <2>2, <2>3
<1>2. QED BY <1>1, LedgerInvariant, PTL

=============================================================================
