----------------------------- MODULE GameProofs -----------------------------
(***************************************************************************)
(* The games.  Klabak, from the word to the claw: what the node proves,    *)
(* the simulator accepts; for every wager and every draw, what KlabakGame  *)
(* pays is what it reserved and what is published, what the contract       *)
(* declares is what the scripts that check it verify, and anybody who      *)
(* replays a round from its word comes to the same.  For any number of     *)
(* pulls, any demo words and any length of the auto queue, the claw comes  *)
(* up with what was drawn, a session is revealed once, a pull is booked    *)
(* once, the queue stops on an error, and the claw, the plate, the banner, *)
(* the shelf and the history tell the same story.  And slot titles,        *)
(* whoever deploys them of whichever bytes and of any size: what a title   *)
(* quotes is what it pays, and the risk declared for it covers every word. *)
(***************************************************************************)
EXTENDS KlabakView, KlabakAudit, SlotDeployer, VerifyNetwork, SequenceTheorems, FiniteSums,
        WellFoundedInduction, TLAPS

-----------------------------------------------------------------------------
(* The word.                                                               *)

\* Division with remainder.
LEMMA DivMod ==
  \A n \in Nat \ {0} : \A a \in Int : \E q \in Int, r \in 0..(n - 1) : r = a % n /\ a = n * q + r
<1> SUFFICES ASSUME NEW n \in Nat, n > 0, NEW a \in Int
             PROVE  \E q \in Int, r \in 0..(n - 1) : r = a % n /\ a = n * q + r
  OBVIOUS
<1>1. a % n \in 0..(n - 1)
  OBVIOUS
<1>2. a \div n \in Int
  OBVIOUS
<1>3. a = n * (a \div n) + (a % n)
  BY Z3
<1> QED BY <1>1, <1>2, <1>3

\* Its remainder is the only one in range.
LEMMA ModUnique ==
  \A n \in Nat \ {0} : \A q, a \in Int : \A r \in 0..(n - 1) : a = n * q + r => a % n = r
<1> SUFFICES ASSUME NEW n \in Nat \ {0}, NEW q \in Int, NEW a \in Int, NEW r \in 0..(n - 1),
                    a = n * q + r
             PROVE  a % n = r
  OBVIOUS
<1>1. PICK p \in Int, m \in 0..(n - 1) : m = a % n /\ a = n * p + m
  BY DivMod, Zenon
<1>2. n * (q - p) = m - r
  BY <1>1
<1>3. CASE q - p >= 1
  <2>1. n * (q - p) >= n
    BY <1>3
  <2> QED BY <2>1, <1>2
<1>4. CASE q - p <= -1
  <2>1. n * (q - p) <= -n
    BY <1>4
  <2> QED BY <2>1, <1>2
<1>5. CASE q = p
  <2>1. m = r
    BY <1>5, <1>2
  <2> QED BY <2>1, <1>1
<1> QED BY <1>3, <1>4, <1>5

\* Numbers that differ by a multiple leave the same remainder.
LEMMA ModCongruent ==
  \A n \in Nat \ {0} : \A a, b, t \in Int : a = b + n * t => a % n = b % n
<1> SUFFICES ASSUME NEW n \in Nat \ {0}, NEW a \in Int, NEW b \in Int, NEW t \in Int, a = b + n * t
             PROVE  a % n = b % n
  OBVIOUS
<1>1. PICK q \in Int, r \in 0..(n - 1) : r = b % n /\ b = n * q + r
  BY DivMod, Zenon
<1>2. a = n * (q + t) + r
  BY <1>1
<1>3. q + t \in Int
  OBVIOUS
<1>4. \A p \in Int : a = n * p + r => a % n = r
  BY ModUnique, Zenon
<1>5. a % n = r
  BY <1>2, <1>3, <1>4
<1> QED BY <1>1, <1>5

-----------------------------------------------------------------------------
\* The points U and V that the page computes from an honest proof are the ones
\* the node hashed: k times the generator and k times H.
LEMMA SameCommitments ==
  ASSUME NEW x \in Points, NEW h \in Points, NEW k \in Points, NEW c \in Nat
  PROVE  LET gamma == (x * h) % Q
             s == (k + c * x) % Q
         IN  /\ (s - c * x) % Q = k
             /\ (s * h - c * gamma) % Q = (k * h) % Q
<1>q. Q \in Nat \ {0} /\ Q > 1
  BY EcvrfAssumption
<1>t. x \in Int /\ h \in Int /\ k \in 0..(Q - 1) /\ k \in Int /\ c \in Int
  BY <1>q DEF Points
<1>u. x * h \in Int /\ k + c * x \in Int
  BY <1>t
<1>1. PICK p \in Int, gamma \in 0..(Q - 1) : gamma = (x * h) % Q /\ x * h = Q * p + gamma
  BY <1>q, <1>u, DivMod, Zenon
<1>2. PICK m \in Int, s \in 0..(Q - 1) : s = (k + c * x) % Q /\ k + c * x = Q * m + s
  BY <1>q, <1>u, DivMod, Zenon
<1>v. gamma \in Int /\ s \in Int
  BY <1>q
<1>c. \A a, b, t \in Int : a = b + Q * t => a % Q = b % Q
  BY <1>q, ModCongruent, Zenon
<1>3. (s - c * x) % Q = k
  <2>1. s - c * x = k + Q * (-m)
    <3>1. Q * (-m) = -(Q * m) /\ Q * m \in Int /\ c * x \in Int
      BY <1>q, <1>t
    <3> DEFINE W == c * x  M == Q * m  N == Q * (-m)
    <3>2. k + W = M + s /\ N = -M /\ M \in Int /\ W \in Int
      BY <1>2, <3>1
    <3> HIDE DEF W, M, N
    <3>3. s - W = k + N
      BY <3>2, <1>t, <1>v
    <3> QED BY <3>3 DEF W, N
  <2>2. s - c * x \in Int /\ -m \in Int
    BY <1>v, <1>t
  <2> DEFINE D == s - c * x
             E == -m
  <2>3. D \in Int /\ E \in Int /\ D = k + Q * E
    BY <2>1, <2>2
  <2> HIDE DEF D, E
  <2>4. D % Q = k % Q
    BY <2>3, <1>t, <1>c, Zenon
  <2>5. k = Q * 0 + k
    BY <1>q, <1>t
  <2>6. 0 \in Int
    OBVIOUS
  <2>7. k % Q = k
    BY <2>5, <2>6, <1>q, <1>t, ModUnique, Zenon
  <2> QED BY <2>4, <2>7 DEF D
<1>4. (s * h - c * gamma) % Q = (k * h) % Q
  <2>1. s = k + c * x - Q * m
    BY <1>2, <1>q, <1>t, <1>v
  <2>2. gamma = x * h - Q * p
    BY <1>1, <1>q, <1>t, <1>v
  <2>3. s * h = k * h + (c * x) * h - (Q * m) * h
    BY <2>1, <1>2, <1>q, <1>t
  <2>4. c * gamma = c * (x * h) - c * (Q * p)
    BY <2>2, <1>1, <1>q, <1>t
  <2>5. (c * x) * h = c * (x * h)
    BY <1>t
  <2>6. (Q * m) * h = Q * (m * h) /\ c * (Q * p) = Q * (c * p)
    BY <1>1, <1>2, <1>q, <1>t
  <2>7. s * h - c * gamma = k * h + Q * (c * p - m * h)
    <3> DEFINE A == s * h  B == c * gamma  K == k * h  E == c * (x * h)  F == m * h  G == c * p
    <3>1. A \in Int /\ B \in Int /\ K \in Int /\ E \in Int /\ F \in Int /\ G \in Int
      BY <1>1, <1>2, <1>t, <1>v
    <3>2. A = K + E - Q * F
      BY <2>3, <2>5, <2>6
    <3>3. B = E - Q * G
      BY <2>4, <2>6
    <3> HIDE DEF A, B, K, E, F, G
    <3>4. A - B = K + Q * (G - F)
      BY <3>1, <3>2, <3>3, <1>q
    <3> QED BY <3>4 DEF A, B, K, G, F
  <2>8. c * p - m * h \in Int /\ s * h - c * gamma \in Int /\ k * h \in Int
    BY <1>1, <1>2, <1>t, <1>v
  <2> DEFINE A == s * h - c * gamma  B == k * h  T == c * p - m * h
  <2>9. A \in Int /\ B \in Int /\ T \in Int /\ A = B + Q * T
    BY <2>7, <2>8
  <2> HIDE DEF A, B, T
  <2>10. A % Q = B % Q
    BY <1>c, <2>9
  <2> QED BY <2>10 DEF A, B
<1> QED BY <1>1, <1>2, <1>3, <1>4

\* hashToCurve answers with a point or with none.
LEMMA HashToCurveIsPoint ==
  ASSUME NEW key \in Points, NEW alpha \in Alphas, IsFulfillable(key, alpha)
  PROVE  HashToCurve(key, alpha) \in Points
<1> DEFINE found == {n \in 0..(HASH_TO_CURVE_MAX_ITERATIONS - 1) : TryHashToPoint(key, alpha, n) # NoPoint}
           first == CHOOSE n \in found : \A m \in found : n <= m
<1>1. found # {}
  BY DEF IsFulfillable, HashToCurve
<1>2. HashToCurve(key, alpha) = TryHashToPoint(key, alpha, first)
  BY <1>1 DEF HashToCurve
<1>3. found \in SUBSET Nat
  BY EcvrfAssumption
<1>4. \E n \in found : \A m \in found : n <= m
  BY <1>1, <1>3, LeastNumber
<1>5. first \in found
  BY <1>4
<1> QED BY <1>2, <1>5, EcvrfAssumption

\* What the node proves under its key, the page verifies under it: a genuine
\* fulfillment of a request that can be proved is never shown as invalid,
\* whatever the curve, the hashes and the key are.
THEOREM Completeness ==
  ASSUME NEW x \in Points, NEW alpha \in Alphas, IsFulfillable(PublicKey(x), alpha)
  PROVE  Verify(PublicKey(x), Prove(x, alpha), alpha)
<1> DEFINE h == HashToCurve(PublicKey(x), alpha)
           gamma == (x * h) % Q
           k == Nonce(x, h)
           c == Challenge(h, gamma, k, (k * h) % Q)
           s == (k + c * x) % Q
           proof == [gamma |-> gamma, c |-> c, s |-> s]
<1>1. proof = Prove(x, alpha)
  BY DEF Prove
<1>2. h \in Points
  BY HashToCurveIsPoint DEF PublicKey
<1>3. k \in Points
  BY <1>2, EcvrfAssumption
<1> HIDE DEF h, k
<1>4. Q \in Nat \ {0} /\ gamma # 0 /\ x * h \in Int /\ k * h \in Int
  <2>1. Q \in Nat \ {0} /\ x \in Int /\ h \in Int /\ k \in Int
    BY <1>2, <1>3, EcvrfAssumption DEF Points
  <2>2. gamma # 0
    BY <1>2, EcvrfAssumption, Zenon
  <2> QED BY <2>1, <2>2
<1>5. gamma \in Points /\ (k * h) % Q \in 0..(Q - 1)
  BY <1>4 DEF Points
<1>6. k \in 0..(Q - 1)
  BY <1>3 DEF Points
<1>7. c \in 0..(C_LIMIT - 1) /\ C_LIMIT \in Nat
  BY <1>2, <1>5, <1>6, EcvrfAssumption
<1>8. k + c * x \in Int
  BY <1>3, <1>7 DEF Points
<1>9. s \in 0..(Q - 1)
  BY <1>4, <1>8
<1> HIDE DEF c
<1>10. (s - c * x) % Q = k /\ (s * h - c * gamma) % Q = (k * h) % Q
  BY <1>2, <1>3, <1>7, SameCommitments
<1> HIDE DEF gamma, s
<1>11. c < C_LIMIT /\ s < Q /\ gamma # NoPoint
  BY <1>4, <1>7, <1>9 DEF NoPoint
<1>12. c = Challenge(h, gamma, (s - c * PublicKey(x)) % Q, (s * h - c * gamma) % Q)
  BY <1>10 DEF PublicKey, c
<1>13. proof.gamma = gamma /\ proof.c = c /\ proof.s = s
  OBVIOUS
<1> HIDE DEF proof
<1> QED BY <1>1, <1>11, <1>12, <1>13 DEF Verify, h

\* A row of a session's request, as a game hands it in.
Row(row) ==
  row = [requestId |-> row.requestId, fulfilled |-> row.fulfilled, randomness |-> row.randomness,
         transactionHash |-> row.transactionHash, checks |-> row.checks, valid |-> row.valid]

\* verifyRequest finds the fulfillment that the assigned node sent for a request
\* valid, through the log, the calldata and the signature of its transaction,
\* whatever else is on the router: for a row with its hash, and with its word or
\* none.
THEOREM GenuineIsValid ==
  ASSUME NEW x \in Points, NEW request \in Alphas,
         IsFulfillable(PublicKey(x), request), request.fulfiller = PublicKey(x),
         NEW transactions, NEW t \in Int, t # Absent,
         transactions[t] =
           FulfillmentTransaction(<<>>, <<Fulfillment(request, Prove(x, request), x)>>),
         NEW row, Row(row), row.requestId = request, row.transactionHash = t,
         row.randomness \in {Absent, DeriveRandomness(Prove(x, request))}
  PROVE  VerifyRequest(transactions, row, TRUE).valid
<1> DEFINE f == Fulfillment(request, Prove(x, request), x)
           tx == FulfillmentTransaction(<<>>, <<f>>)
           log == FulfilledLog(Router, f)
<1>1. f.request = request /\ f.proof = Prove(x, request)
      /\ f.signature = SignFulfillment(x, request, Prove(x, request))
  BY DEF Fulfillment, ComputeRequestId
<1>2. log.address = Router /\ log.requestId = request /\ log.proof = Prove(x, request)
      /\ log.signature = f.signature /\ log.randomness = DeriveRandomness(Prove(x, request))
  BY <1>1 DEF FulfilledLog, ComputeRequestId
<1>3. tx.calls = <<f>> /\ tx.logs = <<log>>
  BY DEF FulfillmentTransaction
<1> HIDE DEF f, log, tx
<1>4. FindFulfillmentLog(tx.logs, request) = {log}
  BY <1>2, <1>3 DEF FindFulfillmentLog, FirstOf
<1>5. FindEchoedRequest(tx.calls, request) = {request}
  BY <1>1, <1>3 DEF FindEchoedRequest, FirstOf, ComputeRequestId
<1>6. RecoverFulfillmentSigner(request, log.proof, log.signature) = PublicKey(x)
  BY <1>1, <1>2 DEF RecoverFulfillmentSigner, SignFulfillment
<1>7. PublicKey(x) # NoPoint
  BY EcvrfAssumption DEF PublicKey, Points, NoPoint
<1>8. Verify(PublicKey(x), log.proof, request)
  BY <1>2, Completeness
<1>9. transactions[t] = tx
  BY DEF tx, f
<1> DEFINE hash == IF row.transactionHash # Absent THEN row.transactionHash
                   ELSE FindFulfillmentTransaction(transactions, row.requestId)
           found == IF hash = Absent \/ ~TRUE THEN {}
                    ELSE FindFulfillmentLog(transactions[hash].logs, row.requestId)
           chosen == CHOOSE l \in found : TRUE
           echo == FindEchoedRequest(transactions[hash].calls, row.requestId)
           signer == RecoverFulfillmentSigner(row.requestId, chosen.proof, chosen.signature)
           proofValid == signer # NoPoint /\ Verify(signer, chosen.proof, row.requestId)
           word == /\ proofValid
                   /\ DeriveRandomness(chosen.proof) = chosen.randomness
                   /\ row.randomness \in {Absent, chosen.randomness}
           assigned == \E r \in echo : signer = r.fulfiller
           checks == [vrfProofValid |-> proofValid, vrfBetaMatchesRandomness |-> word,
                      enclaveSignatureValid |-> signer # NoPoint,
                      signerMatchesFulfiller |-> assigned]
           verdict == [row EXCEPT !.randomness = IF @ = Absent THEN chosen.randomness ELSE @,
                                  !.fulfilled = TRUE,
                                  !.transactionHash = hash,
                                  !.checks = {checks},
                                  !.valid = \A c \in DOMAIN checks : checks[c]]
<1>10. VerifyRequest(transactions, row, TRUE) = IF found = {} THEN Unchecked(row) ELSE verdict
  BY DEF VerifyRequest
<1>11. hash = t
  OBVIOUS
<1>12. found = {log}
  BY <1>11, <1>4, <1>9
<1>13. chosen = log
  BY <1>12
<1>14. echo = {request}
  BY <1>11, <1>5, <1>9
<1> HIDE DEF hash, found, chosen, echo
<1>15. signer = PublicKey(x)
  BY <1>13, <1>6
<1> HIDE DEF signer
<1>16. proofValid
  BY <1>15, <1>13, <1>7, <1>8
<1>17. word
  BY <1>16, <1>13, <1>2
<1>18. assigned
  BY <1>14, <1>15
<1>19. signer # NoPoint
  BY <1>15, <1>7
<1> HIDE DEF proofValid, word, assigned
<1>20. \A c \in DOMAIN checks : checks[c]
  <2>1. DOMAIN checks = {"vrfProofValid", "vrfBetaMatchesRandomness", "enclaveSignatureValid",
                         "signerMatchesFulfiller"}
    OBVIOUS
  <2>2. /\ checks["vrfProofValid"] = proofValid
        /\ checks["vrfBetaMatchesRandomness"] = word
        /\ checks["enclaveSignatureValid"] = (signer # NoPoint)
        /\ checks["signerMatchesFulfiller"] = assigned
    BY Zenon
  <2> HIDE DEF checks
  <2> QED BY <1>16, <1>17, <1>18, <1>19, <2>1, <2>2, Zenon
<1> DEFINE all == \A c \in DOMAIN checks : checks[c]
<1> HIDE DEF checks
<1>21. all = TRUE
  BY <1>20, Zenon
<1>22. verdict = [row EXCEPT !.randomness = IF @ = Absent THEN chosen.randomness ELSE @,
                             !.fulfilled = TRUE, !.transactionHash = hash,
                             !.checks = {checks}, !.valid = all]
  BY Zenon
<1> HIDE DEF all
<1>23. verdict.valid = all
  BY <1>22 DEF Row
<1> HIDE DEF verdict
<1>24. VerifyRequest(transactions, row, TRUE) = verdict
  BY <1>10, <1>12
<1> QED
  BY <1>21, <1>23, <1>24, Zenon

\* The gas a fulfillment is sent with leaves the callback its whole limit: 63 of
\* 64 parts of what is left once the fulfillment itself has spent its share.
THEOREM CallbackKeepsItsLimit ==
  ASSUME NEW limit \in Nat, NEW bytes \in Nat
  PROVE  LET left == FulfillmentGas(limit, bytes) - 250000 - 17 * bytes
         IN  left - left \div 64 >= limit
  BY SMTT(30) DEF FulfillmentGas

-----------------------------------------------------------------------------
(* The game.                                                               *)

\* There are draws.
LEMMA ScaleType == PROB_SCALE \in Nat \ {0}
<1>1. QED BY SMT DEF PROB_SCALE

\* What the tables hold, by cabinet.
LEMMA WeightTable ==
  /\ Weight(0, 0) = 500000 /\ Weight(0, 1) = 360000
  /\ Weight(0, 2) = 110000 /\ Weight(0, 3) = 30000
  /\ Weight(1, 0) = 780000 /\ Weight(1, 1) = 150000
  /\ Weight(1, 2) = 55000 /\ Weight(1, 3) = 15000
  /\ Weight(2, 0) = 735000 /\ Weight(2, 1) = 240000
  /\ Weight(2, 2) = 20000 /\ Weight(2, 3) = 5000
<1>1. QED BY SMT DEF Weight, WeightRow

\* The same of the multipliers.
LEMMA MultiplierTable ==
  /\ Multiplier(0, 0) = 0 /\ Multiplier(0, 1) = 160
  /\ Multiplier(0, 2) = 240 /\ Multiplier(0, 3) = 400
  /\ Multiplier(1, 0) = 0 /\ Multiplier(1, 1) = 200
  /\ Multiplier(1, 2) = 600 /\ Multiplier(1, 3) = 2200
  /\ Multiplier(2, 0) = 0 /\ Multiplier(2, 1) = 150
  /\ Multiplier(2, 2) = 600 /\ Multiplier(2, 3) = 9600
<1>1. QED BY DEF Multiplier, MultiplierRow

\* The best tier is the top one.
LEMMA TopTierMultiplier ==
  ASSUME NEW cabinet \in Cabinets, NEW tier \in Tiers
  PROVE  /\ Multiplier(cabinet, tier) \in Nat
         /\ Multiplier(cabinet, tier) <= Multiplier(cabinet, TIER_TOP)
         /\ Multiplier(cabinet, TIER_TOP) \in {400, 2200, 9600}
<1>1. cabinet \in {0, 1, 2} /\ tier \in {0, 1, 2, 3} /\ TIER_TOP = 3
  BY DEF Cabinets, Tiers, CABINET_COUNT, TIER_COUNT, TIER_TOP
<1>2. QED BY <1>1, MultiplierTable

\* The running sums climb by the weights, up to all of PROB_SCALE.
LEMMA RunningSums ==
  ASSUME NEW cabinet \in Cabinets
  PROVE  /\ \A t \in Tiers : Weight(cabinet, t) \in Nat \ {0}
         /\ Accumulated(cabinet, 0) = Weight(cabinet, 0)
         /\ Accumulated(cabinet, 1) = Accumulated(cabinet, 0) + Weight(cabinet, 1)
         /\ Accumulated(cabinet, 2) = Accumulated(cabinet, 1) + Weight(cabinet, 2)
         /\ Accumulated(cabinet, 3) = Accumulated(cabinet, 2) + Weight(cabinet, 3)
         /\ Accumulated(cabinet, 3) = PROB_SCALE
<1>1. cabinet \in {0, 1, 2} /\ Tiers = {0, 1, 2, 3}
  BY DEF Cabinets, Tiers, CABINET_COUNT, TIER_COUNT
<1>2. \A t \in Tiers : Weight(cabinet, t) \in Nat \ {0}
  BY <1>1, WeightTable, SMT
<1>3. /\ Accumulated(cabinet, 0) = Weight(cabinet, 0)
      /\ Accumulated(cabinet, 1) = Weight(cabinet, 0) + Weight(cabinet, 1)
      /\ Accumulated(cabinet, 2) =
           Weight(cabinet, 0) + Weight(cabinet, 1) + Weight(cabinet, 2)
      /\ Accumulated(cabinet, 3) =
           Weight(cabinet, 0) + Weight(cabinet, 1) + Weight(cabinet, 2) + Weight(cabinet, 3)
  BY DEF Accumulated
<1>4. Weight(cabinet, 0) + Weight(cabinet, 1) + Weight(cabinet, 2) + Weight(cabinet, 3)
        = 1000000
  BY <1>1, WeightTable, SMT
<1>5. \A t \in {0, 1, 2, 3} : Weight(cabinet, t) \in Nat
  BY <1>1, <1>2
<1>6. PROB_SCALE = 1000000
  BY SMT DEF PROB_SCALE
<1>7. QED BY <1>2, <1>3, <1>4, <1>5, <1>6, SMT

\* Whatever the wager, the profit reserved at the start covers the payout of
\* every tier: onRandomness never returns a payout the host refuses.
THEOREM ReserveCoversEveryTier ==
  ASSUME NEW wager \in Nat, NEW cabinet \in Cabinets, NEW tier \in Tiers
  PROVE  /\ Payout(wager, cabinet, tier) \in Nat
         /\ ReservedProfit(wager, cabinet) \in Nat
         /\ Payout(wager, cabinet, tier) <= wager + ReservedProfit(wager, cabinet)
<1> DEFINE m == Multiplier(cabinet, tier)
           top == Multiplier(cabinet, TIER_TOP)
<1>1. m \in Nat /\ m <= top /\ top \in {400, 2200, 9600}
  BY TopTierMultiplier
<1>2. /\ Payout(wager, cabinet, tier) = (wager * m) \div 100
      /\ Payout(wager, cabinet, TIER_TOP) = (wager * top) \div 100
  BY DEF Payout, MULT_SCALE
<1> HIDE DEF m, top
<1>3. wager * m \in Nat /\ wager * top \in Nat /\ wager * m <= wager * top
  BY <1>1
<1>4. /\ (wager * m) \div 100 \in Nat /\ (wager * top) \div 100 \in Nat
      /\ (wager * m) \div 100 <= (wager * top) \div 100
  <2> DEFINE x == wager * m
             y == wager * top
  <2>1. x \in Nat /\ y \in Nat /\ x <= y
    BY <1>3
  <2> HIDE DEF x, y
  <2>2. x \div 100 \in Nat /\ y \div 100 \in Nat /\ x \div 100 <= y \div 100
    BY <2>1
  <2>3. QED BY <2>2 DEF x, y
<1>5. QED BY <1>2, <1>4 DEF ReservedProfit

\* Each draw falls into exactly the tier whose share of PROB_SCALE it is in, so
\* that tier t takes Weight(cabinet, t) draws of the PROB_SCALE there are, and
\* the fallback to the top tier is never used.
THEOREM TiersPartitionTheDraws ==
  ASSUME NEW cabinet \in Cabinets, NEW tier \in Tiers, NEW draw \in 0..(PROB_SCALE - 1)
  PROVE  /\ TierOf(cabinet, draw) \in Tiers
         /\ TierOf(cabinet, draw) = tier <=>
              /\ draw < Accumulated(cabinet, tier)
              /\ draw >= Accumulated(cabinet, tier) - Weight(cabinet, tier)
<1> DEFINE Acc(t) == Accumulated(cabinet, t)
           First(t) == draw < Acc(t) /\ \A u \in Tiers : u < t => draw >= Acc(u)
<1>1. /\ Tiers = {0, 1, 2, 3} /\ TIER_TOP = 3
      /\ draw \in Nat /\ PROB_SCALE \in Nat /\ draw < PROB_SCALE
  <2>1. Tiers = {0, 1, 2, 3} /\ TIER_TOP = 3
    BY DEF Tiers, TIER_COUNT, TIER_TOP
  <2>2. QED BY <2>1, ScaleType
<1>2. /\ \A t \in Tiers : Acc(t) \in Nat
      /\ Acc(0) < Acc(1) /\ Acc(1) < Acc(2) /\ Acc(2) < Acc(3) /\ draw < Acc(3)
      /\ Acc(0) - Weight(cabinet, 0) = 0 /\ Acc(1) - Weight(cabinet, 1) = Acc(0)
      /\ Acc(2) - Weight(cabinet, 2) = Acc(1) /\ Acc(3) - Weight(cabinet, 3) = Acc(2)
  <2>1. /\ \A t \in {0, 1, 2, 3} : Weight(cabinet, t) \in Nat \ {0}
        /\ Acc(0) = Weight(cabinet, 0) /\ Acc(1) = Acc(0) + Weight(cabinet, 1)
        /\ Acc(2) = Acc(1) + Weight(cabinet, 2) /\ Acc(3) = Acc(2) + Weight(cabinet, 3)
        /\ draw < Acc(3)
    BY <1>1, RunningSums
  <2> HIDE DEF Acc
  <2>2. QED BY <1>1, <2>1
<1>3. TierOf(cabinet, draw) = CHOOSE t \in Tiers : First(t)
  BY <1>1, <1>2 DEF TierOf
<1> HIDE DEF Acc
<1>4. \E t \in Tiers : First(t)
  BY <1>1, <1>2
<1>5. \A t, u \in Tiers : First(t) /\ First(u) => t = u
  BY <1>1, <1>2
<1>6. First(tier) <=> draw < Acc(tier) /\ draw >= Acc(tier) - Weight(cabinet, tier)
  BY <1>1, <1>2
<1>7. TierOf(cabinet, draw) \in Tiers /\ First(TierOf(cabinet, draw))
  BY <1>3, <1>4
<1>8. QED BY <1>5, <1>6, <1>7 DEF Acc

\* A draw is below PROB_SCALE whichever candidates are rejected.
THEOREM DrawsAreInRange ==
  ASSUME NEW rnd \in RandomnessWord
  PROVE  DrawOf(rnd) \in 0..(PROB_SCALE - 1)
<1> DEFINE accepted == {i \in DOMAIN rnd.candidate : rnd.candidate[i] < DRAW_LIMIT}
<1>1. /\ rnd.candidate \in [0..7 -> 0..(Word - 1)]
      /\ rnd.lastResort \in 0..(PROB_SCALE - 1) /\ Word \in Nat
  BY KlabakAssumption DEF RandomnessWord, DRAW_ATTEMPTS
<1>2. DrawOf(rnd) = IF accepted = {} THEN rnd.lastResort
                    ELSE LET i == CHOOSE i \in accepted : \A j \in accepted : i <= j
                         IN  rnd.candidate[i] % PROB_SCALE
  BY DEF DrawOf
<1>3. accepted \subseteq 0..7 /\ \A i \in accepted : rnd.candidate[i] \in Nat
  BY <1>1
<1> HIDE DEF accepted
<1>4. CASE accepted = {}
  BY <1>1, <1>2, <1>4
<1>5. CASE accepted # {}
  <2>1. \E k \in accepted : \A j \in accepted : k <= j
    <3> SUFFICES ASSUME \A k \in accepted : \E j \in accepted : j < k PROVE FALSE
      BY <1>3
    <3>0. 0 \notin accepted
      BY <1>3
    <3>1. 1 \notin accepted
      BY <1>3, <3>0
    <3>2. 2 \notin accepted
      BY <1>3, <3>0, <3>1
    <3>3. 3 \notin accepted
      BY <1>3, <3>0, <3>1, <3>2
    <3>4. 4 \notin accepted
      BY <1>3, <3>0, <3>1, <3>2, <3>3
    <3>5. 5 \notin accepted
      BY <1>3, <3>0, <3>1, <3>2, <3>3, <3>4
    <3>6. 6 \notin accepted
      BY <1>3, <3>0, <3>1, <3>2, <3>3, <3>4, <3>5
    <3>7. 7 \notin accepted
      BY <1>3, <3>0, <3>1, <3>2, <3>3, <3>4, <3>5, <3>6
    <3>8. \A k \in 0..7 : k \in {0, 1, 2, 3, 4, 5, 6, 7}
      OBVIOUS
    <3>9. PICK k \in accepted : TRUE
      BY <1>5
    <3>10. k \in {0, 1, 2, 3, 4, 5, 6, 7}
      BY <1>3, <3>8, <3>9
    <3>11. QED BY <3>0, <3>1, <3>2, <3>3, <3>4, <3>5, <3>6, <3>7, <3>9, <3>10
  <2>2. PICK i \in accepted : DrawOf(rnd) = rnd.candidate[i] % PROB_SCALE
    BY <1>2, <1>5, <2>1
  <2>3. rnd.candidate[i] \in Nat
    BY <1>3
  <2>4. QED BY <2>2, <2>3, ScaleType
<1>6. QED BY <1>4, <1>5

\* Of the numbers below k * n, k times w leave a remainder among w given ones.
LEMMA ResidueCount ==
  \A n \in Nat \ {0} : \A k, lo, w \in Nat :
    lo + w <= n => Cardinality({x \in 0..(k * n - 1) : lo <= x % n /\ x % n < lo + w}) = k * w
<1> SUFFICES ASSUME NEW n \in Nat \ {0}, NEW k \in Nat, NEW lo \in Nat, NEW w \in Nat, lo + w <= n
             PROVE  Cardinality({x \in 0..(k * n - 1) : lo <= x % n /\ x % n < lo + w}) = k * w
  BY Zenon
<1> DEFINE T == {x \in 0..(k * n - 1) : lo <= x % n /\ x % n < lo + w}
           S == (0..(k - 1)) \X (0..(w - 1))
           f == [p \in S |-> n * p[1] + (lo + p[2])]
<1>1. IsFiniteSet(S) /\ Cardinality(S) = k * w
  <2>1. /\ IsFiniteSet(0..(k - 1)) /\ Cardinality(0..(k - 1)) = k
        /\ IsFiniteSet(0..(w - 1)) /\ Cardinality(0..(w - 1)) = w
    <3>1. \A a \in Nat : IsFiniteSet(0..(a - 1)) /\ Cardinality(0..(a - 1)) = a
      <4> TAKE a \in Nat
      <4>1. /\ IsFiniteSet(0..(a - 1))
            /\ Cardinality(0..(a - 1)) = IF 0 > a - 1 THEN 0 ELSE (a - 1) - 0 + 1
        BY FS_Interval
      <4> QED BY <4>1
    <3> QED BY <3>1
  <2> DEFINE A == 0..(k - 1)  B == 0..(w - 1)
  <2> HIDE DEF A, B
  <2>2. IsFiniteSet(A) /\ Cardinality(A) = k /\ IsFiniteSet(B) /\ Cardinality(B) = w
    BY <2>1 DEF A, B
  <2>3. IsFiniteSet(A \X B) /\ Cardinality(A \X B) = k * w
    BY <2>2, FS_Product
  <2> QED BY <2>3, Zenon DEF A, B
<1>2. \A p \in S : p[1] \in 0..(k - 1) /\ p[2] \in 0..(w - 1)
  OBVIOUS
<1>3. \A p \in S : f[p] = n * p[1] + (lo + p[2]) /\ f[p] % n = lo + p[2]
  <2> SUFFICES ASSUME NEW p \in S
               PROVE  f[p] = n * p[1] + (lo + p[2]) /\ f[p] % n = lo + p[2]
    OBVIOUS
  <2>1. f[p] = n * p[1] + (lo + p[2])
    OBVIOUS
  <2>2. p[1] \in Int /\ lo + p[2] \in 0..(n - 1) /\ f[p] \in Int
    BY <1>2, <2>1
  <2> HIDE DEF f
  <2> QED BY <2>1, <2>2, ModUnique
<1>4. f \in [S -> T]
  <2> SUFFICES ASSUME NEW p \in S PROVE f[p] \in T
    OBVIOUS
  <2>1. /\ f[p] = n * p[1] + (lo + p[2]) /\ f[p] % n = lo + p[2]
        /\ p[1] \in 0..(k - 1) /\ p[2] \in 0..(w - 1)
    BY <1>2, <1>3
  <2> HIDE DEF f
  <2>2. n * p[1] + n <= k * n /\ n * p[1] \in Nat
    <3>1. n * (p[1] + 1) <= n * k
      BY <2>1
    <3> QED BY <3>1, <2>1
  <2>3. f[p] \in Nat /\ f[p] < k * n
    BY <2>1, <2>2
  <2> QED BY <2>1, <2>3
<1>5. \A p, q \in S : f[p] = f[q] => p = q
  <2> SUFFICES ASSUME NEW p \in S, NEW q \in S, f[p] = f[q] PROVE p = q
    OBVIOUS
  <2>1. lo + p[2] = lo + q[2] /\ n * p[1] + (lo + p[2]) = n * q[1] + (lo + q[2])
    BY <1>3
  <2>2. p[1] \in Int /\ q[1] \in Int /\ p[2] \in Int /\ q[2] \in Int
    BY <1>2
  <2> HIDE DEF f
  <2>3. p[2] = q[2] /\ n * p[1] = n * q[1]
    BY <2>1, <2>2
  <2>4. p[1] = q[1]
    BY <2>2, <2>3
  <2> QED BY <2>3, <2>4
<1>6. \A x \in T : \E p \in S : f[p] = x
  <2> SUFFICES ASSUME NEW x \in T PROVE \E p \in S : f[p] = x
    OBVIOUS
  <2>0. x \in Int /\ n \in Nat \ {0}
    OBVIOUS
  <2>1. PICK q \in Int, r \in 0..(n - 1) : r = x % n /\ x = n * q + r
    BY <2>0, DivMod, Zenon
  <2>2. q \in 0..(k - 1)
    <3>1. n * q + r >= 0 /\ n * q + r < n * k /\ r >= 0 /\ r < n
      BY <2>1
    <3>2. q >= 0
      <4>1. q < 0 => n * q <= 0 - n
        OBVIOUS
      <4> QED BY <3>1, <4>1
    <3>3. q < k
      <4>1. q >= k => n * q >= n * k
        OBVIOUS
      <4> QED BY <3>1, <4>1
    <3> QED BY <3>2, <3>3
  <2>3. r - lo \in 0..(w - 1)
    BY <2>1
  <2>4. <<q, r - lo>> \in S
    BY <2>2, <2>3
  <2>5. f[<<q, r - lo>>] = n * q + (lo + (r - lo))
    BY <2>4
  <2> HIDE DEF f, S
  <2>6. f[<<q, r - lo>>] = x
    BY <2>1, <2>5
  <2> QED BY <2>4, <2>6
<1>7. ExistsBijection(S, T)
  <2> HIDE DEF f, S, T
  <2> QED BY <1>4, <1>5, <1>6
       DEF ExistsBijection, Bijection, Injection, Surjection, IsInjective
<1> HIDE DEF S, T
<1>8. Cardinality(T) = Cardinality(S)
  BY <1>1, <1>7, FS_Bijection
<1> QED BY <1>1, <1>8 DEF T

\* Rejecting the candidates from DRAW_LIMIT on leaves no bias: DRAW_LIMIT being a multiple
\* of PROB_SCALE, a tier is drawn by exactly its weight's share of the candidates accepted.
THEOREM DrawsAreUnbiased ==
  ASSUME NEW cabinet \in Cabinets, NEW tier \in Tiers,
         NEW k \in Nat, DRAW_LIMIT = k * PROB_SCALE
  PROVE  Cardinality({x \in 0..(Word - 1) :
                        x < DRAW_LIMIT /\ TierOf(cabinet, x % PROB_SCALE) = tier})
           = k * Weight(cabinet, tier)
<1> DEFINE n == PROB_SCALE
           w == Weight(cabinet, tier)
           lo == Accumulated(cabinet, tier) - w
<1>1. n \in Nat \ {0}
  BY ScaleType, Zenon
<1>2. w \in Nat /\ lo \in Nat /\ lo + w <= n /\ Accumulated(cabinet, tier) = lo + w
  <2>1. tier \in {0, 1, 2, 3}
    BY DEF Tiers, TIER_COUNT
  <2>2. \A t \in Tiers : Weight(cabinet, t) \in Nat \ {0}
    BY RunningSums
  <2> QED BY <2>1, <2>2, RunningSums, SMT DEF Tiers, TIER_COUNT
<1>3. DRAW_LIMIT = k * n /\ DRAW_LIMIT <= Word /\ DRAW_LIMIT \in Nat /\ Word \in Nat
  BY KlabakAssumption, Zenon
<1>4. \A draw \in 0..(n - 1) :
        TierOf(cabinet, draw) = tier <=> draw < lo + w /\ lo <= draw
  <2> TAKE draw \in 0..(n - 1)
  <2>1. TierOf(cabinet, draw) = tier <=> draw < Accumulated(cabinet, tier) /\ draw >= lo
    BY TiersPartitionTheDraws, Zenon
  <2> QED BY <2>1, <1>2
<1> HIDE DEF n, w, lo
<1>5. \A x \in Nat : x % n \in 0..(n - 1)
  BY <1>1
<1>6. {x \in 0..(Word - 1) : x < DRAW_LIMIT /\ TierOf(cabinet, x % n) = tier}
        = {x \in 0..(k * n - 1) : lo <= x % n /\ x % n < lo + w}
  <2>1. \A x \in 0..(Word - 1) : x \in Nat /\ (x < DRAW_LIMIT <=> x \in 0..(k * n - 1))
    BY <1>3
  <2>2. \A x \in 0..(k * n - 1) : x \in 0..(Word - 1)
    BY <1>3
  <2>3. \A x \in Nat : TierOf(cabinet, x % n) = tier <=> (x % n < lo + w /\ lo <= x % n)
    BY <1>4, <1>5
  <2> QED BY <2>1, <2>2, <2>3, Zenon
<1>7. Cardinality({x \in 0..(k * n - 1) : lo <= x % n /\ x % n < lo + w}) = k * w
  <2>1. \A a, b, c \in Nat :
          b + c <= n => Cardinality({x \in 0..(a * n - 1) : b <= x % n /\ x % n < b + c}) = a * c
    BY <1>1, ResidueCount, Zenon
  <2>2. k \in Nat /\ w \in Nat /\ lo \in Nat /\ lo + w <= n
    BY <1>2, Zenon
  <2> QED BY <2>1, <2>2, Zenon
<1> QED BY <1>6, <1>7, Zenon DEF n, w

-----------------------------------------------------------------------------
(* The paytable and its checks.                                            *)

\* The paytable of the repository passes the generator's verification: each
\* cabinet returns 960000 parts per million.
THEOREM PublishedTablesVerify == Verified(Tables)
<1> DEFINE good(c) ==
             LET tiers == Tables.cabinets[c]
             IN  /\ tiers[1].weight + tiers[2].weight + tiers[3].weight + tiers[4].weight
                      = Tables.probabilityScale
                 /\ tiers[1].multiplier = 0
                 /\ (tiers[1].weight * tiers[1].multiplier + tiers[2].weight * tiers[2].multiplier
                       + tiers[3].weight * tiers[3].multiplier + tiers[4].weight * tiers[4].multiplier)
                      * 1000000 = Tables.declaredRtpPpm * (Tables.probabilityScale * Tables.multiplierScale)
                 /\ \A t \in 1..4 : tiers[t].multiplier <= 10000
<1>1. \A t \in 1..4 : t \in {1, 2, 3, 4}
  OBVIOUS
<1>2. good(1)
  BY <1>1, SMT DEF Tables, Entry
<1>3. good(2)
  BY <1>1, SMT DEF Tables, Entry
<1>4. good(3)
  BY <1>1, SMT DEF Tables, Entry
<1>5. DOMAIN Tables.cabinets = {1, 2, 3}
  BY SMT DEF Tables
<1>6. (\A c \in DOMAIN Tables.cabinets : good(c)) => Verified(Tables)
  BY SMT DEF Verified
<1> HIDE DEF good
<1>7. QED BY <1>2, <1>3, <1>4, <1>5, <1>6, Zenon

\* The contract's two tables are the published ones.
LEMMA SameTables ==
  ASSUME NEW cabinet \in Cabinets, NEW t \in Tiers
  PROVE  /\ Weight(cabinet, t) = Tables.cabinets[cabinet + 1][t + 1].weight
         /\ Multiplier(cabinet, t) = Tables.cabinets[cabinet + 1][t + 1].multiplier
<1>1. cabinet \in {0, 1, 2} /\ t \in {0, 1, 2, 3}
  BY DEF Cabinets, Tiers, CABINET_COUNT, TIER_COUNT
<1>2. CASE cabinet = 0
  BY <1>1, <1>2, WeightTable, MultiplierTable, SMT DEF Tables, Entry
<1>3. CASE cabinet = 1
  BY <1>1, <1>3, WeightTable, MultiplierTable, SMT DEF Tables, Entry
<1>4. CASE cabinet = 2
  BY <1>1, <1>4, WeightTable, MultiplierTable, SMT DEF Tables, Entry
<1>5. QED BY <1>1, <1>2, <1>3, <1>4

\* verify-declared-rtp.mjs finds nothing wrong, whatever the wager: the contract's
\* arrays are the published ones, it declares the published return, its caps are the
\* stake and the profit on the best prize, and that prize is the one it quotes a risk for.
THEOREM ContractDeclaresTables ==
  ASSUME NEW game, NEW cabinet \in Cabinets, NEW wager \in Nat
  PROVE  DeclaresTables(game, cabinet, wager)
<1> DEFINE tiers == Tables.cabinets[cabinet + 1]
<1>1. cabinet \in {0, 1, 2} /\ Tiers = {0, 1, 2, 3} /\ TIER_TOP = 3
  BY DEF Cabinets, Tiers, CABINET_COUNT, TIER_COUNT, TIER_TOP
<1>2. \A t \in Tiers : /\ Weight(cabinet, t) = tiers[t + 1].weight
                       /\ Multiplier(cabinet, t) = tiers[t + 1].multiplier
  BY SameTables
<1>3. \A t \in Tiers : /\ Paytable(cabinet).weightsPpm[t + 1] = tiers[t + 1].weight
                       /\ Paytable(cabinet).multipliersCenti[t + 1] = tiers[t + 1].multiplier
  BY <1>2 DEF Paytable, Weight, Multiplier
<1>4. DeclaredRtpPpm(cabinet) = Tables.declaredRtpPpm
  <2>1. Weight(cabinet, 0) * Multiplier(cabinet, 0) + Weight(cabinet, 1) * Multiplier(cabinet, 1)
          + Weight(cabinet, 2) * Multiplier(cabinet, 2) + Weight(cabinet, 3) * Multiplier(cabinet, 3)
          = 96000000
    BY <1>1, WeightTable, MultiplierTable, SMT
  <2>2. Tables.declaredRtpPpm = 960000
    BY DEF Tables
  <2>3. PROB_SCALE = 1000000 /\ MULT_SCALE = 100
    BY SMT DEF PROB_SCALE, MULT_SCALE
  <2>4. (96000000 * 1000000) \div (1000000 * 100) = 960000
    BY SMT
  <2>5. QED BY <2>1, <2>2, <2>3, <2>4, SMT DEF DeclaredRtpPpm
<1>5. LET product(t) == Paytable(cabinet).weightsPpm[t] * Paytable(cabinet).multipliersCenti[t]
      IN  (product(1) + product(2) + product(3) + product(4)) * PPM
            = Tables.declaredRtpPpm * (Tables.probabilityScale * Tables.multiplierScale)
  <2>1. \A t \in {0, 1, 2, 3} : /\ Paytable(cabinet).weightsPpm[t + 1] = Weight(cabinet, t)
                               /\ Paytable(cabinet).multipliersCenti[t + 1] = Multiplier(cabinet, t)
    BY DEF Paytable, Weight, Multiplier
  <2>2. /\ Paytable(cabinet).weightsPpm[1] * Paytable(cabinet).multipliersCenti[1]
             = Weight(cabinet, 0) * Multiplier(cabinet, 0)
        /\ Paytable(cabinet).weightsPpm[2] * Paytable(cabinet).multipliersCenti[2]
             = Weight(cabinet, 1) * Multiplier(cabinet, 1)
        /\ Paytable(cabinet).weightsPpm[3] * Paytable(cabinet).multipliersCenti[3]
             = Weight(cabinet, 2) * Multiplier(cabinet, 2)
        /\ Paytable(cabinet).weightsPpm[4] * Paytable(cabinet).multipliersCenti[4]
             = Weight(cabinet, 3) * Multiplier(cabinet, 3)
    <3>1. 0 + 1 = 1 /\ 1 + 1 = 2 /\ 2 + 1 = 3 /\ 3 + 1 = 4
      OBVIOUS
    <3>2. QED BY <2>1, <3>1
  <2>3. Weight(cabinet, 0) * Multiplier(cabinet, 0) + Weight(cabinet, 1) * Multiplier(cabinet, 1)
          + Weight(cabinet, 2) * Multiplier(cabinet, 2) + Weight(cabinet, 3) * Multiplier(cabinet, 3)
          = 96000000
    BY <1>1, WeightTable, MultiplierTable, SMT
  <2>4. /\ Tables.declaredRtpPpm = 960000 /\ Tables.probabilityScale = 1000000
        /\ Tables.multiplierScale = 100
    BY SMT DEF Tables
  <2>5. 96000000 * PPM = 960000 * (1000000 * 100)
    BY SMT DEF PPM
  <2>6. QED BY <2>2, <2>3, <2>4, <2>5, SMT
<1>6. \A t \in Tiers : tiers[t + 1].multiplier <= tiers[TIER_TOP + 1].multiplier
  BY <1>1, <1>2, TopTierMultiplier
<1>7. KlabakQuoteCaps(game, wager, cabinet) =
        {[maxEscrowStake |-> wager,
          maxReservedProfit |-> (wager * tiers[TIER_TOP + 1].multiplier) \div 100 - wager]}
  <2> DEFINE m == Multiplier(cabinet, TIER_TOP)
  <2>1. m = tiers[TIER_TOP + 1].multiplier /\ m \in {400, 2200, 9600}
    BY <1>1, <1>2, TopTierMultiplier
  <2>2. Payout(wager, cabinet, TIER_TOP) = (wager * m) \div 100
    BY DEF Payout, MULT_SCALE
  <2> HIDE DEF m
  <2>3. (wager * m) \div 100 \in Int /\ (wager * m) \div 100 >= wager
    <3>1. CASE m = 400
      BY <3>1
    <3>2. CASE m = 2200
      BY <3>2
    <3>3. CASE m = 9600
      BY <3>3
    <3>4. QED BY <2>1, <3>1, <3>2, <3>3
  <2>4. ReservedProfit(wager, cabinet) = (wager * m) \div 100 - wager
    BY <2>2, <2>3 DEF ReservedProfit
  <2>5. Cabinets \cap {cabinet} = {cabinet}
    OBVIOUS
  <2>6. QED BY <2>1, <2>4, <2>5 DEF KlabakQuoteCaps
<1>8. TIER_TOP \in Tiers
  BY <1>1
<1>9. /\ KlabakQuoteRiskParams(wager, cabinet).maxPayout = (wager * tiers[TIER_TOP + 1].multiplier) \div 100
      /\ KlabakQuoteRiskParams(wager, cabinet).probabilityWad = (tiers[TIER_TOP + 1].weight * WAD) \div PPM
  <2>1. /\ KlabakQuoteRiskParams(wager, cabinet).maxPayout = Payout(wager, cabinet, TIER_TOP)
        /\ KlabakQuoteRiskParams(wager, cabinet).probabilityWad
             = (Weight(cabinet, TIER_TOP) * WAD) \div PROB_SCALE
    BY DEF KlabakQuoteRiskParams
  <2>2. MULT_SCALE = 100 /\ PROB_SCALE = PPM
    BY SMT DEF MULT_SCALE, PROB_SCALE, PPM
  <2>3. QED BY <2>1, <2>2, <1>2, <1>8 DEF Payout
<1> HIDE DEF tiers
<1>10. \E top \in Tiers :
         /\ \A t \in Tiers : tiers[t + 1].multiplier <= tiers[top + 1].multiplier
         /\ KlabakQuoteCaps(game, wager, cabinet) =
              {[maxEscrowStake |-> wager,
                maxReservedProfit |-> (wager * tiers[top + 1].multiplier) \div 100 - wager]}
         /\ KlabakQuoteRiskParams(wager, cabinet).maxPayout = (wager * tiers[top + 1].multiplier) \div 100
         /\ KlabakQuoteRiskParams(wager, cabinet).probabilityWad = (tiers[top + 1].weight * WAD) \div PPM
  BY <1>6, <1>7, <1>8, <1>9
<1>11. QED BY <1>3, <1>4, <1>5, <1>10, Zenon DEF DeclaresTables, tiers

\* The scripts and the contract agree on the tier of every roll.
LEMMA SameTiers ==
  ASSUME NEW cabinet \in Cabinets, NEW roll \in 0..(PROB_SCALE - 1)
  PROVE  TierForRoll(cabinet, roll) = TierOf(cabinet, roll)
<1> DEFINE tier == TierOf(cabinet, roll)
           acc == RunningWeight(cabinet)
           reached == {t \in 1..4 : roll < acc[t]}
<1>1. cabinet \in {0, 1, 2} /\ Tiers = {0, 1, 2, 3} /\ roll \in Nat
  BY ScaleType DEF Cabinets, Tiers, CABINET_COUNT, TIER_COUNT
<1>2. /\ acc[1] = Accumulated(cabinet, 0) /\ acc[2] = Accumulated(cabinet, 1)
      /\ acc[3] = Accumulated(cabinet, 2) /\ acc[4] = Accumulated(cabinet, 3)
  <2>1. /\ Weight(cabinet, 0) = Tables.cabinets[cabinet + 1][1].weight
        /\ Weight(cabinet, 1) = Tables.cabinets[cabinet + 1][2].weight
        /\ Weight(cabinet, 2) = Tables.cabinets[cabinet + 1][3].weight
        /\ Weight(cabinet, 3) = Tables.cabinets[cabinet + 1][4].weight
    BY <1>1, SameTables
  <2>2. QED BY <2>1 DEF RunningWeight, Accumulated
<1>3. /\ \A t \in Tiers : Weight(cabinet, t) \in Nat \ {0} /\ Accumulated(cabinet, t) \in Nat
      /\ Accumulated(cabinet, 0) < Accumulated(cabinet, 1)
      /\ Accumulated(cabinet, 1) < Accumulated(cabinet, 2)
      /\ Accumulated(cabinet, 2) < Accumulated(cabinet, 3)
      /\ Accumulated(cabinet, 0) = Weight(cabinet, 0)
      /\ Accumulated(cabinet, 1) - Weight(cabinet, 1) = Accumulated(cabinet, 0)
      /\ Accumulated(cabinet, 2) - Weight(cabinet, 2) = Accumulated(cabinet, 1)
      /\ Accumulated(cabinet, 3) - Weight(cabinet, 3) = Accumulated(cabinet, 2)
  BY <1>1, RunningSums
<1>4. /\ tier \in {0, 1, 2, 3}
      /\ roll < Accumulated(cabinet, tier)
      /\ roll >= Accumulated(cabinet, tier) - Weight(cabinet, tier)
  BY <1>1, TiersPartitionTheDraws
<1>5. /\ tier + 1 \in 1..4 /\ roll < acc[tier + 1]
      /\ \A u \in 1..4 : u < tier + 1 => ~(roll < acc[u])
      /\ \A u \in 1..4 : acc[u] \in Nat
  <2> HIDE DEF tier, acc
  <2>1. \A u \in 1..4 : u \in {1, 2, 3, 4}
    OBVIOUS
  <2>2. QED BY <1>1, <1>2, <1>3, <1>4, <2>1
<1>6. reached # {} /\ \A t \in reached : (\A u \in reached : t <= u) <=> t = tier + 1
  <2> HIDE DEF tier, acc
  <2>1. tier + 1 \in reached
    BY <1>5
  <2>2. \A u \in reached : tier + 1 <= u
    BY <1>4, <1>5
  <2> HIDE DEF reached
  <2>3. reached \subseteq Int
    BY DEF reached
  <2>4. QED BY <1>4, <2>1, <2>2, <2>3
<1>7. (CHOOSE t \in reached : \A u \in reached : t <= u) = tier + 1
  <2> HIDE DEF tier, acc, reached
  <2>1. tier + 1 \in reached
    BY <1>5 DEF reached
  <2>2. QED BY <1>6, <2>1
<1>8. TierForRoll(cabinet, roll)
        = IF reached = {} THEN 3 ELSE (CHOOSE t \in reached : \A u \in reached : t <= u) - 1
  BY DEF TierForRoll
<1>9. QED
  <2> HIDE DEF acc, reached
  <2>1. TierForRoll(cabinet, roll) = (tier + 1) - 1
    BY <1>6, <1>7, <1>8
  <2>2. (tier + 1) - 1 = tier
    BY <1>4
  <2>3. QED BY <2>1, <2>2

\* "The chain outcome is a pure function of the randomness and the published
\* paytable" (verify-rounds.mjs): from its word, if it has a candidate that is not
\* rejected, the tier and the roll of a round that KlabakGame settles are found
\* again, whatever the cabinet, and the simulation draws the same tier.  The script
\* replays every round with the one wager it was given: the round is OK exactly when
\* the tier pays at that wager what it paid at the round's own, so it is OK when they
\* are the same, and when the tier pays nothing.
THEOREM RoundsReplay ==
  ASSUME NEW s, s.gameState.cabinet \in Cabinets, s.wagerBase \in Nat,
         NEW rnd \in RandomnessWord, Usable(rnd) # {}, NEW textHash, NEW WAGER \in Nat
  PROVE  LET cabinet == s.gameState.cabinet
             step == SettleWith(s, rnd)
             tier == step.newGameState.tier
             log == [randomness |-> rnd, gameState |-> step.newGameState, payout |-> step.payout]
             again == DrawAgain(cabinet, rnd, textHash)
         IN  /\ again.tier = tier /\ again.roll = step.newGameState.draw
             /\ SimulatedTier(cabinet, rnd) = tier
             /\ ReplayRound(log, WAGER, textHash)
                  = IF Payout(WAGER, cabinet, tier) = Payout(s.wagerBase, cabinet, tier)
                    THEN "OK" ELSE "MISMATCH"
             /\ WAGER = s.wagerBase \/ Multiplier(cabinet, tier) = 0
                  => ReplayRound(log, WAGER, textHash) = "OK"
<1> DEFINE cabinet == s.gameState.cabinet
           draw == DrawOf(rnd)
           tier == TierOf(cabinet, draw)
           step == SettleWith(s, rnd)
           log == [randomness |-> rnd, gameState |-> step.newGameState, payout |-> step.payout]
           expected == DrawAgain(cabinet, rnd, textHash)
<1>1. draw \in 0..(PROB_SCALE - 1)
  BY DrawsAreInRange
<1>2. FirstRoll(rnd) = draw
  <2>1. Tables.probabilityScale = PROB_SCALE
    BY SMT DEF Tables, PROB_SCALE
  <2>2. QED BY <2>1 DEF FirstRoll, DrawOf, Usable
<1>3. tier \in Tiers /\ TierForRoll(cabinet, draw) = tier
  <2>1. TierForRoll(cabinet, draw) = tier
    BY <1>1, SameTiers
  <2>2. 0 \in Tiers
    BY DEF Tiers, TIER_COUNT
  <2>3. tier \in Tiers
    BY <1>1, <2>2, TiersPartitionTheDraws
  <2>4. QED BY <2>1, <2>3
<1>4. expected.tier = tier /\ expected.roll = draw
  BY <1>2, <1>3 DEF DrawAgain
<1>5. SimulatedTier(cabinet, rnd) = tier
  BY <1>2, <1>3 DEF SimulatedTier
<1>6. /\ step.newGameState.cabinet = cabinet /\ step.newGameState.tier = tier
      /\ step.newGameState.draw = draw
      /\ step.payout = Payout(s.wagerBase, cabinet, tier)
  BY DEF SettleWith
<1>7. Payout(WAGER, cabinet, tier)
        = (WAGER * Tables.cabinets[cabinet + 1][tier + 1].multiplier) \div Tables.multiplierScale
  <2>1. Tables.multiplierScale = MULT_SCALE
    BY SMT DEF Tables, MULT_SCALE
  <2>2. Multiplier(cabinet, tier) = Tables.cabinets[cabinet + 1][tier + 1].multiplier
    BY <1>3, SameTables
  <2>3. QED BY <2>1, <2>2 DEF Payout
<1> HIDE DEF step, expected, tier, draw, cabinet
<1>8. /\ log.randomness = rnd /\ log.payout = step.payout /\ log.gameState.cabinet = cabinet
      /\ log.gameState.tier = tier /\ log.gameState.draw = draw
  BY <1>6
<1>9. ReplayRound(log, WAGER, textHash)
        = IF Payout(WAGER, cabinet, tier) = Payout(s.wagerBase, cabinet, tier) THEN "OK" ELSE "MISMATCH"
  <2> HIDE DEF log
  <2>1. DrawAgain(log.gameState.cabinet, log.randomness, textHash) = expected
    BY <1>8 DEF expected
  <2>2. QED BY <1>3, <1>4, <1>6, <1>7, <1>8, <2>1 DEF ReplayRound
<1>10. ASSUME WAGER = s.wagerBase \/ Multiplier(cabinet, tier) = 0
       PROVE  Payout(WAGER, cabinet, tier) = Payout(s.wagerBase, cabinet, tier)
  <2>1. CASE WAGER = s.wagerBase
    BY <2>1
  <2>2. CASE Multiplier(cabinet, tier) = 0
    <3>1. \A w \in Nat : w * 0 = 0
      OBVIOUS
    <3>2. \A w \in Nat : Payout(w, cabinet, tier) = 0 \div MULT_SCALE
      BY <2>2, <3>1 DEF Payout
    <3>3. QED BY <3>2
  <2>3. QED BY <1>10, <2>1, <2>2
<1>11. QED
  BY <1>4, <1>5, <1>6, <1>9, <1>10 DEF step, cabinet, expected

-----------------------------------------------------------------------------
\* The quotient of a natural number.
LEMMA Quotient ==
  \A n \in Nat \ {0} : \A a \in Nat : \E q \in Nat : q = a \div n /\ n * q <= a /\ a < n * q + n
<1> SUFFICES ASSUME NEW n \in Nat, n > 0, NEW a \in Nat
             PROVE  \E q \in Nat : q = a \div n /\ n * q <= a /\ a < n * q + n
  OBVIOUS
<1>1. a % n \in 0..(n - 1)
  OBVIOUS
<1>2. a \div n \in Nat
  OBVIOUS
<1>3. a = n * (a \div n) + (a % n)
  BY Z3
<1> QED BY <1>1, <1>2, <1>3

\* A quotient rounded up is at least the quotient, and less than one above it.
LEMMA RoundedUp ==
  \A n \in Nat \ {0} : \A a \in Nat :
    \E c \in Nat : c = CeilDivide(a, n) /\ a <= n * c /\ n * c < a + n
<1> SUFFICES ASSUME NEW n \in Nat \ {0}, NEW a \in Nat
             PROVE  \E c \in Nat : c = CeilDivide(a, n) /\ a <= n * c /\ n * c < a + n
  OBVIOUS
<1> DEFINE b == a + n - 1
<1>1. b = a + n - 1 /\ b \in Nat
  OBVIOUS
<1>2. CeilDivide(a, n) = b \div n
  BY Zenon DEF CeilDivide
<1> HIDE DEF b
<1>3. PICK c \in Nat : c = b \div n /\ n * c <= b /\ b < n * c + n
  BY <1>1, Quotient, Zenon
<1> DEFINE d == n * c
<1>4. d \in Nat /\ d <= b /\ b < d + n
  BY <1>3
<1> HIDE DEF d
<1>5. a <= d /\ d < a + n
  BY <1>1, <1>4
<1> QED BY <1>2, <1>3, <1>5, Zenon DEF d

\* What KlabakGame quotes of a round, whatever the wager: no tier pays more than the
\* quoted top, the top comes no more often than quoted, for every chance is a whole
\* number of 200ths and WAD divides by 200, and the expected payout, rounded up tier by
\* tier, covers the payouts weighed by their chances.  Of the fourth figure this says
\* nothing: VarianceNeverUnderstated does not hold.
THEOREM QuotedRiskCovers ==
  ASSUME NEW wager \in Nat, NEW cabinet \in Cabinets, NEW k \in Nat, WAD = 200 * k
  PROVE  KlabakRiskCovers(wager, cabinet)
<1>1. Tiers = {0, 1, 2, 3} /\ TIER_TOP \in Tiers /\ PROB_SCALE \in Nat \ {0}
  BY ScaleType DEF Tiers, TIER_COUNT, TIER_TOP
<1> DEFINE w == [t \in Tiers |-> Weight(cabinet, t) * Payout(wager, cabinet, t)]
           up == [t \in Tiers |-> CeilDivide(w[t], PROB_SCALE)]
           risk == KlabakQuoteRiskParams(wager, cabinet)
<1>2. /\ risk.maxPayout = Payout(wager, cabinet, TIER_TOP)
      /\ risk.expectedPayout = SumOverTiers(up)
  <2>1. up = [t \in Tiers |-> CeilDivide(Weight(cabinet, t) * Payout(wager, cabinet, t), PROB_SCALE)]
    OBVIOUS
  <2> HIDE DEF up
  <2> QED BY <2>1, SMT DEF KlabakQuoteRiskParams
<1>3. \A t \in Tiers : Payout(wager, cabinet, t) \in Nat /\ Payout(wager, cabinet, t) <= Payout(wager, cabinet, TIER_TOP)
  <2> SUFFICES ASSUME NEW t \in Tiers
               PROVE  Payout(wager, cabinet, t) \in Nat /\ Payout(wager, cabinet, t) <= Payout(wager, cabinet, TIER_TOP)
    OBVIOUS
  <2> DEFINE m == Multiplier(cabinet, t)  top == Multiplier(cabinet, TIER_TOP)
  <2>1. m \in Nat /\ top \in Nat /\ m <= top
    BY TopTierMultiplier, <1>1
  <2>2. /\ Payout(wager, cabinet, t) = (wager * m) \div 100
        /\ Payout(wager, cabinet, TIER_TOP) = (wager * top) \div 100
    BY SMT DEF Payout, MULT_SCALE
  <2> HIDE DEF m, top
  <2>3. wager * m \in Nat /\ wager * top \in Nat /\ wager * m <= wager * top
    BY <2>1
  <2>4. \A a, b \in Nat : a <= b => a \div 100 \in Nat /\ a \div 100 <= b \div 100
    OBVIOUS
  <2> QED BY <2>2, <2>3, <2>4
<1>4. \A t \in Tiers : w[t] \in Nat
  <2>1. \A t \in Tiers : Weight(cabinet, t) \in Nat
    BY RunningSums
  <2> QED BY <2>1, <1>3
<1>5. \A t \in Tiers : up[t] \in Nat /\ w[t] <= PROB_SCALE * up[t]
  <2> TAKE t \in Tiers
  <2>1. PICK c \in Nat : c = CeilDivide(w[t], PROB_SCALE) /\ w[t] <= PROB_SCALE * c /\ PROB_SCALE * c < w[t] + PROB_SCALE
    BY <1>1, <1>4, RoundedUp, Zenon
  <2>2. up[t] = c
    BY <2>1
  <2> QED BY <2>1, <2>2
<1> HIDE DEF w, up
<1>6. SumOverTiers(w) <= SumOverTiers(up) * PROB_SCALE
  <2>1. /\ w[0] \in Nat /\ w[1] \in Nat /\ w[2] \in Nat /\ w[3] \in Nat
        /\ up[0] \in Nat /\ up[1] \in Nat /\ up[2] \in Nat /\ up[3] \in Nat
        /\ w[0] <= PROB_SCALE * up[0] /\ w[1] <= PROB_SCALE * up[1]
        /\ w[2] <= PROB_SCALE * up[2] /\ w[3] <= PROB_SCALE * up[3]
    BY <1>1, <1>4, <1>5
  <2>2. PROB_SCALE = 1000000
    BY SMT DEF PROB_SCALE
  <2> QED BY <2>1, <2>2, SMT DEF SumOverTiers
<1>7. Weight(cabinet, TIER_TOP) * WAD <= risk.probabilityWad * PROB_SCALE
  <2>1. PICK weight \in Nat, x \in Nat :
          weight = Weight(cabinet, TIER_TOP) /\ weight * WAD = x * PROB_SCALE
    <3>1. Weight(cabinet, TIER_TOP) \in {30000, 15000, 5000}
      BY SMT DEF Weight, WeightRow, TIER_TOP, Cabinets, CABINET_COUNT
    <3>2. /\ 30000 * WAD = (6 * k) * PROB_SCALE /\ 15000 * WAD = (3 * k) * PROB_SCALE
          /\ 5000 * WAD = k * PROB_SCALE
      BY SMT DEF PROB_SCALE
    <3>3. 6 * k \in Nat /\ 3 * k \in Nat
      BY SMT
    <3>4. QED BY <3>1, <3>2, <3>3, SMT
  <2>2. (x * PROB_SCALE) \div PROB_SCALE = x
    BY SMT DEF PROB_SCALE
  <2>3. risk.probabilityWad = (Weight(cabinet, TIER_TOP) * WAD) \div PROB_SCALE
    BY DEF KlabakQuoteRiskParams
  <2>4. risk.probabilityWad = x
    BY <2>1, <2>2, <2>3, Zenon
  <2>5. QED BY <2>1, <2>4, SMT DEF PROB_SCALE
<1> QED BY <1>2, <1>3, <1>6, <1>7 DEF KlabakRiskCovers, w

\* And it is the declared return, to the unit, of a wager in whole multiples of 2000, as
\* every wager of a round number of tokens is.
THEOREM DeclaredReturnIsQuoted ==
  ASSUME NEW n \in Nat, NEW cabinet \in Cabinets
  PROVE  QuotesDeclaredReturn(cabinet, 2000 * n)
<1> DEFINE wager == 2000 * n
<1>1. cabinet \in {0, 1, 2} /\ Tiers = {0, 1, 2, 3} /\ PROB_SCALE = 1000000 /\ MULT_SCALE = 100
  BY SMT DEF Cabinets, Tiers, CABINET_COUNT, TIER_COUNT, PROB_SCALE, MULT_SCALE
<1>2. \A m \in Nat : (wager * (10 * m)) \div 100 = 200 * (n * m)
  <2> SUFFICES ASSUME NEW m \in Nat PROVE (wager * (10 * m)) \div 100 = 200 * (n * m)
    OBVIOUS
  <2> DEFINE x == n * m
  <2>1. x \in Nat /\ wager * (10 * m) = 20000 * x
    OBVIOUS
  <2> HIDE DEF x
  <2>2. (20000 * x) \div 100 = 200 * x
    BY <2>1, SMT
  <2> QED BY <2>1, <2>2, SMT DEF x
<1>3. ASSUME NEW a \in Nat, NEW m \in Nat
      PROVE  CeilDivide((5000 * a) * (200 * (n * m)), PROB_SCALE) = a * (n * m)
  <2> DEFINE x == a * (n * m)  y == (5000 * a) * (200 * (n * m))  c == CeilDivide(y, PROB_SCALE)
  <2>y. y \in Nat
    BY SMT
  <2>1. x \in Nat /\ y = 1000000 * x
    BY SMT
  <2> HIDE DEF x, y
  <2>2. PICK d \in Nat : d = c /\ y <= PROB_SCALE * d /\ PROB_SCALE * d < y + PROB_SCALE
    BY <2>y, ScaleType, RoundedUp, Zenon
  <2> HIDE DEF c
  <2>3. d = x
    BY <1>1, <2>1, <2>2, SMT
  <2> QED BY <2>2, <2>3, SMT DEF c, x, y
<1> DEFINE up == [t \in Tiers |-> CeilDivide(Weight(cabinet, t) * Payout(wager, cabinet, t), PROB_SCALE)]
<1>4. \A t \in Tiers : \A a, m \in Nat :
        Weight(cabinet, t) = 5000 * a /\ Multiplier(cabinet, t) = 10 * m => up[t] = a * (n * m)
  <2> TAKE t \in Tiers
  <2> TAKE a, m \in Nat
  <2> HAVE Weight(cabinet, t) = 5000 * a /\ Multiplier(cabinet, t) = 10 * m
  <2>1. Payout(wager, cabinet, t) = 200 * (n * m)
    <3>1. Payout(wager, cabinet, t) = (wager * (10 * m)) \div 100
      BY <1>1, SMT DEF Payout
    <3> HIDE DEF wager
    <3> QED BY <3>1, <1>2, SMT
  <2>2. up[t] = CeilDivide(Weight(cabinet, t) * Payout(wager, cabinet, t), PROB_SCALE)
    BY SMT
  <2>3. up[t] = CeilDivide((5000 * a) * (200 * (n * m)), PROB_SCALE)
    <3> HIDE DEF up, wager
    <3> QED BY <2>1, <2>2, SMT
  <2> HIDE DEF up
  <2> QED BY <2>3, <1>3, SMT
<1>e. up = [t \in Tiers |-> CeilDivide(Weight(cabinet, t) * Payout(wager, cabinet, t), PROB_SCALE)]
  OBVIOUS
<1> HIDE DEF up
<1>5. KlabakQuoteRiskParams(wager, cabinet).expectedPayout = SumOverTiers(up)
  <2> HIDE DEF wager
  <2>1. KlabakQuoteRiskParams(wager, cabinet).expectedPayout
          = SumOverTiers([t \in Tiers |-> CeilDivide(Weight(cabinet, t) * Payout(wager, cabinet, t), PROB_SCALE)])
    BY SMT DEF KlabakQuoteRiskParams
  <2> QED BY <1>e, <2>1, Zenon
<1>6. SumOverTiers(up) = 1920 * n
  <2>1. CASE cabinet = 0
    <3>1. up[0] = 100 * (n * 0) /\ up[1] = 72 * (n * 16) /\ up[2] = 22 * (n * 24) /\ up[3] = 6 * (n * 40)
      BY <1>1, <1>4, <2>1, WeightTable, MultiplierTable, SMT
    <3> QED BY <3>1, SMT DEF SumOverTiers
  <2>2. CASE cabinet = 1
    <3>1. up[0] = 156 * (n * 0) /\ up[1] = 30 * (n * 20) /\ up[2] = 11 * (n * 60) /\ up[3] = 3 * (n * 220)
      BY <1>1, <1>4, <2>2, WeightTable, MultiplierTable, SMT
    <3> QED BY <3>1, SMT DEF SumOverTiers
  <2>3. CASE cabinet = 2
    <3>1. up[0] = 147 * (n * 0) /\ up[1] = 48 * (n * 15) /\ up[2] = 4 * (n * 60) /\ up[3] = 1 * (n * 960)
      BY <1>1, <1>4, <2>3, WeightTable, MultiplierTable, SMT
    <3> QED BY <3>1, SMT DEF SumOverTiers
  <2> QED BY <1>1, <2>1, <2>2, <2>3, SMT
<1>7. (wager * 960000) \div 1000000 = 1920 * n
  BY SMT
<1>8. Tables.declaredRtpPpm = 960000
  BY SMT DEF Tables
<1> QED BY <1>5, <1>6, <1>7, <1>8, SMT DEF QuotesDeclaredReturn, PPM

\* A wager that computeMaxWager lets through reserves no more than the cap: rounding its
\* multiplier up to a basis point, and the quotient down, err on the vault's side.
LEMMA AllowedWagerFits ==
  ASSUME NEW w \in Nat, NEW cap \in Nat, NEW num \in Nat, NEW den \in Nat \ {0},
         IsAllowed(w, cap, [numerator |-> num, denominator |-> den])
  PROVE  (w * num) \div den - w <= cap
<1> DEFINE bps == CeilDivide(num * BASIS_POINTS, den)
           p == (w * num) \div den
<1>1. BASIS_POINTS = 10000
  BY SMT DEF BASIS_POINTS
<1>2. bps \in Nat /\ num * 10000 <= bps * den
  <2> DEFINE a == num * BASIS_POINTS
  <2>1. a \in Nat /\ a = num * 10000
    BY <1>1
  <2> HIDE DEF a
  <2>2. bps = CeilDivide(a, den)
    BY Zenon DEF a
  <2> HIDE DEF bps
  <2>a. a \in Nat
    BY <2>1
  <2>3. PICK c \in Nat : c = CeilDivide(a, den) /\ a <= den * c /\ den * c < a + den
    BY <2>a, RoundedUp, Zenon
  <2>4. den * c = bps * den
    BY <2>2, <2>3
  <2> QED BY <2>1, <2>2, <2>3, <2>4
<1>3. bps > 10000 => w <= (cap * 10000) \div (bps - 10000)
  BY <1>1, <1>2 DEF IsAllowed, ComputeMaxWager
<1> HIDE DEF bps
<1>4. p \in Int /\ p * den <= w * num
  <2> DEFINE x == w * num
  <2>1. x \in Nat
    OBVIOUS
  <2> HIDE DEF x
  <2>2. PICK q \in Nat : q = x \div den /\ den * q <= x /\ x < den * q + den
    BY <2>1, Quotient, Zenon
  <2>3. p = q
    BY <2>2, Zenon DEF x
  <2> HIDE DEF p
  <2>4. p * den = den * q
    BY <2>3
  <2>5. p * den <= x
    BY <2>2, <2>4
  <2> QED BY <2>3, <2>5 DEF x
<1> HIDE DEF p
<1>5. p * 10000 <= w * bps
  <2>1. (w * num) * 10000 <= (w * bps) * den
    <3>1. w * (num * 10000) <= w * (bps * den)
      BY <1>2
    <3>2. w * (num * 10000) = (w * num) * 10000 /\ w * (bps * den) = (w * bps) * den
      BY <1>2
    <3> QED BY <3>1, <3>2
  <2> DEFINE y == w * bps  x == w * num
  <2>2. y \in Nat /\ x \in Nat /\ x * 10000 <= y * den /\ p * den <= x
    BY <1>2, <1>4, <2>1
  <2> HIDE DEF x, y
  <2>3. (p * 10000) * den <= y * den
    BY <2>2, <1>4
  <2>4. \A a, b \in Int : a * den <= b * den => a <= b
    OBVIOUS
  <2>5. p * 10000 <= y
    BY <2>2, <2>3, <2>4, <1>4
  <2> QED BY <2>5 DEF y
<1>6. CASE bps <= 10000
  <2>1. w * bps <= w * 10000
    BY <1>6, <1>2
  <2>2. p <= w
    BY <1>5, <2>1, <1>4, <1>2
  <2> QED BY <2>2, <1>4 DEF p
<1>7. CASE bps > 10000
  <2> DEFINE d == bps - 10000
  <2>1. d \in Nat \ {0}
    BY <1>7, <1>2
  <2>2. w <= (cap * 10000) \div d
    BY <1>3, <1>7
  <2>3. w * bps = w * d + w * 10000
    BY <1>2
  <2> HIDE DEF d
  <2> DEFINE y == cap * 10000
  <2>4. y \in Nat
    OBVIOUS
  <2> HIDE DEF y
  <2>5. w * d <= y
    <3>1. PICK q \in Nat : q = y \div d /\ d * q <= y /\ y < d * q + d
      BY <2>1, <2>4, Quotient, Zenon
    <3>2. w <= q
      BY <2>2, <3>1 DEF y
    <3>3. w * d <= d * q
      BY <3>2, <2>1
    <3>4. w * d \in Int /\ d * q \in Int
      BY <2>1
    <3> QED BY <3>1, <3>3, <3>4, <2>4
  <2> DEFINE x == w * d
  <2>6. x \in Int /\ p * 10000 <= x + w * 10000 /\ x <= cap * 10000
    BY <1>5, <2>3, <2>5, <2>1 DEF y
  <2> HIDE DEF x
  <2>7. p - w <= cap
    BY <2>6, <1>4
  <2> QED BY <2>7 DEF p
<1> QED BY <1>6, <1>7, <1>2

\* A round a page opens within computeMaxWager never reserves more than the share of the
\* vault the limits allow, whatever the vault holds: no Klabak wager on any
\* cabinet, and no wager on any configuration of a slot title.
THEOREM LimitedWagersFitTheCap ==
  ASSUME NEW liquidity \in Nat, NEW w \in Nat
  PROVE  LET cap == MaxAllowedReservedProfit(liquidity)
         IN  /\ \A cabinet \in Cabinets :
                  IsAllowed(w, cap, [numerator |-> Multiplier(cabinet, TIER_TOP), denominator |-> MULT_SCALE])
                    => ReservedProfit(w, cabinet) <= cap
             /\ \A c \in {d \in SlotConfiguration : d.prizeDenominator # 0} :
                  IsAllowed(w, cap, [numerator |-> c.topPrizeUnits, denominator |-> c.prizeDenominator])
                    => SlotReservedProfit(c, w) <= cap
<1> DEFINE cap == MaxAllowedReservedProfit(liquidity)
<1>1. cap \in Nat
  <2>1. \A n \in Nat : n \div 10000 \in Nat
    OBVIOUS
  <2>2. liquidity * DEFAULT_MAX_BET_RISK_BPS \in Nat /\ BASIS_POINTS = 10000
    BY SMT DEF DEFAULT_MAX_BET_RISK_BPS, BASIS_POINTS
  <2> QED BY <2>1, <2>2, SMT DEF MaxAllowedReservedProfit
<1> HIDE DEF cap
<1>2. ASSUME NEW cabinet \in Cabinets,
             IsAllowed(w, cap, [numerator |-> Multiplier(cabinet, TIER_TOP), denominator |-> MULT_SCALE])
      PROVE  ReservedProfit(w, cabinet) <= cap
  <2>1. Multiplier(cabinet, TIER_TOP) \in Nat /\ MULT_SCALE \in Nat \ {0}
    <3>1. TIER_TOP \in Tiers
      BY DEF Tiers, TIER_COUNT, TIER_TOP
    <3>2. MULT_SCALE \in Nat \ {0}
      BY SMT DEF MULT_SCALE
    <3> QED BY <3>1, <3>2, TopTierMultiplier
  <2>2. (w * Multiplier(cabinet, TIER_TOP)) \div MULT_SCALE - w <= cap
    BY <1>1, <1>2, <2>1, AllowedWagerFits
  <2> DEFINE p == Payout(w, cabinet, TIER_TOP)
  <2>3. p - w <= cap
    BY <2>2 DEF Payout
  <2>4. ReservedProfit(w, cabinet) = IF p > w THEN p - w ELSE 0
    BY DEF ReservedProfit
  <2> HIDE DEF p
  <2> QED BY <1>1, <2>3, <2>4
<1>3. ASSUME NEW c \in {d \in SlotConfiguration : d.prizeDenominator # 0},
             IsAllowed(w, cap, [numerator |-> c.topPrizeUnits, denominator |-> c.prizeDenominator])
      PROVE  SlotReservedProfit(c, w) <= cap
  <2>1. c.topPrizeUnits \in Nat /\ c.prizeDenominator \in Nat \ {0}
    BY <1>3 DEF SlotConfiguration
  <2>2. (w * c.topPrizeUnits) \div c.prizeDenominator - w <= cap
    BY <1>1, <1>3, <2>1, AllowedWagerFits
  <2> DEFINE p == SlotPayout(c, w, c.topPrizeUnits)
  <2>3. p - w <= cap
    BY <2>2 DEF SlotPayout
  <2>4. SlotReservedProfit(c, w) = IF p > w THEN p - w ELSE 0
    BY DEF SlotReservedProfit
  <2> HIDE DEF p
  <2> QED BY <1>1, <2>3, <2>4
<1>4. /\ \A cabinet \in Cabinets :
           IsAllowed(w, cap, [numerator |-> Multiplier(cabinet, TIER_TOP), denominator |-> MULT_SCALE])
             => ReservedProfit(w, cabinet) <= cap
      /\ \A c \in {d \in SlotConfiguration : d.prizeDenominator # 0} :
           IsAllowed(w, cap, [numerator |-> c.topPrizeUnits, denominator |-> c.prizeDenominator])
             => SlotReservedProfit(c, w) <= cap
  BY <1>2, <1>3, Zenon
<1> QED BY <1>4, Zenon DEF cap

-----------------------------------------------------------------------------
\* The tables of the published paytable, written out.
LEMMA PublishedTables ==
  LET C == Tables.cabinets
  IN  /\ C = << <<Entry(500000, 0), Entry(360000, 160), Entry(110000, 240), Entry(30000, 400)>>,
                <<Entry(780000, 0), Entry(150000, 200), Entry(55000, 600), Entry(15000, 2200)>>,
                <<Entry(735000, 0), Entry(240000, 150), Entry(20000, 600), Entry(5000, 9600)>> >>
      /\ Len(C) = 3 /\ DOMAIN C = {1, 2, 3}
      /\ \A c \in {1, 2, 3} : Len(C[c]) = 4 /\ DOMAIN C[c] = {1, 2, 3, 4}
<1> DEFINE C == Tables.cabinets
<1>1. C = << <<Entry(500000, 0), Entry(360000, 160), Entry(110000, 240), Entry(30000, 400)>>,
             <<Entry(780000, 0), Entry(150000, 200), Entry(55000, 600), Entry(15000, 2200)>>,
             <<Entry(735000, 0), Entry(240000, 150), Entry(20000, 600), Entry(5000, 9600)>> >>
  BY SMT DEF Tables
<1> HIDE DEF C
<1>2. Len(C) = 3 /\ DOMAIN C = {1, 2, 3}
  BY <1>1, SMT
<1>3. /\ Len(C[1]) = 4 /\ Len(C[2]) = 4 /\ Len(C[3]) = 4
      /\ DOMAIN C[1] = {1, 2, 3, 4} /\ DOMAIN C[2] = {1, 2, 3, 4} /\ DOMAIN C[3] = {1, 2, 3, 4}
  BY <1>1, SMT
<1> QED BY <1>1, <1>2, <1>3, SMT DEF C

\* The rows of the contract's tables are the ones generate.py writes.
LEMMA RowsAreCurrent ==
  Rows(Tables, "weight") = WeightRow /\ Rows(Tables, "multiplier") = MultiplierRow
<1> DEFINE C == Tables.cabinets
<1>1. /\ C = << <<Entry(500000, 0), Entry(360000, 160), Entry(110000, 240), Entry(30000, 400)>>,
                <<Entry(780000, 0), Entry(150000, 200), Entry(55000, 600), Entry(15000, 2200)>>,
                <<Entry(735000, 0), Entry(240000, 150), Entry(20000, 600), Entry(5000, 9600)>> >>
      /\ Len(C) = 3 /\ DOMAIN C = {1, 2, 3}
      /\ \A c \in {1, 2, 3} : Len(C[c]) = 4 /\ DOMAIN C[c] = {1, 2, 3, 4}
  BY PublishedTables, SMT
<1> HIDE DEF C
<1>2. \A f \in {"weight", "multiplier"} :
        Rows(Tables, f) = << <<C[1][1][f], C[1][2][f], C[1][3][f], C[1][4][f]>>,
                             <<C[2][1][f], C[2][2][f], C[2][3][f], C[2][4][f]>>,
                             <<C[3][1][f], C[3][2][f], C[3][3][f], C[3][4][f]>> >>
  <2> DEFINE D == DOMAIN C
  <2> TAKE f \in {"weight", "multiplier"}
  <2>1. Rows(Tables, f) = [c \in D |-> [t \in DOMAIN C[c] |-> C[c][t][f]]]
    BY Zenon DEF Rows, C
  <2>2. D = {1, 2, 3} /\ DOMAIN C[1] = {1, 2, 3, 4} /\ DOMAIN C[2] = {1, 2, 3, 4} /\ DOMAIN C[3] = {1, 2, 3, 4}
    BY <1>1, SMT
  <2>3. \A c \in D : [t \in DOMAIN C[c] |-> C[c][t][f]]
                      = <<C[c][1][f], C[c][2][f], C[c][3][f], C[c][4][f]>>
    <3> TAKE c \in D
    <3>1. DOMAIN C[c] = {1, 2, 3, 4}
      BY <2>2, SMT
    <3> DEFINE k == C[c]
    <3>2. DOMAIN k = {1, 2, 3, 4}
      BY <3>1
    <3> HIDE DEF k
    <3>3. [t \in DOMAIN k |-> k[t][f]] = <<k[1][f], k[2][f], k[3][f], k[4][f]>>
      BY <3>2, SMT
    <3> QED BY <3>3, Zenon DEF k
  <2> DEFINE row(c) == <<C[c][1][f], C[c][2][f], C[c][3][f], C[c][4][f]>>
  <2>4. Rows(Tables, f) = [c \in D |-> row(c)]
    BY <2>1, <2>3, Zenon
  <2>5. [c \in D |-> row(c)] = <<row(1), row(2), row(3)>>
    <3> HIDE DEF row, D
    <3> QED BY <2>2, SMT
  <2> QED BY <2>4, <2>5, Zenon
<1> QED BY <1>1, <1>2, SMT DEF Entry, WeightRow, MultiplierRow

\* verify-contract.mjs finds the published numbers in the contract's source.
THEOREM SourceIsPublished == SourceMatchesTables(CommittedContract)
<1>1. Tables.declaredRtpPpm = 960000 /\ Len(Tables.cabinets) = 3
  BY PublishedTables, SMT DEF Tables
<1>2. Len(WeightRow) = 3 /\ Len(MultiplierRow) = 3 /\ DECLARED_RTP_PPM = 960000
  BY SMT DEF WeightRow, MultiplierRow, DECLARED_RTP_PPM
<1> QED BY <1>1, <1>2, RowsAreCurrent, SMT DEF SourceMatchesTables, CommittedContract

\* The page's tables are the ones generate.py writes from the published paytable.
LEMMA PageIsCurrent == EmitTs(Tables) = CommittedPage
<1> DEFINE C == Tables.cabinets
           T(c, t) == Page!Tier(C[c][t].weight, C[c][t].multiplier)
<1>1. /\ C = << <<Entry(500000, 0), Entry(360000, 160), Entry(110000, 240), Entry(30000, 400)>>,
                <<Entry(780000, 0), Entry(150000, 200), Entry(55000, 600), Entry(15000, 2200)>>,
                <<Entry(735000, 0), Entry(240000, 150), Entry(20000, 600), Entry(5000, 9600)>> >>
      /\ Len(C) = 3 /\ DOMAIN C = {1, 2, 3}
      /\ \A c \in {1, 2, 3} : Len(C[c]) = 4 /\ DOMAIN C[c] = {1, 2, 3, 4}
  BY PublishedTables, SMT
<1> HIDE DEF C
<1>2. [c \in DOMAIN C |-> [t \in DOMAIN C[c] |-> T(c, t)]]
        = << <<T(1, 1), T(1, 2), T(1, 3), T(1, 4)>>,
             <<T(2, 1), T(2, 2), T(2, 3), T(2, 4)>>,
             <<T(3, 1), T(3, 2), T(3, 3), T(3, 4)>> >>
  <2> HIDE DEF T
  <2> QED BY <1>1, SMT
<1>3. Page!CABINETS = << <<T(1, 1), T(1, 2), T(1, 3), T(1, 4)>>,
                         <<T(2, 1), T(2, 2), T(2, 3), T(2, 4)>>,
                         <<T(3, 1), T(3, 2), T(3, 3), T(3, 4)>> >>
  BY <1>1, SMT DEF Page!CABINETS, Page!Tier, Entry
<1>4. EmitTs(Tables) = [TIER_TOP |-> Len(C[1]) - 1,
                        CABINETS |-> [c \in DOMAIN C |-> [t \in DOMAIN C[c] |-> T(c, t)]]]
  BY Zenon DEF EmitTs, C
<1>5. Page!PageTierTop = Len(C[1]) - 1
  BY <1>1, SMT DEF Page!PageTierTop
<1> HIDE DEF T
<1> QED BY <1>2, <1>3, <1>4, <1>5, Zenon DEF CommittedPage

\* A section of PROOF.md, when the last tier pays the most.
LEMMA SectionOf ==
  ASSUME NEW t1, NEW t2, NEW t3, NEW t4,
         t1.multiplier \in Nat, t2.multiplier \in Nat, t3.multiplier \in Nat, t4.multiplier \in Nat,
         t1.multiplier < t4.multiplier, t2.multiplier < t4.multiplier, t3.multiplier < t4.multiplier
  PROVE  EmitSection(<<t1, t2, t3, t4>>) =
           [rows |-> <<RtpRow(t1), RtpRow(t2), RtpRow(t3), RtpRow(t4)>>,
            totalWeight |-> RtpRow(t1).weight + RtpRow(t2).weight + RtpRow(t3).weight + RtpRow(t4).weight,
            rtp |-> RtpRow(t1).contribution + RtpRow(t2).contribution
                      + RtpRow(t3).contribution + RtpRow(t4).contribution,
            top |-> RtpRow(t4)]
<1> DEFINE tiers == <<t1, t2, t3, t4>>
           printed == [t \in DOMAIN tiers |-> RtpRow(tiers[t])]
           top == CHOOSE t \in DOMAIN tiers : \A u \in DOMAIN tiers : tiers[u].multiplier <= tiers[t].multiplier
<1>1. DOMAIN tiers = {1, 2, 3, 4} /\ tiers[1] = t1 /\ tiers[2] = t2 /\ tiers[3] = t3 /\ tiers[4] = t4
  BY SMT
<1> HIDE DEF tiers
<1>2. top = 4
  <2>1. /\ 4 \in DOMAIN tiers
        /\ \A u \in DOMAIN tiers : tiers[u].multiplier <= tiers[4].multiplier
        /\ \A t \in DOMAIN tiers :
             (\A u \in DOMAIN tiers : tiers[u].multiplier <= tiers[t].multiplier) => t = 4
    BY <1>1, SMT
  <2> QED BY <2>1, Zenon
<1>3. printed = <<RtpRow(t1), RtpRow(t2), RtpRow(t3), RtpRow(t4)>>
  BY <1>1, SMT
<1>4. printed[1] = RtpRow(t1) /\ printed[2] = RtpRow(t2) /\ printed[3] = RtpRow(t3) /\ printed[4] = RtpRow(t4)
  BY <1>1, SMT
<1>5. EmitSection(tiers) =
        [rows |-> printed,
         totalWeight |-> printed[1].weight + printed[2].weight + printed[3].weight + printed[4].weight,
         rtp |-> printed[1].contribution + printed[2].contribution + printed[3].contribution + printed[4].contribution,
         top |-> printed[top]]
  BY Zenon DEF EmitSection
<1> HIDE DEF printed, top
<1>6. EmitSection(tiers) =
           [rows |-> <<RtpRow(t1), RtpRow(t2), RtpRow(t3), RtpRow(t4)>>,
            totalWeight |-> RtpRow(t1).weight + RtpRow(t2).weight + RtpRow(t3).weight + RtpRow(t4).weight,
            rtp |-> RtpRow(t1).contribution + RtpRow(t2).contribution
                      + RtpRow(t3).contribution + RtpRow(t4).contribution,
            top |-> RtpRow(t4)]
  BY <1>2, <1>3, <1>4, <1>5, Zenon
<1> QED BY <1>6, Zenon DEF tiers

\* The rows of PROOF.md, tier by tier: nothing is lost to their five digits.
LEMMA PrintedRows ==
  /\ RtpRow(Entry(500000, 0)) = ProofRow(500000, 50000, 0, 0)
  /\ RtpRow(Entry(360000, 160)) = ProofRow(360000, 36000, 160, 57600)
  /\ RtpRow(Entry(110000, 240)) = ProofRow(110000, 11000, 240, 26400)
  /\ RtpRow(Entry(30000, 400)) = ProofRow(30000, 3000, 400, 12000)
  /\ RtpRow(Entry(780000, 0)) = ProofRow(780000, 78000, 0, 0)
  /\ RtpRow(Entry(150000, 200)) = ProofRow(150000, 15000, 200, 30000)
  /\ RtpRow(Entry(55000, 600)) = ProofRow(55000, 5500, 600, 33000)
  /\ RtpRow(Entry(15000, 2200)) = ProofRow(15000, 1500, 2200, 33000)
  /\ RtpRow(Entry(735000, 0)) = ProofRow(735000, 73500, 0, 0)
  /\ RtpRow(Entry(240000, 150)) = ProofRow(240000, 24000, 150, 36000)
  /\ RtpRow(Entry(20000, 600)) = ProofRow(20000, 2000, 600, 12000)
  /\ RtpRow(Entry(5000, 9600)) = ProofRow(5000, 500, 9600, 48000)
BY SMT DEF RtpRow, Printed, Entry, ProofRow

\* The sections generate.py prints for the published paytable are those of PROOF.md.
LEMMA ProofIsCurrent == EmitProof(Tables) = CommittedProof
<1> DEFINE C == Tables.cabinets
           S1 == EmitSection(<<Entry(500000, 0), Entry(360000, 160), Entry(110000, 240), Entry(30000, 400)>>)
           S2 == EmitSection(<<Entry(780000, 0), Entry(150000, 200), Entry(55000, 600), Entry(15000, 2200)>>)
           S3 == EmitSection(<<Entry(735000, 0), Entry(240000, 150), Entry(20000, 600), Entry(5000, 9600)>>)
<1> HIDE DEF S1, S2, S3
<1>1. /\ C = << <<Entry(500000, 0), Entry(360000, 160), Entry(110000, 240), Entry(30000, 400)>>,
                <<Entry(780000, 0), Entry(150000, 200), Entry(55000, 600), Entry(15000, 2200)>>,
                <<Entry(735000, 0), Entry(240000, 150), Entry(20000, 600), Entry(5000, 9600)>> >>
      /\ DOMAIN C = {1, 2, 3}
  BY PublishedTables, SMT
<1>2. EmitProof(Tables) = [c \in DOMAIN C |-> EmitSection(C[c])]
  BY Zenon DEF EmitProof
<1> HIDE DEF C
<1>3. EmitSection(C[1]) = S1 /\ EmitSection(C[2]) = S2 /\ EmitSection(C[3]) = S3
  <2>1. /\ C[1] = <<Entry(500000, 0), Entry(360000, 160), Entry(110000, 240), Entry(30000, 400)>>
        /\ C[2] = <<Entry(780000, 0), Entry(150000, 200), Entry(55000, 600), Entry(15000, 2200)>>
        /\ C[3] = <<Entry(735000, 0), Entry(240000, 150), Entry(20000, 600), Entry(5000, 9600)>>
    BY <1>1, SMT
  <2> QED BY <2>1, SMT DEF S1, S2, S3
<1>4. EmitProof(Tables) = <<S1, S2, S3>>
  <2> DEFINE section(c) == EmitSection(C[c])
  <2>1. [c \in DOMAIN C |-> section(c)] = <<section(1), section(2), section(3)>>
    <3> HIDE DEF section
    <3> QED BY <1>1, SMT
  <2> QED BY <1>2, <1>3, <2>1, Zenon
<1>5. S1 = ProofSection(ProofRow(500000, 50000, 0, 0), ProofRow(360000, 36000, 160, 57600),
                        ProofRow(110000, 11000, 240, 26400), ProofRow(30000, 3000, 400, 12000))
  <2> DEFINE t1 == Entry(500000, 0)
             t2 == Entry(360000, 160)
             t3 == Entry(110000, 240)
             t4 == Entry(30000, 400)
  <2>1. S1 = EmitSection(<<t1, t2, t3, t4>>)
    BY SMT DEF S1
  <2>2. /\ t1.multiplier = 0 /\ t2.multiplier = 160
        /\ t3.multiplier = 240 /\ t4.multiplier = 400
    BY SMT DEF Entry
  <2>3. /\ RtpRow(t1) = ProofRow(500000, 50000, 0, 0)
        /\ RtpRow(t2) = ProofRow(360000, 36000, 160, 57600)
        /\ RtpRow(t3) = ProofRow(110000, 11000, 240, 26400)
        /\ RtpRow(t4) = ProofRow(30000, 3000, 400, 12000)
    BY PrintedRows, SMT
  <2> HIDE DEF t1, t2, t3, t4
  <2>4. /\ RtpRow(t1).weight + RtpRow(t2).weight + RtpRow(t3).weight + RtpRow(t4).weight = 1000000
        /\ RtpRow(t1).contribution + RtpRow(t2).contribution
             + RtpRow(t3).contribution + RtpRow(t4).contribution = 96000
    BY <2>3, SMT DEF ProofRow
  <2>5. /\ t1.multiplier \in Nat /\ t2.multiplier \in Nat /\ t3.multiplier \in Nat /\ t4.multiplier \in Nat
        /\ t1.multiplier < t4.multiplier /\ t2.multiplier < t4.multiplier /\ t3.multiplier < t4.multiplier
    BY <2>2, SMT
  <2>6. S1 = [rows |-> <<RtpRow(t1), RtpRow(t2), RtpRow(t3), RtpRow(t4)>>,
              totalWeight |-> RtpRow(t1).weight + RtpRow(t2).weight + RtpRow(t3).weight + RtpRow(t4).weight,
              rtp |-> RtpRow(t1).contribution + RtpRow(t2).contribution
                        + RtpRow(t3).contribution + RtpRow(t4).contribution,
              top |-> RtpRow(t4)]
    BY <2>1, <2>5, SectionOf, Zenon
  <2>7. S1 = ProofSection(RtpRow(t1), RtpRow(t2), RtpRow(t3), RtpRow(t4))
    BY <2>4, <2>6, SMT DEF ProofSection
  <2> QED BY <2>3, <2>7, SMT
<1>6. S2 = ProofSection(ProofRow(780000, 78000, 0, 0), ProofRow(150000, 15000, 200, 30000),
                        ProofRow(55000, 5500, 600, 33000), ProofRow(15000, 1500, 2200, 33000))
  <2> DEFINE t1 == Entry(780000, 0)
             t2 == Entry(150000, 200)
             t3 == Entry(55000, 600)
             t4 == Entry(15000, 2200)
  <2>1. S2 = EmitSection(<<t1, t2, t3, t4>>)
    BY SMT DEF S2
  <2>2. /\ t1.multiplier = 0 /\ t2.multiplier = 200
        /\ t3.multiplier = 600 /\ t4.multiplier = 2200
    BY SMT DEF Entry
  <2>3. /\ RtpRow(t1) = ProofRow(780000, 78000, 0, 0)
        /\ RtpRow(t2) = ProofRow(150000, 15000, 200, 30000)
        /\ RtpRow(t3) = ProofRow(55000, 5500, 600, 33000)
        /\ RtpRow(t4) = ProofRow(15000, 1500, 2200, 33000)
    BY PrintedRows, SMT
  <2> HIDE DEF t1, t2, t3, t4
  <2>4. /\ RtpRow(t1).weight + RtpRow(t2).weight + RtpRow(t3).weight + RtpRow(t4).weight = 1000000
        /\ RtpRow(t1).contribution + RtpRow(t2).contribution
             + RtpRow(t3).contribution + RtpRow(t4).contribution = 96000
    BY <2>3, SMT DEF ProofRow
  <2>5. /\ t1.multiplier \in Nat /\ t2.multiplier \in Nat /\ t3.multiplier \in Nat /\ t4.multiplier \in Nat
        /\ t1.multiplier < t4.multiplier /\ t2.multiplier < t4.multiplier /\ t3.multiplier < t4.multiplier
    BY <2>2, SMT
  <2>6. S2 = [rows |-> <<RtpRow(t1), RtpRow(t2), RtpRow(t3), RtpRow(t4)>>,
              totalWeight |-> RtpRow(t1).weight + RtpRow(t2).weight + RtpRow(t3).weight + RtpRow(t4).weight,
              rtp |-> RtpRow(t1).contribution + RtpRow(t2).contribution
                        + RtpRow(t3).contribution + RtpRow(t4).contribution,
              top |-> RtpRow(t4)]
    BY <2>1, <2>5, SectionOf, Zenon
  <2>7. S2 = ProofSection(RtpRow(t1), RtpRow(t2), RtpRow(t3), RtpRow(t4))
    BY <2>4, <2>6, SMT DEF ProofSection
  <2> QED BY <2>3, <2>7, SMT
<1>7. S3 = ProofSection(ProofRow(735000, 73500, 0, 0), ProofRow(240000, 24000, 150, 36000),
                        ProofRow(20000, 2000, 600, 12000), ProofRow(5000, 500, 9600, 48000))
  <2> DEFINE t1 == Entry(735000, 0)
             t2 == Entry(240000, 150)
             t3 == Entry(20000, 600)
             t4 == Entry(5000, 9600)
  <2>1. S3 = EmitSection(<<t1, t2, t3, t4>>)
    BY SMT DEF S3
  <2>2. /\ t1.multiplier = 0 /\ t2.multiplier = 150
        /\ t3.multiplier = 600 /\ t4.multiplier = 9600
    BY SMT DEF Entry
  <2>3. /\ RtpRow(t1) = ProofRow(735000, 73500, 0, 0)
        /\ RtpRow(t2) = ProofRow(240000, 24000, 150, 36000)
        /\ RtpRow(t3) = ProofRow(20000, 2000, 600, 12000)
        /\ RtpRow(t4) = ProofRow(5000, 500, 9600, 48000)
    BY PrintedRows, SMT
  <2> HIDE DEF t1, t2, t3, t4
  <2>4. /\ RtpRow(t1).weight + RtpRow(t2).weight + RtpRow(t3).weight + RtpRow(t4).weight = 1000000
        /\ RtpRow(t1).contribution + RtpRow(t2).contribution
             + RtpRow(t3).contribution + RtpRow(t4).contribution = 96000
    BY <2>3, SMT DEF ProofRow
  <2>5. /\ t1.multiplier \in Nat /\ t2.multiplier \in Nat /\ t3.multiplier \in Nat /\ t4.multiplier \in Nat
        /\ t1.multiplier < t4.multiplier /\ t2.multiplier < t4.multiplier /\ t3.multiplier < t4.multiplier
    BY <2>2, SMT
  <2>6. S3 = [rows |-> <<RtpRow(t1), RtpRow(t2), RtpRow(t3), RtpRow(t4)>>,
              totalWeight |-> RtpRow(t1).weight + RtpRow(t2).weight + RtpRow(t3).weight + RtpRow(t4).weight,
              rtp |-> RtpRow(t1).contribution + RtpRow(t2).contribution
                        + RtpRow(t3).contribution + RtpRow(t4).contribution,
              top |-> RtpRow(t4)]
    BY <2>1, <2>5, SectionOf, Zenon
  <2>7. S3 = ProofSection(RtpRow(t1), RtpRow(t2), RtpRow(t3), RtpRow(t4))
    BY <2>4, <2>6, SMT DEF ProofSection
  <2> QED BY <2>3, <2>7, SMT
<1> QED BY <1>4, <1>5, <1>6, <1>7, SMT DEF CommittedProof

\* The committed contract, the page's tables and the numbers of PROOF.md are what
\* generate.py writes from the published paytable, with the contract's DRAW_LIMIT and
\* 32-bit candidates: regenerating them changes nothing.
THEOREM GeneratedFilesAreCurrent ==
  ASSUME DRAW_LIMIT = 4294000000, Word = 4294967296
  PROVE  Generate(Tables) =
           {[contract |-> CommittedContract, page |-> CommittedPage, proof |-> CommittedProof]}
<1> DEFINE C == Tables.cabinets
<1>1. Tables.declaredRtpPpm = 960000 /\ Tables.probabilityScale = 1000000
  BY SMT DEF Tables
<1>2. /\ Len(C) = 3 /\ DOMAIN C = {1, 2, 3}
      /\ \A c \in {1, 2, 3} : Len(C[c]) = 4 /\ DOMAIN C[c] = {1, 2, 3, 4}
  BY PublishedTables, SMT
<1> HIDE DEF C
<1>3. Rows(Tables, "weight") = WeightRow /\ Rows(Tables, "multiplier") = MultiplierRow
  BY RowsAreCurrent, SMT
<1>4. EmitSolidity(Tables) = {CommittedContract}
  <2>1. (Word \div Tables.probabilityScale) * Tables.probabilityScale = DRAW_LIMIT
    BY <1>1, SMT
  <2>2. \A c \in DOMAIN C : Len(C[c]) = Len(C[1])
    BY <1>2, SMT
  <2>3. CABINET_COUNT = Len(C) /\ TIER_COUNT = Len(C[1]) /\ TIER_TOP = Len(C[1]) - 1
        /\ DECLARED_RTP_PPM = Tables.declaredRtpPpm
    BY <1>1, <1>2, SMT DEF CABINET_COUNT, TIER_COUNT, TIER_TOP, DECLARED_RTP_PPM
  <2> QED BY <1>3, <2>1, <2>2, <2>3, SMT DEF EmitSolidity, CommittedContract, C
<1>5. Verified(Tables)
  BY PublishedTablesVerify, SMT
<1> QED BY <1>4, <1>5, PageIsCurrent, ProofIsCurrent, SMT DEF Generate

-----------------------------------------------------------------------------
(* The paytable.                                                           *)

LEMMA MultipliersAre ==
  /\ MultiplierOf(0, 0) = 0 /\ MultiplierOf(1, 0) = 0 /\ MultiplierOf(2, 0) = 0
  /\ MultiplierOf(0, 1) = 160 /\ MultiplierOf(0, 2) = 240 /\ MultiplierOf(0, 3) = 400
  /\ MultiplierOf(1, 1) = 200 /\ MultiplierOf(1, 2) = 600 /\ MultiplierOf(1, 3) = 2200
  /\ MultiplierOf(2, 1) = 150 /\ MultiplierOf(2, 2) = 600 /\ MultiplierOf(2, 3) = 9600
BY DEF MultiplierOf, CabinetById, CABINETS, Tier

\* On every cabinet a higher tier pays more than a lower one, whatever the wager:
\* flooring makes no two tiers pay the same.
LEMMA HigherTiersPayMore ==
  ASSUME NEW w \in Nat \ {0}, NEW c \in 0..2
  PROVE  /\ \A t \in 0..3 : PayoutFor(w, c, t) \in Nat
         /\ 0 = PayoutFor(w, c, 0)
         /\ PayoutFor(w, c, 0) < PayoutFor(w, c, 1)
         /\ PayoutFor(w, c, 1) < PayoutFor(w, c, 2)
         /\ PayoutFor(w, c, 2) < PayoutFor(w, c, 3)
<1>1. \A a \in Nat : (w * a) \div 100 \in Nat
  OBVIOUS
<1>2. \A t \in 0..3 : t = 0 \/ t = 1 \/ t = 2 \/ t = 3
  OBVIOUS
<1>3. CASE c = 0
  <2>1. /\ (w * 0) \div 100 = 0 /\ 0 < (w * 160) \div 100
        /\ (w * 160) \div 100 < (w * 240) \div 100 /\ (w * 240) \div 100 < (w * 400) \div 100
    OBVIOUS
  <2>2. /\ PayoutFor(w, c, 0) = (w * 0) \div 100 /\ PayoutFor(w, c, 1) = (w * 160) \div 100
        /\ PayoutFor(w, c, 2) = (w * 240) \div 100 /\ PayoutFor(w, c, 3) = (w * 400) \div 100
    <3>1. \A u : PayoutFor(w, c, u) = (w * MultiplierOf(0, u)) \div 100
      BY <1>3 DEF PayoutFor, PageMultScale
    <3> QED BY <3>1, MultipliersAre
  <2> QED BY <1>1, <1>2, <2>1, <2>2
<1>4. CASE c = 1
  <2>1. /\ (w * 0) \div 100 = 0 /\ 0 < (w * 200) \div 100
        /\ (w * 200) \div 100 < (w * 600) \div 100 /\ (w * 600) \div 100 < (w * 2200) \div 100
    OBVIOUS
  <2>2. /\ PayoutFor(w, c, 0) = (w * 0) \div 100 /\ PayoutFor(w, c, 1) = (w * 200) \div 100
        /\ PayoutFor(w, c, 2) = (w * 600) \div 100 /\ PayoutFor(w, c, 3) = (w * 2200) \div 100
    <3>1. \A u : PayoutFor(w, c, u) = (w * MultiplierOf(1, u)) \div 100
      BY <1>4 DEF PayoutFor, PageMultScale
    <3> QED BY <3>1, MultipliersAre
  <2> QED BY <1>1, <1>2, <2>1, <2>2
<1>5. CASE c = 2
  <2>1. /\ (w * 0) \div 100 = 0 /\ 0 < (w * 150) \div 100
        /\ (w * 150) \div 100 < (w * 600) \div 100 /\ (w * 600) \div 100 < (w * 9600) \div 100
    OBVIOUS
  <2>2. /\ PayoutFor(w, c, 0) = (w * 0) \div 100 /\ PayoutFor(w, c, 1) = (w * 150) \div 100
        /\ PayoutFor(w, c, 2) = (w * 600) \div 100 /\ PayoutFor(w, c, 3) = (w * 9600) \div 100
    <3>1. \A u : PayoutFor(w, c, u) = (w * MultiplierOf(2, u)) \div 100
      BY <1>5 DEF PayoutFor, PageMultScale
    <3> QED BY <3>1, MultipliersAre
  <2> QED BY <1>1, <1>2, <2>1, <2>2
<1> QED BY <1>3, <1>4, <1>5

\* A row's payout alone tells a tier of the table.
LEMMA PayoutTellsATier ==
  ASSUME NEW w \in Nat, NEW c, NEW p
  PROVE  OutcomeFromPayout(c, w, p) \in 0..PageTierTop
<1> DEFINE funded == {t \in 1..PageTierTop : PayoutFor(w, c, t) <= p}
<1>1. CASE funded # {}
  <2>1. funded \subseteq 1..3
    BY DEF PageTierTop
  <2>2. \E t \in funded : \A u \in funded : u <= t
    <3> HIDE DEF funded
    <3>1. CASE 3 \in funded
      BY <2>1, <3>1
    <3>2. CASE 3 \notin funded /\ 2 \in funded
      BY <2>1, <3>2
    <3>3. CASE 3 \notin funded /\ 2 \notin funded
      <4>1. \A u \in funded : u = 1
        BY <2>1, <3>3
      <4> QED BY <1>1, <4>1
    <3> QED BY <3>1, <3>2, <3>3
  <2> HIDE DEF funded
  <2>3. (CHOOSE t \in funded : \A u \in funded : u <= t) \in 1..3
    BY <2>1, <2>2
  <2> QED BY <1>1, <2>3 DEF OutcomeFromPayout, funded, PageTierTop
<1>2. CASE funded = {}
  BY <1>2 DEF OutcomeFromPayout, PageTierTop
<1> QED BY <1>1, <1>2

\* And for what the contract paid, it tells the tier that was drawn:
\* outcomeFromPayout undoes payoutFor, on every cabinet and for every wager.
THEOREM PayoutTellsTheTier ==
  ASSUME NEW w \in Nat \ {0}, NEW c \in 0..2, NEW t \in 0..PageTierTop
  PROVE  OutcomeFromPayout(c, w, PayoutFor(w, c, t)) = t
<1>1. t \in 0..3
  BY DEF PageTierTop
<1> DEFINE P(u) == PayoutFor(w, c, u)
           funded == {u \in 1..PageTierTop : P(u) <= P(t)}
<1>2. /\ P(0) = 0 /\ P(1) \in Nat /\ P(2) \in Nat /\ P(3) \in Nat
      /\ 0 < P(1) /\ P(1) < P(2) /\ P(2) < P(3)
  BY HigherTiersPayMore
<1> HIDE DEF P
<1>3. CASE t = 0
  BY <1>2, <1>3 DEF OutcomeFromPayout, P
<1>4. CASE t # 0
  <2>1. t \in funded /\ \A u \in funded : u <= t
    BY <1>1, <1>2, <1>4 DEF PageTierTop
  <2>2. P(t) > 0 /\ funded \subseteq 1..3
    BY <1>1, <1>2, <1>4 DEF PageTierTop
  <2> HIDE DEF funded
  <2>3. (CHOOSE u \in funded : \A v \in funded : v <= u) = t
    <3>1. \A u \in funded : (\A v \in funded : v <= u) => u = t
      BY <2>1, <2>2
    <3> QED BY <2>1, <3>1
  <2>4. ~(P(t) <= 0) /\ funded # {}
    BY <1>1, <1>2, <2>1, <2>2
  <2>5. OutcomeFromPayout(c, w, P(t)) = IF P(t) <= 0 THEN 0 ELSE IF funded = {} THEN 1
                                         ELSE CHOOSE u \in funded : \A v \in funded : v <= u
    BY DEF OutcomeFromPayout, funded, P
  <2> QED BY <2>3, <2>4, <2>5 DEF P
<1> QED BY <1>3, <1>4

-----------------------------------------------------------------------------
(* The inductive invariant.                                                *)

\* A list that nothing is known about but that it is one.
IsList(s) == s = [n \in 1..Len(s) |-> s[n]] /\ Len(s) \in Nat

RoundFields == DOMAIN NoRound
IsRound(r) == r = [f \in RoundFields |-> r[f]]

\* The statuses in which a round may still be without an outcome.
Waiting == {"positioning", "descending", "gripping-wait"}

PageType ==
  /\ pulls \in 0..MaxPulls
  /\ cabinetId \in CabinetIds
  /\ autoLeft \in Int
  /\ IsRound(round)
  /\ calls \in [Pulls -> {"none", "pending", "opened", "refused"}]
  /\ gameData \in [Pulls -> CabinetIds]
  /\ settled \in [Pulls -> DrawnTiers \cup {Cancelled, Undefined}]
  /\ rows \in [Pulls -> SUBSET (RowFields \cup Open)]
  /\ doubled \in BOOLEAN /\ refusedInQueue \in BOOLEAN /\ unrendered \in BOOLEAN
  /\ error \in BOOLEAN
  /\ IsList(booked) /\ IsList(reveals)

\* The chain: a session has a pull, and a row that is over ended.
ChainFits ==
  \A i \in Pulls :
    /\ calls[i] # "none" => i <= pulls /\ mode = "hosted"
    /\ rows[i] # Open => settled[i] # Undefined /\ rows[i] \subseteq FullRow(i)

\* Demo rounds come before hosted ones, and no demo timer outlives the round it
\* was set for.
DemoFits ==
  /\ mode = "hosted" => handshake # "pending"
  /\ round.kind = "hosted" => mode = "hosted"
  /\ round.kind = "demo" => \A i \in Pulls : calls[i] = "none"
  /\ demoDue # {} => round.kind = "demo" /\ round.status \in Waiting \cup {"gripping"}
  /\ unrendered /\ mode = "hosted" => round.kind # "demo"

\* What the settle effect may have read for session i.
Drawn(i, cabinet, tier) ==
  /\ settled[i] # Undefined
  /\ cabinet = gameData[i] /\ settled[i] # Cancelled => tier = settled[i]

\* The round: its session is open, and its outcome was drawn for it.
RoundFits ==
  /\ round.kind \in {"none", "hosted", "demo"}
  /\ round.kind = "none" => round = NoRound
  /\ round.kind # "none" => round.pull \in 1..pulls
  /\ round.kind = "hosted" /\ round.outcome = Undefined =>
       round.status \in Waiting /\ round.sessionId = 0
  /\ round.sessionKey # 0 => round.sessionKey \in Pulls /\ calls[round.sessionKey] = "opened"
  /\ round.kind = "hosted" /\ round.outcome # Undefined =>
       /\ round.sessionId \in Pulls /\ calls[round.sessionId] = "opened"
       /\ Drawn(round.sessionId, round.cabinetId, round.outcome)

\* While no two pulls were made on one rendering, a session belongs to its pull.
OwnSession ==
  ~doubled =>
    /\ \A i \in Pulls : calls[i] = "pending" =>
         round.kind = "hosted" /\ round.pull = i /\ round.outcome = Undefined
    /\ round.sessionKey # 0 => round.sessionKey = round.pull
    /\ round.kind = "hosted" /\ round.outcome # Undefined => round.sessionId = round.pull
    /\ round.kind = "hosted" => gameData[round.pull] = round.cabinetId
    /\ refusedInQueue /\ autoLeft # Stopped => error

LineFits(line) ==
  /\ line.pull \in 1..pulls
  /\ line.kind = "hosted" =>
       /\ line.session \in Pulls /\ calls[line.session] = "opened"
       /\ Drawn(line.session, line.cabinetId, line.tier)
       /\ doubled \/ (line.session = line.pull /\ line.cabinetId = gameData[line.session])

RevealFits(i) ==
  /\ i \in Pulls /\ calls[i] = "opened" /\ settled[i] # Undefined
  /\ \E k \in 1..Len(booked) : booked[k].session = i

\* The books: the lines are about different pulls, and the round that is not booked
\* yet has neither a line nor a revealed session.
Booked ==
  /\ \A n \in 1..Len(booked) : LineFits(booked[n])
  /\ \A m, n \in 1..Len(booked) : booked[m].pull = booked[n].pull => m = n
  /\ round.kind # "none" /\ settledRef # round.pull =>
       \A n \in 1..Len(booked) : booked[n].pull # round.pull
  /\ \A n \in 1..Len(reveals) : RevealFits(reveals[n])
  /\ \A m, n \in 1..Len(reveals) : reveals[m] = reveals[n] => m = n
  /\ round.kind = "hosted" /\ round.outcome # Undefined /\ ~round.revealed =>
       \A n \in 1..Len(reveals) : reveals[n] # round.sessionId
  /\ round.sessionKey # 0
       /\ (round.kind # "hosted" \/ round.outcome = Undefined \/ round.sessionKey # round.sessionId) =>
       \A n \in 1..Len(reveals) : reveals[n] # round.sessionKey

IInv == PageType /\ ChainFits /\ DemoFits /\ RoundFits /\ OwnSession /\ Booked

-----------------------------------------------------------------------------
(* Updates of the round, and lists that grow.                              *)

LEMMA SetKey ==
  ASSUME NEW r, IsRound(r), NEW v, NEW q, q = [r EXCEPT !.sessionKey = v]
  PROVE  /\ IsRound(q) /\ q.sessionKey = v
         /\ q.pull = r.pull /\ q.kind = r.kind /\ q.cabinetId = r.cabinetId
         /\ q.status = r.status /\ q.sessionId = r.sessionId
         /\ q.outcome = r.outcome /\ q.revealed = r.revealed
BY DEF RoundFields, NoRound, IsRound

LEMMA SetStatus ==
  ASSUME NEW r, IsRound(r), NEW v, NEW q, q = [r EXCEPT !.status = v]
  PROVE  /\ IsRound(q) /\ q.status = v
         /\ q.pull = r.pull /\ q.kind = r.kind /\ q.cabinetId = r.cabinetId
         /\ q.sessionKey = r.sessionKey /\ q.sessionId = r.sessionId
         /\ q.outcome = r.outcome /\ q.revealed = r.revealed
BY DEF RoundFields, NoRound, IsRound

LEMMA SetRevealed ==
  ASSUME NEW r, IsRound(r), NEW v, NEW q, q = [r EXCEPT !.revealed = v]
  PROVE  /\ IsRound(q) /\ q.revealed = v
         /\ q.pull = r.pull /\ q.kind = r.kind /\ q.cabinetId = r.cabinetId
         /\ q.sessionKey = r.sessionKey /\ q.sessionId = r.sessionId
         /\ q.outcome = r.outcome /\ q.status = r.status
BY DEF RoundFields, NoRound, IsRound

LEMMA SetOutcome ==
  ASSUME NEW r, IsRound(r), NEW v, NEW q, q = [r EXCEPT !.outcome = v]
  PROVE  /\ IsRound(q) /\ q.outcome = v
         /\ q.pull = r.pull /\ q.kind = r.kind /\ q.cabinetId = r.cabinetId
         /\ q.sessionKey = r.sessionKey /\ q.sessionId = r.sessionId
         /\ q.status = r.status /\ q.revealed = r.revealed
BY DEF RoundFields, NoRound, IsRound

LEMMA NoRoundIs ==
  /\ IsRound(NoRound) /\ NoRound.kind = "none" /\ NoRound.pull = 0 /\ NoRound.status = "idle"
  /\ NoRound.sessionKey = 0 /\ NoRound.sessionId = 0 /\ NoRound.outcome = Undefined
  /\ NoRound.revealed = FALSE
BY DEF NoRound, IsRound, RoundFields

LEMMA AppendToList ==
  ASSUME NEW s, IsList(s), NEW e
  PROVE  LET u == Append(s, e)
         IN  /\ IsList(u) /\ Len(u) = Len(s) + 1
             /\ \A n \in 1..Len(s) : u[n] = s[n]
             /\ u[Len(s) + 1] = e
             /\ \A n \in 1..Len(u) : n \in 1..Len(s) \/ n = Len(s) + 1
<1> DEFINE S == {s[n] : n \in 1..Len(s)} \cup {e}
           u == Append(s, e)
<1>1. s \in Seq(S) /\ e \in S
  BY DEF IsList
<1> HIDE DEF S
<1>2. Len(s) \in Nat
  BY DEF IsList
<1>3. /\ u \in Seq(S) /\ Len(u) = Len(s) + 1
      /\ \A n \in 1..Len(s) : u[n] = s[n]
      /\ u[Len(s) + 1] = e
  BY <1>1, AppendProperties
<1> HIDE DEF u
<1>4. IsList(u)
  BY <1>3 DEF IsList
<1>5. \A n \in 1..Len(u) : n \in 1..Len(s) \/ n = Len(s) + 1
  BY <1>2, <1>3
<1> QED BY <1>3, <1>4, <1>5, Zenon DEF u

-----------------------------------------------------------------------------
(* Steps that leave the books alone.                                       *)

\* What no step takes back.
Grows ==
  /\ pulls <= pulls' /\ pulls' \in Nat
  /\ \A i \in Pulls :
       /\ calls[i] = "opened" => calls'[i] = "opened"
       /\ settled[i] # Undefined => settled'[i] = settled[i]
       /\ calls[i] # "none" => gameData'[i] = gameData[i]
  /\ doubled => doubled'

\* LineFits of the next state, for a line that is a value.
LineFitsNext(line) ==
  /\ line.pull \in 1..pulls'
  /\ line.kind = "hosted" =>
       /\ line.session \in Pulls /\ calls'[line.session] = "opened"
       /\ settled'[line.session] # Undefined
       /\ line.cabinetId = gameData'[line.session] /\ settled'[line.session] # Cancelled =>
            line.tier = settled'[line.session]
       /\ doubled' \/ (line.session = line.pull /\ line.cabinetId = gameData'[line.session])

LEMMA LinesStay ==
  ASSUME PageType, Grows, NEW line, LineFits(line)
  PROVE  LineFitsNext(line)
<1>1. line.pull \in 1..pulls'
  BY DEF LineFits, Grows, PageType
<1>2. ASSUME line.kind = "hosted"
      PROVE  /\ line.session \in Pulls /\ calls'[line.session] = "opened"
             /\ settled'[line.session] # Undefined
             /\ line.cabinetId = gameData'[line.session] /\ settled'[line.session] # Cancelled =>
                  line.tier = settled'[line.session]
             /\ doubled' \/ (line.session = line.pull /\ line.cabinetId = gameData'[line.session])
  <2>1. /\ line.session \in Pulls /\ calls[line.session] = "opened"
        /\ Drawn(line.session, line.cabinetId, line.tier)
        /\ doubled \/ (line.session = line.pull /\ line.cabinetId = gameData[line.session])
    BY <1>2 DEF LineFits
  <2>2. /\ calls'[line.session] = "opened"
        /\ settled[line.session] # Undefined => settled'[line.session] = settled[line.session]
        /\ gameData'[line.session] = gameData[line.session]
    BY <2>1 DEF Grows
  <2> QED BY <2>1, <2>2 DEF Drawn, Grows
<1> QED BY <1>1, <1>2 DEF LineFitsNext

LEMMA BooksStay ==
  ASSUME PageType, Grows, Booked, UNCHANGED <<booked, reveals, settledRef>>,
         round'.kind # "none" /\ settledRef # round'.pull =>
           \A n \in 1..Len(booked) : booked[n].pull # round'.pull,
         round'.kind = "hosted" /\ round'.outcome # Undefined /\ ~round'.revealed =>
           \A n \in 1..Len(reveals) : reveals[n] # round'.sessionId,
         round'.sessionKey # 0
           /\ (round'.kind # "hosted" \/ round'.outcome = Undefined
                 \/ round'.sessionKey # round'.sessionId) =>
           \A n \in 1..Len(reveals) : reveals[n] # round'.sessionKey
  PROVE  Booked'
<1>1. \A n \in 1..Len(booked) : LineFitsNext(booked[n])
  BY LinesStay DEF Booked
<1>2. \A n \in 1..Len(booked') : LineFits(booked[n])'
  BY <1>1 DEF LineFits, Drawn, LineFitsNext
<1>3. ASSUME NEW n \in 1..Len(reveals)
      PROVE  RevealFits(reveals[n])'
  <2>1. RevealFits(reveals[n])
    BY DEF Booked
  <2> QED BY <2>1 DEF RevealFits, Grows
<1> QED BY <1>2, <1>3 DEF Booked

-----------------------------------------------------------------------------
(* The steps.                                                              *)

\* The handshake, the host's readiness, the tab, the button of the queue and a
\* rendering leave the round and the chain alone.
LEMMA RestStays ==
  ASSUME IInv, UNCHANGED <<machine, demoDue, pulls, chain, doubled>>,
         cabinetId' \in CabinetIds, autoLeft' \in Int,
         refusedInQueue' \in BOOLEAN, unrendered' \in BOOLEAN,
         mode = "hosted" => mode' = "hosted",
         mode' = "hosted" => handshake' # "pending",
         unrendered' /\ mode' = "hosted" => unrendered /\ mode = "hosted",
         refusedInQueue' /\ autoLeft' # Stopped => error \/ doubled
  PROVE  IInv'
<1>1. PageType'
  BY DEF IInv, PageType, IsRound, IsList, machine, chain
<1>2. ChainFits'
  BY DEF IInv, ChainFits, FullRow, machine, chain
<1>3. DemoFits'
  BY DEF IInv, DemoFits, machine, chain
<1>4. RoundFits'
  BY DEF IInv, RoundFits, Drawn, machine, chain
<1>5. OwnSession'
  BY DEF IInv, OwnSession, PageType, machine, chain
<1>6. Booked'
  BY DEF IInv, Booked, LineFits, RevealFits, Drawn, machine, chain
<1> QED BY <1>1, <1>2, <1>3, <1>4, <1>5, <1>6 DEF IInv

LEMMA RestSteps ==
  ASSUME IInv,
         \/ HandshakeResolves \/ HandshakeFails \/ HandshakeTimesOut \/ HostReadiness
         \/ \E c \in CabinetIds : ChooseCabinet(c)
         \/ Render \/ ToggleAuto \/ AutoStops
  PROVE  IInv'
<1> USE DEF histories, host
<1>0. /\ cabinetId \in CabinetIds /\ autoLeft \in Int /\ Stopped \in Int /\ AUTO_PULLS \in Int
      /\ refusedInQueue \in BOOLEAN /\ unrendered \in BOOLEAN
      /\ mode = "hosted" => handshake # "pending"
      /\ refusedInQueue /\ autoLeft # Stopped => error \/ doubled
  BY PageAssumption DEF IInv, PageType, DemoFits, OwnSession, Stopped
<1>1. CASE HandshakeResolves
  BY <1>0, <1>1, RestStays DEF HandshakeResolves
<1>2. CASE HandshakeFails
  BY <1>0, <1>2, RestStays DEF HandshakeFails
<1>3. CASE HandshakeTimesOut
  BY <1>0, <1>3, RestStays DEF HandshakeTimesOut
<1>4. CASE HostReadiness
  BY <1>0, <1>4, RestStays DEF HostReadiness
<1>5. ASSUME NEW c \in CabinetIds, ChooseCabinet(c) PROVE IInv'
  BY <1>0, <1>5, RestStays DEF ChooseCabinet
<1>6. CASE Render
  BY <1>0, <1>6, RestStays DEF Render
<1>7. CASE ToggleAuto
  BY <1>0, <1>7, RestStays DEF ToggleAuto
<1>8. CASE AutoStops
  BY <1>0, <1>8, RestStays DEF AutoStops
<1> QED BY <1>1, <1>2, <1>3, <1>4, <1>5, <1>6, <1>7, <1>8

\* A new round has a pull number of its own, and its session one cabinet.
LEMMA OpenRoundStep ==
  ASSUME IInv, OpenRound,
         mode = "hosted" => demoDue = {},
         autoLeft' \in Int, unrendered' \in BOOLEAN,
         doubled' \in BOOLEAN, refusedInQueue' \in BOOLEAN,
         doubled => doubled',
         ~doubled' => ~(round.kind = "hosted" /\ round.outcome = Undefined),
         ~doubled' => ~(refusedInQueue' /\ autoLeft' # Stopped)
  PROVE  IInv'
<1> DEFINE n == pulls + 1
<1>0. /\ pulls \in Nat /\ pulls < MaxPulls /\ n \in Pulls /\ n # 0 /\ pulls' = n
      /\ error' = FALSE /\ cabinetId \in CabinetIds
      /\ UNCHANGED <<mode, handshake, cabinetId, booked, settledRef, reveals, settled, rows>>
  BY PageAssumption DEF IInv, PageType, OpenRound, Pulls, host
<1>1. /\ IsRound(round') /\ round'.pull = n /\ round'.cabinetId = cabinetId
      /\ round'.kind = IF mode = "hosted" THEN "hosted" ELSE "demo"
      /\ round'.status = "positioning" /\ round'.sessionKey = 0 /\ round'.sessionId = 0
      /\ round'.outcome = Undefined /\ round'.revealed = FALSE
  BY DEF OpenRound, IsRound, RoundFields, NoRound
<1>2. calls' = IF mode = "hosted" THEN [calls EXCEPT ![n] = "pending"] ELSE calls
  BY DEF OpenRound
<1>3. gameData' = IF mode = "hosted" THEN [gameData EXCEPT ![n] = cabinetId] ELSE gameData
  BY DEF OpenRound
<1>4. demoDue' = IF mode = "hosted" THEN demoDue ELSE demoDue \cup {n}
  BY DEF OpenRound
<1>5. /\ \A i \in Pulls : calls[i] # "none" => i <= pulls /\ mode = "hosted"
      /\ calls[n] = "none"
  BY <1>0 DEF IInv, ChainFits
<1>6. /\ calls \in [Pulls -> {"none", "pending", "opened", "refused"}]
      /\ gameData \in [Pulls -> CabinetIds]
  BY DEF IInv, PageType
<1> HIDE DEF n
<1>7. Grows
  BY <1>0, <1>2, <1>3, <1>5, <1>6 DEF Grows, n
<1>8. PageType'
  <2>1. pulls' \in 0..MaxPulls
    BY <1>0, PageAssumption DEF n
  <2>2. calls' \in [Pulls -> {"none", "pending", "opened", "refused"}]
    BY <1>0, <1>2, <1>6
  <2>3. gameData' \in [Pulls -> CabinetIds]
    BY <1>0, <1>3, <1>6
  <2> QED BY <1>0, <1>1, <2>1, <2>2, <2>3 DEF IInv, PageType, IsList
<1>9. ChainFits'
  <2>1. \A i \in Pulls : calls'[i] # "none" => i <= pulls' /\ mode' = "hosted"
    <3>1. \A i \in Pulls : i <= pulls => i <= pulls + 1
      BY <1>0 DEF Pulls
    <3>2. \A i \in Pulls : i = n => i <= pulls + 1
      BY <1>0 DEF Pulls, n
    <3>3. pulls' = pulls + 1 /\ mode' = mode
      BY <1>0 DEF n
    <3> QED BY <1>2, <1>5, <1>6, <3>1, <3>2, <3>3
  <2> QED BY <1>0, <2>1 DEF IInv, ChainFits, FullRow
<1>10. DemoFits'
  <2>1. mode # "hosted" => \A i \in Pulls : calls'[i] = "none"
    BY <1>2, <1>5
  <2> QED BY <1>0, <1>1, <1>4, <2>1 DEF IInv, DemoFits, Waiting
<1>11. RoundFits'
  BY <1>0, <1>1 DEF RoundFits, Waiting, Pulls, n
<1>12. OwnSession'
  <2>1. ASSUME ~doubled', NEW i \in Pulls, calls'[i] = "pending"
        PROVE  mode = "hosted" /\ i = n
    <3>1. ~doubled /\ ~(round.kind = "hosted" /\ round.outcome = Undefined)
      BY <2>1
    <3>2. calls[i] # "pending"
      BY <3>1 DEF IInv, OwnSession
    <3> QED BY <1>2, <1>6, <2>1, <3>2
  <2>2. mode = "hosted" => gameData'[n] = cabinetId
    BY <1>0, <1>3, <1>6
  <2> QED BY <1>0, <1>1, <2>1, <2>2 DEF OwnSession
<1>13. Booked'
  <2>1. \A k \in 1..Len(booked) : booked[k].pull # n
    BY <1>0 DEF IInv, Booked, LineFits, n
  <2> QED BY <1>0, <1>1, <1>7, <2>1, BooksStay DEF IInv
<1> QED BY <1>8, <1>9, <1>10, <1>11, <1>12, <1>13 DEF IInv

LEMMA PullStep ==
  ASSUME IInv, Pull
  PROVE  IInv'
<1>1. /\ OpenRound /\ unrendered' = FALSE /\ UNCHANGED <<autoLeft, refusedInQueue>>
      /\ doubled' = (doubled \/ unrendered)
      /\ unrendered \/ (~Busy /\ ~(autoLeft # Stopped /\ error))
  BY DEF Pull, CanPull, AutoMustStop
<1>2. /\ autoLeft \in Int /\ doubled \in BOOLEAN /\ refusedInQueue \in BOOLEAN
      /\ unrendered \in BOOLEAN
  BY DEF IInv, PageType
<1>3. mode = "hosted" => demoDue = {}
  BY <1>1 DEF IInv, DemoFits, Busy, BusyStatus, RoundStatus, Waiting
<1>4. ~doubled' => ~(round.kind = "hosted" /\ round.outcome = Undefined)
  BY <1>1 DEF IInv, RoundFits, Busy, BusyStatus, RoundStatus, Waiting
<1>5. ~doubled' => ~(refusedInQueue' /\ autoLeft' # Stopped)
  BY <1>1 DEF IInv, OwnSession
<1>6. doubled' \in BOOLEAN /\ (doubled => doubled')
  BY <1>1, <1>2
<1> QED BY <1>1, <1>2, <1>3, <1>4, <1>5, <1>6, OpenRoundStep

LEMMA AutoFiresStep ==
  ASSUME IInv, AutoFires
  PROVE  IInv'
<1>1. /\ OpenRound /\ unrendered' = TRUE /\ autoLeft' = autoLeft - 1
      /\ UNCHANGED <<doubled, refusedInQueue>>
      /\ ~Busy /\ autoLeft # Stopped /\ ~error
  BY DEF AutoFires, CanPull, AutoMustStop, histories
<1>2. /\ autoLeft \in Int /\ doubled \in BOOLEAN /\ refusedInQueue \in BOOLEAN
      /\ unrendered \in BOOLEAN
  BY DEF IInv, PageType
<1>3. mode = "hosted" => demoDue = {}
  BY <1>1 DEF IInv, DemoFits, Busy, BusyStatus, RoundStatus, Waiting
<1>4. ~doubled' => ~(round.kind = "hosted" /\ round.outcome = Undefined)
  BY <1>1 DEF IInv, RoundFits, Busy, BusyStatus, RoundStatus, Waiting
<1>5. ~doubled' => ~(refusedInQueue' /\ autoLeft' # Stopped)
  BY <1>1 DEF IInv, OwnSession
<1> QED BY <1>1, <1>2, <1>3, <1>4, <1>5, OpenRoundStep

\* The key of a session reaches the round of its own pull, or a later one that was
\* made on the same rendering.
LEMMA SessionOpensStep ==
  ASSUME IInv, NEW i \in Pulls, SessionOpens(i)
  PROVE  IInv'
<1>0. /\ calls[i] = "pending" /\ i # 0
      /\ UNCHANGED <<mode, handshake, cabinetId, booked, error, settledRef, reveals, autoLeft,
                     demoDue, unrendered, pulls, gameData, settled, rows, doubled,
                     refusedInQueue>>
  BY DEF SessionOpens, host, histories, Pulls
<1>1. /\ calls' = [calls EXCEPT ![i] = "opened"]
      /\ calls \in [Pulls -> {"none", "pending", "opened", "refused"}]
  BY DEF IInv, PageType, SessionOpens
<1>2. \/ round = NoRound /\ round' = round
      \/ round # NoRound /\ round' = [round EXCEPT !.sessionKey = i]
  BY DEF SessionOpens
<1>3. IsRound(round)
  BY DEF IInv, PageType
<1>4. /\ IsRound(round')
      /\ round'.pull = round.pull /\ round'.kind = round.kind
      /\ round'.cabinetId = round.cabinetId /\ round'.status = round.status
      /\ round'.sessionId = round.sessionId /\ round'.outcome = round.outcome
      /\ round'.revealed = round.revealed
      /\ round = NoRound => round'.sessionKey = 0
      /\ round # NoRound => round'.sessionKey = i
  BY <1>2, <1>3, SetKey, NoRoundIs
<1>5. /\ \A k \in Pulls : calls[k] = "opened" => calls'[k] = "opened"
      /\ \A k \in Pulls : calls'[k] = IF k = i THEN "opened" ELSE calls[k]
  BY <1>1
<1>6. Grows
  BY <1>0, <1>5 DEF Grows, IInv, PageType
<1>7. PageType'
  <2>1. calls' \in [Pulls -> {"none", "pending", "opened", "refused"}]
    BY <1>1
  <2> QED BY <1>0, <1>4, <2>1 DEF IInv, PageType, IsList
<1>8. ChainFits'
  BY <1>0, <1>5 DEF IInv, ChainFits, FullRow
<1>9. DemoFits'
  <2>1. round.kind # "demo"
    BY <1>0 DEF IInv, DemoFits
  <2> QED BY <1>0, <1>4, <2>1 DEF IInv, DemoFits
<1>10. RoundFits'
  <2>1. round.kind = "none" => round' = NoRound
    BY <1>2, NoRoundIs DEF IInv, RoundFits
  <2>2. round'.sessionKey # 0 => round'.sessionKey \in Pulls /\ calls'[round'.sessionKey] = "opened"
    BY <1>0, <1>4, <1>5
  <2>3. round.kind = "hosted" /\ round.outcome # Undefined =>
          /\ round.sessionId \in Pulls /\ calls'[round.sessionId] = "opened"
          /\ Drawn(round.sessionId, round.cabinetId, round.outcome)
    BY <1>5 DEF IInv, RoundFits
  <2> QED BY <1>0, <1>4, <2>1, <2>2, <2>3 DEF IInv, RoundFits, Drawn
<1>11. OwnSession'
  <2>1. ~doubled => round.pull = i
    BY <1>0 DEF IInv, OwnSession
  <2> QED BY <1>0, <1>4, <1>5, <2>1 DEF IInv, OwnSession
<1>12. Booked'
  <2>1. \A n \in 1..Len(reveals) : reveals[n] # i
    BY <1>0 DEF IInv, Booked, RevealFits
  <2>2. /\ round'.kind # "none" /\ settledRef # round'.pull =>
             \A n \in 1..Len(booked) : booked[n].pull # round'.pull
        /\ round'.kind = "hosted" /\ round'.outcome # Undefined /\ ~round'.revealed =>
             \A n \in 1..Len(reveals) : reveals[n] # round'.sessionId
    BY <1>4 DEF IInv, Booked
  <2>3. round'.sessionKey # 0 => \A n \in 1..Len(reveals) : reveals[n] # round'.sessionKey
    BY <1>4, <2>1
  <2> QED BY <1>0, <1>6, <2>2, <2>3, BooksStay DEF IInv
<1> QED BY <1>7, <1>8, <1>9, <1>10, <1>11, <1>12 DEF IInv

\* No round, no demo timer and no call that waits: what is left when a pull fails.
LEMMA RoundGone ==
  ASSUME IInv, Grows, round' = NoRound, error' = TRUE, demoDue' = {},
         UNCHANGED <<mode, handshake, cabinetId, booked, settledRef, reveals, autoLeft,
                     unrendered, pulls, gameData, settled, rows, doubled>>,
         refusedInQueue' \in BOOLEAN,
         calls' \in [Pulls -> {"none", "pending", "opened", "refused"}],
         \A k \in Pulls : calls'[k] # "none" => calls[k] # "none",
         ~doubled => \A k \in Pulls : calls'[k] # "pending"
  PROVE  IInv'
<1>1. PageType'
  BY NoRoundIs DEF IInv, PageType, IsList
<1>2. ChainFits'
  BY DEF IInv, ChainFits, FullRow
<1>3. DemoFits'
  BY NoRoundIs DEF IInv, DemoFits
<1>4. RoundFits'
  BY NoRoundIs DEF RoundFits
<1>5. OwnSession'
  BY NoRoundIs DEF OwnSession
<1>6. Booked'
  BY NoRoundIs, BooksStay DEF IInv
<1> QED BY <1>1, <1>2, <1>3, <1>4, <1>5, <1>6 DEF IInv

LEMMA SessionRefusedStep ==
  ASSUME IInv, NEW i \in Pulls, SessionRefused(i)
  PROVE  IInv'
<1>0. /\ calls[i] = "pending" /\ round' = NoRound /\ error' = TRUE /\ demoDue' = {}
      /\ refusedInQueue' \in BOOLEAN
      /\ UNCHANGED <<mode, handshake, cabinetId, booked, settledRef, reveals, autoLeft,
                     unrendered, pulls, gameData, settled, rows, doubled>>
  BY DEF SessionRefused, host
<1>1. /\ calls' = [calls EXCEPT ![i] = "refused"]
      /\ calls \in [Pulls -> {"none", "pending", "opened", "refused"}]
  BY DEF IInv, PageType, SessionRefused
<1>2. /\ calls' \in [Pulls -> {"none", "pending", "opened", "refused"}]
      /\ \A k \in Pulls : calls'[k] = IF k = i THEN "refused" ELSE calls[k]
  BY <1>1
<1>3. Grows
  BY <1>0, <1>2 DEF Grows, IInv, PageType
<1>4. ~doubled => \A k \in Pulls : calls'[k] # "pending"
  BY <1>0, <1>2 DEF IInv, OwnSession
<1>5. \A k \in Pulls : calls'[k] # "none" => calls[k] # "none"
  BY <1>0, <1>2
<1> QED BY <1>0, <1>2, <1>3, <1>4, <1>5, RoundGone

LEMMA DropRoundStep ==
  ASSUME IInv, DropRound
  PROVE  IInv'
<1>0. /\ round.kind = "hosted" /\ round.outcome = Undefined /\ round.sessionKey # 0
      /\ round' = NoRound /\ error' = TRUE
      /\ UNCHANGED <<mode, handshake, cabinetId, booked, settledRef, reveals, autoLeft, demoDue,
                     unrendered, pulls, calls, gameData, settled, rows, doubled,
                     refusedInQueue>>
  BY DEF DropRound, AwaitsOutcome, host, chain, histories
<1>1. demoDue' = {} /\ refusedInQueue' \in BOOLEAN
  BY <1>0 DEF IInv, DemoFits, PageType
<1>2. calls' \in [Pulls -> {"none", "pending", "opened", "refused"}]
  BY <1>0 DEF IInv, PageType
<1>3. Grows
  BY <1>0 DEF Grows, IInv, PageType
<1>4. ~doubled => \A k \in Pulls : calls'[k] # "pending"
  BY <1>0 DEF IInv, OwnSession, RoundFits
<1> QED BY <1>0, <1>1, <1>2, <1>3, <1>4, RoundGone

\* The chain settles a session once, and its row shows what it came to.
LEMMA ChainMoves ==
  ASSUME IInv,
         UNCHANGED <<mode, handshake, cabinetId, machine, autoLeft, demoDue, unrendered, pulls,
                     calls, gameData, doubled, refusedInQueue>>,
         settled' \in [Pulls -> DrawnTiers \cup {Cancelled, Undefined}],
         rows' \in [Pulls -> SUBSET (RowFields \cup Open)],
         \A k \in Pulls : settled[k] # Undefined => settled'[k] = settled[k],
         \A k \in Pulls : rows'[k] # Open => settled'[k] # Undefined /\ rows'[k] \subseteq FullRow(k)'
  PROVE  IInv'
<1>1. PageType'
  BY DEF IInv, PageType, IsRound, IsList, machine
<1>2. ChainFits'
  BY DEF IInv, ChainFits
<1>3. DemoFits'
  BY DEF IInv, DemoFits, machine
<1>4. RoundFits'
  <2>1. round.kind = "hosted" /\ round.outcome # Undefined =>
          /\ round.sessionId \in Pulls /\ calls[round.sessionId] = "opened"
          /\ settled'[round.sessionId] # Undefined
          /\ round.cabinetId = gameData[round.sessionId] /\ settled'[round.sessionId] # Cancelled =>
               round.outcome = settled'[round.sessionId]
    BY DEF IInv, RoundFits, Drawn
  <2> QED BY <2>1 DEF IInv, RoundFits, Drawn, machine
<1>5. OwnSession'
  BY DEF IInv, OwnSession, machine
<1>6. Grows
  BY DEF Grows, IInv, PageType
<1>7. Booked'
  BY <1>6, BooksStay DEF IInv, Booked, machine
<1> QED BY <1>1, <1>2, <1>3, <1>4, <1>5, <1>7 DEF IInv

LEMMA SessionSettlesStep ==
  ASSUME IInv, NEW i \in Pulls, SessionSettles(i)
  PROVE  IInv'
<1>0. /\ settled[i] = Undefined
      /\ UNCHANGED <<mode, handshake, cabinetId, machine, autoLeft, demoDue, unrendered, pulls,
                     calls, gameData, rows, doubled, refusedInQueue>>
  BY DEF SessionSettles, host, histories
<1>1. PICK result \in DrawnTiers \cup {Cancelled} : settled' = [settled EXCEPT ![i] = result]
  BY DEF SessionSettles
<1>2. settled \in [Pulls -> DrawnTiers \cup {Cancelled, Undefined}]
  BY DEF IInv, PageType
<1>3. /\ settled' \in [Pulls -> DrawnTiers \cup {Cancelled, Undefined}]
      /\ \A k \in Pulls : settled[k] # Undefined => settled'[k] = settled[k]
  BY <1>0, <1>1, <1>2
<1>4. rows' \in [Pulls -> SUBSET (RowFields \cup Open)]
  BY <1>0 DEF IInv, PageType
<1>5. \A k \in Pulls : rows'[k] # Open => settled'[k] # Undefined /\ rows'[k] \subseteq FullRow(k)'
  BY <1>0, <1>3 DEF IInv, ChainFits, FullRow
<1> QED BY <1>0, <1>3, <1>4, <1>5, ChainMoves

LEMMA RowStep ==
  ASSUME IInv, NEW i \in Pulls, RowShows(i) \/ RowCompletes(i)
  PROVE  IInv'
<1>0. /\ settled[i] # Undefined
      /\ UNCHANGED <<mode, handshake, cabinetId, machine, autoLeft, demoDue, unrendered, pulls,
                     calls, gameData, settled, doubled, refusedInQueue>>
  BY DEF RowShows, RowCompletes, host, histories
<1>1. PICK fields \in SUBSET FullRow(i) : rows' = [rows EXCEPT ![i] = fields]
  BY DEF RowShows, RowCompletes
<1>2. /\ rows \in [Pulls -> SUBSET (RowFields \cup Open)]
      /\ settled \in [Pulls -> DrawnTiers \cup {Cancelled, Undefined}]
  BY DEF IInv, PageType
<1>3. fields \in SUBSET (RowFields \cup Open)
  BY DEF FullRow
<1>4. rows' \in [Pulls -> SUBSET (RowFields \cup Open)]
  BY <1>1, <1>2, <1>3
<1>5. \A k \in Pulls : rows'[k] = IF k = i THEN fields ELSE rows[k]
  BY <1>1, <1>2
<1>6. \A k \in Pulls : FullRow(k)' = FullRow(k)
  BY <1>0 DEF FullRow
<1>7. \A k \in Pulls : rows'[k] # Open => settled'[k] # Undefined /\ rows'[k] \subseteq FullRow(k)'
  BY <1>0, <1>5, <1>6 DEF IInv, ChainFits
<1> QED BY <1>0, <1>2, <1>4, <1>7, ChainMoves

\* The tier a row gives is one of the table, and it is the tier that was drawn
\* whenever the page has the cabinet of the session.
LEMMA RowTells ==
  ASSUME IInv, NEW i \in Pulls, rows[i] # Open, ~Abnormal(i), NEW tier \in RowOutcomes(i)
  PROVE  tier \in 0..PageTierTop /\ tier # Undefined /\ Drawn(i, round.cabinetId, tier)
<1>1. /\ settled[i] # Undefined /\ rows[i] \subseteq FullRow(i)
      /\ settled[i] \in DrawnTiers \cup {Cancelled, Undefined}
      /\ gameData[i] \in 0..2
  BY PageAssumption DEF IInv, ChainFits, PageType
<1>2. settled[i] # Cancelled => settled[i] \in 0..PageTierTop
  BY <1>1, PageAssumption
<1>3. \A t \in 0..PageTierTop : t # Undefined
  BY DEF PageTierTop, Undefined
<1>4. Wager \in Nat \ {0}
  BY PageAssumption
<1>5. CASE "gameState" \in rows[i] /\ settled[i] # Cancelled
  <2>1. tier = settled[i]
    BY <1>5 DEF RowOutcomes
  <2> QED BY <1>1, <1>2, <1>3, <1>5, <2>1 DEF Drawn
<1>6. CASE ~("gameState" \in rows[i] /\ settled[i] # Cancelled) /\ "randomness" \in rows[i]
  <2>1. settled[i] # Cancelled
    BY <1>1, <1>6 DEF FullRow, RowFields
  <2>2. tier \in IF round.cabinetId = gameData[i] THEN {settled[i]} ELSE 0..PageTierTop
    BY <1>6 DEF RowOutcomes
  <2>3. tier \in 0..PageTierTop /\ (round.cabinetId = gameData[i] => tier = settled[i])
    BY <1>2, <2>1, <2>2
  <2> QED BY <1>1, <1>3, <2>3 DEF Drawn
<1>7. CASE ~("gameState" \in rows[i] /\ settled[i] # Cancelled) /\ "randomness" \notin rows[i]
  <2>1. tier = OutcomeFromPayout(round.cabinetId, Wager, RowPayout(i))
    BY <1>7 DEF RowOutcomes
  <2>2. tier \in 0..PageTierTop
    BY <1>4, <2>1, PayoutTellsATier
  <2>3. ASSUME round.cabinetId = gameData[i], settled[i] # Cancelled
        PROVE  tier = settled[i]
    <3>1. RowPayout(i) = PayoutFor(Wager, gameData[i], settled[i])
      BY <2>3 DEF RowPayout
    <3> QED BY <1>1, <1>2, <1>4, <2>1, <2>3, <3>1, PayoutTellsTheTier
  <2> QED BY <1>1, <1>3, <2>2, <2>3 DEF Drawn
<1> QED BY <1>5, <1>6, <1>7

LEMMA OutcomeArrivesStep ==
  ASSUME IInv, OutcomeArrives
  PROVE  IInv'
<1> DEFINE i == round.sessionKey
<1>0. /\ round.kind = "hosted" /\ round.outcome = Undefined /\ i # 0
      /\ rows[i] # Open /\ ~Abnormal(i)
      /\ UNCHANGED <<mode, handshake, cabinetId, booked, error, settledRef, reveals, autoLeft,
                     demoDue, unrendered, pulls, calls, gameData, settled, rows, doubled,
                     refusedInQueue>>
  BY DEF OutcomeArrives, AwaitsOutcome, host, chain, histories
<1>1. i \in Pulls /\ calls[i] = "opened"
  BY <1>0 DEF IInv, RoundFits
<1>2. PICK tier \in RowOutcomes(i) :
        round' = [round EXCEPT
           !.outcome = tier, !.sessionId = i,
           !.payout = IF "payout" \in rows[i] THEN RowPayout(i)
                      ELSE PayoutFor(Wager, round.cabinetId, tier)]
  BY DEF OutcomeArrives
<1>3. tier # Undefined /\ Drawn(i, round.cabinetId, tier)
  BY <1>0, <1>1, RowTells
<1>4. IsRound(round)
  BY DEF IInv, PageType
<1>5. /\ IsRound(round') /\ round'.outcome = tier /\ round'.sessionId = i
      /\ round'.pull = round.pull /\ round'.kind = "hosted"
      /\ round'.cabinetId = round.cabinetId /\ round'.sessionKey = i
      /\ round'.status = round.status /\ round'.revealed = round.revealed
  <2>1. PICK paid : round' = [round EXCEPT !.outcome = tier, !.sessionId = i, !.payout = paid]
    BY <1>2
  <2>2. i = round.sessionKey
    OBVIOUS
  <2> HIDE DEF i
  <2>3. LET q == round' IN
          /\ IsRound(q) /\ q.outcome = tier /\ q.sessionId = i
          /\ q.pull = round.pull /\ q.kind = round.kind /\ q.cabinetId = round.cabinetId
          /\ q.sessionKey = round.sessionKey /\ q.status = round.status
          /\ q.revealed = round.revealed
    BY <1>4, <2>1 DEF IsRound, RoundFields, NoRound
  <2> QED BY <1>0, <2>2, <2>3
<1>6. Grows
  BY <1>0 DEF Grows, IInv, PageType
<1>7. PageType'
  BY <1>0, <1>5 DEF IInv, PageType, IsList
<1>8. ChainFits'
  BY <1>0 DEF IInv, ChainFits, FullRow
<1>9. DemoFits'
  BY <1>0, <1>5 DEF IInv, DemoFits
<1>10. RoundFits'
  <2>1. round.pull \in 1..pulls
    BY <1>0 DEF IInv, RoundFits
  <2> HIDE DEF i
  <2> QED BY <1>0, <1>1, <1>3, <1>5, <2>1 DEF RoundFits, Drawn
<1>11. OwnSession'
  <2>1. ~doubled => i = round.pull /\ \A k \in Pulls : calls[k] # "pending"
    BY <1>0, <1>1 DEF IInv, OwnSession
  <2>2. ~doubled => gameData[round.pull] = round.cabinetId
    BY <1>0 DEF IInv, OwnSession
  <2>3. ~doubled => (refusedInQueue /\ autoLeft # Stopped => error)
    BY DEF IInv, OwnSession
  <2> HIDE DEF i
  <2> QED BY <1>0, <1>5, <2>1, <2>2, <2>3 DEF OwnSession
<1>12. Booked'
  <2>1. \A n \in 1..Len(reveals) : reveals[n] # i
    BY <1>0 DEF IInv, Booked
  <2>2. round.kind # "none" /\ settledRef # round.pull =>
          \A n \in 1..Len(booked) : booked[n].pull # round.pull
    BY DEF IInv, Booked
  <2> HIDE DEF i
  <2> QED BY <1>0, <1>5, <1>6, <2>1, <2>2, BooksStay DEF IInv
<1> QED BY <1>7, <1>8, <1>9, <1>10, <1>11, <1>12 DEF IInv

\* Steps that only move the round on: its pull, session and books stay.
LEMMA RoundMoves ==
  ASSUME IInv,
         UNCHANGED <<mode, handshake, cabinetId, booked, error, settledRef, reveals, autoLeft,
                     unrendered, pulls, calls, gameData, settled, rows, doubled,
                     refusedInQueue>>,
         round.kind # "none", IsRound(round'),
         round'.pull = round.pull, round'.kind = round.kind,
         round'.cabinetId = round.cabinetId, round'.sessionKey = round.sessionKey,
         round'.sessionId = round.sessionId, round'.revealed = round.revealed,
         round.kind = "hosted" => round'.outcome = round.outcome,
         round.kind = "hosted" /\ round.outcome = Undefined => round'.status \in Waiting,
         demoDue' # {} => demoDue # {} /\ round'.status \in Waiting \cup {"gripping"}
  PROVE  IInv'
<1>1. PageType'
  BY DEF IInv, PageType, IsList
<1>2. ChainFits'
  BY DEF IInv, ChainFits, FullRow
<1>3. DemoFits'
  BY DEF IInv, DemoFits
<1>4. RoundFits'
  BY DEF IInv, RoundFits, Drawn
<1>5. OwnSession'
  BY DEF IInv, OwnSession
<1>6. Booked'
  <2>1. Grows
    BY DEF Grows, IInv, PageType
  <2>2. /\ round'.kind # "none" /\ settledRef # round'.pull =>
             \A n \in 1..Len(booked) : booked[n].pull # round'.pull
        /\ round'.kind = "hosted" /\ round'.outcome # Undefined /\ ~round'.revealed =>
             \A n \in 1..Len(reveals) : reveals[n] # round'.sessionId
        /\ round'.sessionKey # 0
             /\ (round'.kind # "hosted" \/ round'.outcome = Undefined
                   \/ round'.sessionKey # round'.sessionId) =>
             \A n \in 1..Len(reveals) : reveals[n] # round'.sessionKey
    BY DEF IInv, Booked
  <2> QED BY <2>1, <2>2, BooksStay DEF IInv
<1> QED BY <1>1, <1>2, <1>3, <1>4, <1>5, <1>6 DEF IInv

LEMMA DemoDrawsStep ==
  ASSUME IInv, NEW i \in Pulls, DemoDraws(i)
  PROVE  IInv'
<1>0. /\ i \in demoDue /\ demoDue' = demoDue \ {i}
      /\ UNCHANGED <<mode, handshake, cabinetId, booked, error, settledRef, reveals, autoLeft,
                     unrendered, pulls, calls, gameData, settled, rows, doubled,
                     refusedInQueue>>
  BY DEF DemoDraws, host, chain, histories
<1>1. /\ round.kind = "demo" /\ round.status \in Waiting \cup {"gripping"}
      /\ round # NoRound /\ IsRound(round)
  BY <1>0, NoRoundIs DEF IInv, DemoFits, PageType
<1>2. PICK word \in DemoWords :
        round' = [round EXCEPT !.outcome = PlayDemoRound(round.cabinetId, word)]
  BY <1>1 DEF DemoDraws
<1>3. /\ IsRound(round')
      /\ round'.pull = round.pull /\ round'.kind = round.kind
      /\ round'.cabinetId = round.cabinetId /\ round'.sessionKey = round.sessionKey
      /\ round'.sessionId = round.sessionId /\ round'.revealed = round.revealed
      /\ round'.status = round.status
  BY <1>1, <1>2, SetOutcome
<1> QED BY <1>0, <1>1, <1>3, RoundMoves

LEMMA AdvanceStep ==
  ASSUME IInv, Advance
  PROVE  IInv'
<1>0. /\ round' = [round EXCEPT !.status = NextStatus(round)]
      /\ NextStatus(round) # round.status /\ (NextStatus(round) = "lifting" => demoDue = {})
      /\ demoDue' = demoDue
      /\ UNCHANGED <<mode, handshake, cabinetId, booked, error, settledRef, reveals, autoLeft,
                     unrendered, pulls, calls, gameData, settled, rows, doubled,
                     refusedInQueue>>
  BY DEF Advance, host, chain, histories
<1>1. /\ round.status = "positioning" => NextStatus(round) = "descending"
      /\ round.status = "descending" => NextStatus(round) = "gripping-wait"
      /\ round.status = "gripping-wait" /\ round.outcome # Undefined =>
           NextStatus(round) = "gripping"
      /\ round.status = "gripping-wait" /\ round.outcome = Undefined =>
           NextStatus(round) = round.status
      /\ round.status = "gripping" => NextStatus(round) = "lifting"
      /\ round.status = "idle" => NextStatus(round) = round.status
  BY DEF NextStatus
<1>2. IsRound(round)
  BY DEF IInv, PageType
<1>3. /\ IsRound(round') /\ round'.status = NextStatus(round)
      /\ round'.pull = round.pull /\ round'.kind = round.kind
      /\ round'.cabinetId = round.cabinetId /\ round'.sessionKey = round.sessionKey
      /\ round'.sessionId = round.sessionId /\ round'.revealed = round.revealed
      /\ round'.outcome = round.outcome
  BY <1>0, <1>2, SetStatus
<1>4. round.kind # "none"
  BY <1>0, <1>1, NoRoundIs DEF IInv, RoundFits
<1>5. round.kind = "hosted" /\ round.outcome = Undefined => round'.status \in Waiting
  BY <1>0, <1>1, <1>3 DEF IInv, RoundFits, Waiting
<1>6. demoDue' # {} => demoDue # {} /\ round'.status \in Waiting \cup {"gripping"}
  BY <1>0, <1>1, <1>3 DEF IInv, DemoFits, Waiting
<1> QED BY <1>0, <1>3, <1>4, <1>5, <1>6, RoundMoves

LEMMA BackToIdleStep ==
  ASSUME IInv, BackToIdle
  PROVE  IInv'
<1>0. /\ round' = [round EXCEPT !.status = "idle"] /\ round.status = "settled"
      /\ demoDue' = demoDue
      /\ UNCHANGED <<mode, handshake, cabinetId, booked, error, settledRef, reveals, autoLeft,
                     unrendered, pulls, calls, gameData, settled, rows, doubled,
                     refusedInQueue>>
  BY DEF BackToIdle, host, chain, histories
<1>1. IsRound(round)
  BY DEF IInv, PageType
<1>2. /\ IsRound(round')
      /\ round'.pull = round.pull /\ round'.kind = round.kind
      /\ round'.cabinetId = round.cabinetId /\ round'.sessionKey = round.sessionKey
      /\ round'.sessionId = round.sessionId /\ round'.revealed = round.revealed
      /\ round'.outcome = round.outcome
  BY <1>0, <1>1, SetStatus
<1>3. round.kind # "none"
  BY <1>0, NoRoundIs DEF IInv, RoundFits
<1>4. ~(round.kind = "hosted" /\ round.outcome = Undefined) /\ demoDue = {}
  BY <1>0 DEF IInv, RoundFits, DemoFits, Waiting
<1> QED BY <1>0, <1>2, <1>3, <1>4, RoundMoves

\* A settled round gets a line of its own, and its session one reveal.
LEMMA BookStep ==
  ASSUME IInv, Book
  PROVE  IInv'
<1> DEFINE told == round.kind = "hosted" /\ round.sessionId # 0 /\ ~round.revealed
<1>0. /\ round.status = "settled" /\ round.outcome # Undefined /\ settledRef # round.pull
      /\ settledRef' = round.pull /\ booked' = Append(booked, Line(round))
      /\ UNCHANGED <<mode, handshake, cabinetId, error, autoLeft, demoDue, unrendered, pulls,
                     calls, gameData, settled, rows, doubled, refusedInQueue>>
  BY DEF Book, BookDue, NotBooked, host, chain, histories
<1>1. /\ told => /\ round' = [round EXCEPT !.revealed = TRUE]
                 /\ reveals' = Append(reveals, round.sessionId)
      /\ ~told => round' = round /\ reveals' = reveals
  BY DEF Book, SessionOf
<1>2. IsRound(round) /\ IsList(booked) /\ IsList(reveals) /\ round.kind # "none"
  BY <1>0, NoRoundIs DEF IInv, PageType, RoundFits
<1>3. /\ IsRound(round')
      /\ round'.pull = round.pull /\ round'.kind = round.kind
      /\ round'.cabinetId = round.cabinetId /\ round'.sessionKey = round.sessionKey
      /\ round'.sessionId = round.sessionId /\ round'.outcome = round.outcome
      /\ round'.status = round.status
      /\ told => round'.revealed
  <2>1. CASE told
    <3>1. round' = [round EXCEPT !.revealed = TRUE]
      BY <1>1, <2>1
    <3> QED BY <1>2, <3>1, SetRevealed
  <2>2. CASE ~told
    BY <1>1, <1>2, <2>2 DEF IsRound
  <2> QED BY <2>1, <2>2
<1> DEFINE line == Line(round)
           last == Len(booked) + 1
           end == Len(reveals) + 1
           id == round.sessionId
<1>4. /\ line.pull = round.pull /\ line.kind = round.kind /\ line.session = id
      /\ line.cabinetId = round.cabinetId /\ line.tier = round.outcome
  BY DEF Line
<1>5. /\ IsList(booked') /\ last \in 1..Len(booked') /\ booked'[last] = line
      /\ \A n \in 1..Len(booked) : n \in 1..Len(booked') /\ booked'[n] = booked[n]
      /\ \A n \in 1..Len(booked') : n \in 1..Len(booked) \/ n = last
  <2> HIDE DEF line
  <2>1. IsList(booked) /\ booked' = Append(booked, line)
    BY <1>0, <1>2 DEF line
  <2>2. LET u == booked' IN
          /\ IsList(u) /\ Len(u) = Len(booked) + 1
          /\ \A n \in 1..Len(booked) : u[n] = booked[n]
          /\ u[Len(booked) + 1] = line
          /\ \A n \in 1..Len(u) : n \in 1..Len(booked) \/ n = Len(booked) + 1
    BY <2>1, AppendToList
  <2>3. Len(booked) \in Nat
    BY <2>1 DEF IsList
  <2> QED BY <2>2, <2>3
<1>6. told =>
        /\ IsList(reveals') /\ reveals'[end] = id
        /\ \A n \in 1..Len(reveals) : reveals'[n] = reveals[n]
        /\ \A n \in 1..Len(reveals') : n \in 1..Len(reveals) \/ n = end
  <2> SUFFICES ASSUME told
               PROVE  /\ IsList(reveals') /\ reveals'[end] = id
                      /\ \A n \in 1..Len(reveals) : reveals'[n] = reveals[n]
                      /\ \A n \in 1..Len(reveals') : n \in 1..Len(reveals) \/ n = end
    OBVIOUS
  <2>1. reveals' = Append(reveals, id)
    BY <1>1
  <2> HIDE DEF id
  <2>2. LET u == reveals' IN
          /\ IsList(u) /\ Len(u) = Len(reveals) + 1
          /\ \A n \in 1..Len(reveals) : u[n] = reveals[n]
          /\ u[Len(reveals) + 1] = id
          /\ \A n \in 1..Len(u) : n \in 1..Len(reveals) \/ n = Len(reveals) + 1
    BY <1>2, <2>1, AppendToList
  <2> QED BY <2>2
<1> HIDE DEF line, last, end
<1>7. Grows
  BY <1>0 DEF Grows, IInv, PageType
<1>8. PageType'
  BY <1>0, <1>1, <1>2, <1>3, <1>5, <1>6 DEF IInv, PageType
<1>9. ChainFits'
  BY <1>0 DEF IInv, ChainFits, FullRow
<1>10. DemoFits'
  BY <1>0, <1>3 DEF IInv, DemoFits
<1>11. RoundFits'
  <2>1. round' = NoRound \/ round'.kind # "none"
    BY <1>2, <1>3
  <2> QED BY <1>0, <1>3, <2>1 DEF IInv, RoundFits, Drawn
<1>12. OwnSession'
  BY <1>0, <1>3 DEF IInv, OwnSession
<1>13. Booked'
  <2>1. round.kind = "hosted" =>
          /\ id \in Pulls /\ id # 0 /\ calls[id] = "opened"
          /\ settled[id] # Undefined
          /\ round.cabinetId = gameData[id] /\ settled[id] # Cancelled => round.outcome = settled[id]
          /\ doubled \/ (id = round.pull /\ round.cabinetId = gameData[id])
    BY <1>0 DEF IInv, RoundFits, Drawn, OwnSession, Pulls
  <2>2. round.pull \in 1..pulls
    BY <1>2 DEF IInv, RoundFits
  <2> HIDE DEF id
  <2>3. LineFitsNext(line)
    BY <1>0, <1>4, <2>1, <2>2 DEF LineFitsNext
  <2>4. \A n \in 1..Len(booked) : LineFitsNext(booked[n])
    BY <1>7, LinesStay DEF IInv, Booked
  <2>5. \A n \in 1..Len(booked') : LineFitsNext(booked'[n])
    BY <1>5, <2>3, <2>4
  <2>6. \A n \in 1..Len(booked') : LineFits(booked[n])'
    BY <2>5 DEF LineFits, Drawn, LineFitsNext
  <2>7. \A n \in 1..Len(booked) : booked[n].pull # round.pull
    BY <1>0, <1>2 DEF IInv, Booked
  <2>8. \A m, n \in 1..Len(booked) : booked[m].pull = booked[n].pull => m = n
    BY DEF IInv, Booked
  <2>9. \A m, n \in 1..Len(booked') : booked'[m].pull = booked'[n].pull => m = n
    BY <1>4, <1>5, <2>7, <2>8
  <2>10. \A n \in 1..Len(reveals) : RevealFits(reveals[n])
    BY DEF IInv, Booked
  <2> DEFINE Fits(i) == /\ i \in Pulls /\ calls'[i] = "opened" /\ settled'[i] # Undefined
                        /\ \E k \in 1..Len(booked') : booked'[k].session = i
  <2>11. \A n \in 1..Len(reveals) : Fits(reveals[n])
    BY <1>0, <1>5, <2>10 DEF RevealFits
  <2>12. told => Fits(id)
    BY <1>0, <1>4, <1>5, <2>1
  <2> HIDE DEF Fits
  <2>13. \A n \in 1..Len(reveals') : Fits(reveals'[n])
    BY <1>1, <1>6, <2>11, <2>12
  <2>14. \A n \in 1..Len(reveals') : RevealFits(reveals[n])'
    BY <2>13 DEF RevealFits, Fits
  <2>15. told => \A n \in 1..Len(reveals) : reveals[n] # id
    BY <1>0 DEF IInv, Booked, id
  <2>16. \A m, n \in 1..Len(reveals) : reveals[m] = reveals[n] => m = n
    BY DEF IInv, Booked
  <2>17. \A m, n \in 1..Len(reveals') : reveals'[m] = reveals'[n] => m = n
    BY <1>1, <1>6, <2>15, <2>16
  <2>18. round'.kind = "hosted" /\ round'.outcome # Undefined /\ ~round'.revealed => FALSE
    BY <1>1, <1>3, <2>1 DEF id
  <2>19. round'.sessionKey # 0
           /\ (round'.kind # "hosted" \/ round'.outcome = Undefined
                 \/ round'.sessionKey # round'.sessionId) =>
           \A n \in 1..Len(reveals') : reveals'[n] # round'.sessionKey
    <3>1. SUFFICES ASSUME round.sessionKey # 0, round.kind # "hosted" \/ round.sessionKey # id
                   PROVE  \A n \in 1..Len(reveals') : reveals'[n] # round.sessionKey
      BY <1>0, <1>3 DEF id
    <3>2. \A n \in 1..Len(reveals) : reveals[n] # round.sessionKey
      BY <3>1 DEF IInv, Booked, id
    <3> QED BY <1>1, <1>6, <3>1, <3>2
  <2> QED BY <1>0, <1>3, <2>6, <2>9, <2>14, <2>17, <2>18, <2>19 DEF Booked
<1> QED BY <1>8, <1>9, <1>10, <1>11, <1>12, <1>13 DEF IInv

-----------------------------------------------------------------------------
(* The invariant.                                                          *)

LEMMA InitInv ==
  Init => IInv
<1> SUFFICES ASSUME Init PROVE IInv
  OBVIOUS
<1> USE DEF Init
<1>1. PageType
  <2>1. /\ pulls \in 0..MaxPulls /\ cabinetId \in CabinetIds /\ autoLeft \in Int
    BY PageAssumption DEF Stopped
  <2>2. gameData \in [Pulls -> CabinetIds]
    BY PageAssumption
  <2>3. IsList(booked) /\ IsList(reveals)
    BY DEF IsList
  <2> QED BY <2>1, <2>2, <2>3, NoRoundIs DEF PageType
<1>2. ChainFits /\ DemoFits /\ RoundFits /\ OwnSession
  BY NoRoundIs DEF ChainFits, DemoFits, RoundFits, OwnSession
<1>3. Booked
  BY NoRoundIs DEF Booked
<1> QED BY <1>1, <1>2, <1>3 DEF IInv

LEMMA StepInv ==
  IInv /\ [Next]_vars => IInv'
<1> SUFFICES ASSUME IInv, [Next]_vars PROVE IInv'
  OBVIOUS
<1>1. CASE \/ HandshakeResolves \/ HandshakeFails \/ HandshakeTimesOut \/ HostReadiness
           \/ \E c \in CabinetIds : ChooseCabinet(c)
           \/ Render \/ ToggleAuto \/ AutoStops
  BY <1>1, RestSteps
<1>2. CASE Pull
  BY <1>2, PullStep
<1>3. CASE AutoFires
  BY <1>3, AutoFiresStep
<1>4. ASSUME NEW i \in Pulls, SessionOpens(i) \/ SessionRefused(i) \/ SessionSettles(i)
      PROVE  IInv'
  BY <1>4, SessionOpensStep, SessionRefusedStep, SessionSettlesStep
<1>5. ASSUME NEW i \in Pulls, RowShows(i) \/ RowCompletes(i)
      PROVE  IInv'
  BY <1>5, RowStep
<1>6. CASE DropRound
  BY <1>6, DropRoundStep
<1>7. CASE OutcomeArrives
  BY <1>7, OutcomeArrivesStep
<1>8. ASSUME NEW i \in Pulls, DemoDraws(i)
      PROVE  IInv'
  BY <1>8, DemoDrawsStep
<1>9. CASE Advance
  BY <1>9, AdvanceStep
<1>10. CASE Book
  BY <1>10, BookStep
<1>11. CASE BackToIdle
  BY <1>11, BackToIdleStep
<1>12. CASE UNCHANGED vars
  <2>1. /\ UNCHANGED <<machine, demoDue, pulls, chain, doubled>>
        /\ UNCHANGED <<mode, handshake, cabinetId, autoLeft, refusedInQueue, unrendered>>
    BY <1>12 DEF vars, host, histories
  <2>2. /\ cabinetId \in CabinetIds /\ autoLeft \in Int
        /\ refusedInQueue \in BOOLEAN /\ unrendered \in BOOLEAN
        /\ mode = "hosted" => handshake # "pending"
        /\ refusedInQueue /\ autoLeft # Stopped => error \/ doubled
    BY DEF IInv, PageType, DemoFits, OwnSession
  <2> QED BY <2>1, <2>2, RestStays
<1> QED BY <1>1, <1>2, <1>3, <1>4, <1>5, <1>6, <1>7, <1>8, <1>9, <1>10, <1>11, <1>12 DEF Next

\* The inductive invariant holds for every number of pulls, every wager, every set
\* of demo words and every length of the auto queue.
THEOREM PageInvariant == Spec => []IInv
<1>1. Init => IInv
  BY InitInv
<1>2. IInv /\ [Next]_vars => IInv'
  BY StepInv
<1> QED BY <1>1, <1>2, PTL DEF Spec

-----------------------------------------------------------------------------
(* What the player is told.                                                *)

\* The claw comes up with what the chain drew for the session of its own pull, and
\* a session is revealed once, settled and with its line in the history.
THEOREM ClawShowsWhatWasDrawn == Spec => []RevealedAsDrawn
<1>1. IInv => RevealedAsDrawn
  <2> SUFFICES ASSUME IInv PROVE RevealedAsDrawn
    OBVIOUS
  <2>1. DOMAIN booked = 1..Len(booked) /\ DOMAIN reveals = 1..Len(reveals)
    BY DEF IInv, PageType, IsList
  <2>2. ASSUME NEW n \in 1..Len(booked), booked[n].kind = "hosted"
        PROVE  LET line == booked[n]
               IN  /\ doubled \/ (line.session = line.pull
                                    /\ line.cabinetId = gameData[line.session])
                   /\ line.cabinetId = gameData[line.session]
                        /\ settled[line.session] # Cancelled => line.tier = settled[line.session]
    BY <2>2 DEF IInv, Booked, LineFits, Drawn
  <2>3. ASSUME NEW n \in 1..Len(reveals)
        PROVE  /\ \A m \in 1..Len(reveals) : reveals[m] = reveals[n] => m = n
               /\ settled[reveals[n]] # Undefined
               /\ \E k \in 1..Len(booked) : booked[k].session = reveals[n]
    BY DEF IInv, Booked, RevealFits
  <2> QED BY <2>1, <2>2, <2>3 DEF RevealedAsDrawn
<1> QED BY <1>1, PageInvariant, PTL

\* Once a pull was refused while the queue was on, the queue makes no other: its
\* error still shows, whoever made the pull, unless two pulls were made on one
\* rendering.
THEOREM ErrorStopsTheQueue == Spec => QueueStopsOnError
<1>1. IInv /\ [Next]_vars =>
        [autoLeft' = autoLeft - 1 /\ pulls' # pulls => ~refusedInQueue \/ doubled]_vars
  <2> SUFFICES ASSUME IInv, Next, autoLeft' = autoLeft - 1, pulls' # pulls
               PROVE  ~refusedInQueue \/ doubled
    OBVIOUS
  <2>1. autoLeft \in Int /\ autoLeft' # autoLeft
    BY DEF IInv, PageType
  <2>2. AutoFires
    BY <2>1 DEF Next, HandshakeResolves, HandshakeFails, HandshakeTimesOut, HostReadiness,
         ChooseCabinet, Pull, Render, ToggleAuto, AutoStops, SessionOpens, SessionRefused,
         SessionSettles, RowShows, RowCompletes, DropRound, OutcomeArrives, DemoDraws, Advance,
         Book, BackToIdle
  <2>3. autoLeft # Stopped /\ ~error
    BY <2>2 DEF AutoFires, AutoMustStop
  <2> QED BY <2>3 DEF IInv, OwnSession
<1> QED BY <1>1, PageInvariant, PTL DEF Spec, QueueStopsOnError

-----------------------------------------------------------------------------
(* Play money.                                                             *)

\* after is a running balance over the lines.
Running(after, lines) ==
  after = [n \in 0..Len(lines) |->
             IF n = 0 THEN DemoStart ELSE after[n - 1] + DemoGain(lines[n])]

\* There is a running balance over the history, and every one ends in the demo
\* balance.
Balanced(lines, balance) ==
  /\ \E after : Running(after, lines)
  /\ \A after : Running(after, lines) => after[Len(lines)] = balance

Money ==
  /\ demoBalance \in Int
  /\ round.kind = "demo" =>
       round.cabinetId \in CabinetIds /\ round.outcome \in 0..PageTierTop \cup {Undefined}
  /\ Balanced(booked, demoBalance)

\* A line more is a gain more.
LEMMA LineAddsItsGain ==
  ASSUME NEW lines, IsList(lines), NEW balance, Balanced(lines, balance),
         NEW line, NEW longer, IsList(longer), Len(longer) = Len(lines) + 1,
         \A n \in 1..Len(lines) : longer[n] = lines[n],
         longer[Len(longer)] = line
  PROVE  Balanced(longer, balance + DemoGain(line))
<1> DEFINE top == Len(lines)
           gain(n) == DemoGain(longer[n])
<1>1. top \in Nat /\ Len(longer) = top + 1 /\ top + 1 # 0 /\ (top + 1) - 1 = top
  BY DEF IsList
<1>2. \A n \in 1..top : DemoGain(lines[n]) = gain(n)
  OBVIOUS
<1>3. gain(top + 1) = DemoGain(line)
  BY <1>1
<1> HIDE DEF top, gain
<1>4. \A after : Running(after, lines) <=>
        after = [n \in 0..top |-> IF n = 0 THEN DemoStart ELSE after[n - 1] + gain(n)]
  <2>1. \A n \in 0..top : n # 0 => DemoGain(lines[n]) = gain(n)
    <3>1. \A n \in 0..top : n # 0 => n \in 1..top
      BY <1>1
    <3> QED BY <1>2, <3>1
  <2>2. \A after : [n \in 0..top |-> IF n = 0 THEN DemoStart
                                     ELSE after[n - 1] + DemoGain(lines[n])]
                 = [n \in 0..top |-> IF n = 0 THEN DemoStart ELSE after[n - 1] + gain(n)]
    BY <2>1
  <2> QED BY <2>2 DEF Running, top
<1>5. \A after : Running(after, longer) <=>
        after = [n \in 0..(top + 1) |-> IF n = 0 THEN DemoStart ELSE after[n - 1] + gain(n)]
  BY <1>1 DEF Running, gain
<1>6. \E after : Running(after, longer)
  <2>1. PICK f : Running(f, lines)
    BY DEF Balanced
  <2>2. f = [n \in 0..top |-> IF n = 0 THEN DemoStart ELSE f[n - 1] + gain(n)]
    BY <1>4, <2>1
  <2> DEFINE g == [n \in 0..(top + 1) |-> IF n = top + 1 THEN f[top] + gain(top + 1) ELSE f[n]]
  <2>3. g = [n \in 0..(top + 1) |-> IF n = 0 THEN DemoStart ELSE g[n - 1] + gain(n)]
    <3>1. ASSUME NEW n \in 0..(top + 1)
          PROVE  g[n] = IF n = 0 THEN DemoStart ELSE g[n - 1] + gain(n)
      <4>1. CASE n = top + 1
        <5>1. g[n] = f[top] + gain(n) /\ g[top] = f[top] /\ n # 0 /\ n - 1 = top
          BY <1>1, <4>1
        <5> QED BY <5>1
      <4>2. CASE n # top + 1
        <5>1. n \in 0..top /\ g[n] = f[n]
          BY <1>1, <4>2
        <5>2. f[n] = IF n = 0 THEN DemoStart ELSE f[n - 1] + gain(n)
          BY <2>2, <5>1
        <5>3. n # 0 => g[n - 1] = f[n - 1]
          BY <1>1, <5>1
        <5> HIDE DEF g
        <5> QED BY <5>1, <5>2, <5>3
      <4> QED BY <4>1, <4>2
    <3> QED BY <3>1
  <2> HIDE DEF g
  <2> QED BY <1>5, <2>3
<1>7. ASSUME NEW g, Running(g, longer)
      PROVE  g[Len(longer)] = balance + DemoGain(line)
  <2>1. g = [n \in 0..(top + 1) |-> IF n = 0 THEN DemoStart ELSE g[n - 1] + gain(n)]
    BY <1>5, <1>7
  <2> DEFINE f == [n \in 0..top |-> g[n]]
  <2>2. f = [n \in 0..top |-> IF n = 0 THEN DemoStart ELSE f[n - 1] + gain(n)]
    <3>1. ASSUME NEW n \in 0..top
          PROVE  f[n] = IF n = 0 THEN DemoStart ELSE f[n - 1] + gain(n)
      <4>1. n \in 0..(top + 1) /\ f[n] = g[n] /\ (n # 0 => f[n - 1] = g[n - 1])
        BY <1>1
      <4>2. g[n] = IF n = 0 THEN DemoStart ELSE g[n - 1] + gain(n)
        BY <2>1, <4>1
      <4> HIDE DEF f
      <4> QED BY <4>1, <4>2
    <3> QED BY <3>1
  <2>3. f[top] = g[top]
    BY <1>1
  <2> HIDE DEF f
  <2>4. Running(f, lines)
    BY <1>4, <2>2
  <2>5. f[top] = balance
    BY <2>4 DEF Balanced, top
  <2>6. g[top + 1] = g[top] + gain(top + 1)
    BY <1>1, <2>1
  <2> QED BY <1>1, <1>3, <2>3, <2>5, <2>6
<1> QED BY <1>6, <1>7 DEF Balanced

LEMMA InitMoney ==
  Init => Money
<1> SUFFICES ASSUME Init PROVE Money
  OBVIOUS
<1>1. booked = <<>> /\ Len(booked) = 0 /\ demoBalance = DemoStart /\ DemoStart \in Int
  BY PageAssumption DEF Init
<1>2. round.kind # "demo"
  BY NoRoundIs DEF Init
<1>3. Balanced(booked, demoBalance)
  <2>1. Running([n \in 0..0 |-> DemoStart], booked)
    BY <1>1 DEF Running
  <2>2. \A after : Running(after, booked) => after[0] = DemoStart
    BY <1>1 DEF Running
  <2> QED BY <1>1, <2>1, <2>2 DEF Balanced
<1> QED BY <1>1, <1>2, <1>3 DEF Money

LEMMA BookMoney ==
  ASSUME IInv, Money, Book
  PROVE  Money'
<1> DEFINE line == Line(round)
<1>1. /\ round.outcome # Undefined /\ booked' = Append(booked, line)
      /\ demoBalance' = IF round.kind = "hosted" THEN demoBalance
                        ELSE demoBalance - Wager
                               + PayoutFor(Wager, round.cabinetId, round.outcome)
      /\ round' = round \/ round' = [round EXCEPT !.revealed = TRUE]
  BY DEF Book, BookDue
<1>2. IsRound(round) /\ IsList(booked) /\ round.kind \in {"hosted", "demo"}
  BY <1>1, NoRoundIs DEF IInv, PageType, RoundFits
<1>3. /\ line.kind = round.kind /\ line.cabinetId = round.cabinetId
      /\ line.tier = round.outcome
  BY DEF Line
<1>4. demoBalance \in Int /\ Wager \in Nat \ {0}
  BY PageAssumption DEF Money
<1>5. round.kind = "demo" => PayoutFor(Wager, round.cabinetId, round.outcome) \in Nat
  <2>1. round.kind = "demo" => round.cabinetId \in 0..2 /\ round.outcome \in 0..3
    BY <1>1, PageAssumption DEF Money, PageTierTop
  <2> QED BY <1>4, <2>1, HigherTiersPayMore
<1>6. demoBalance' \in Int /\ demoBalance' = demoBalance + DemoGain(line)
  <2>1. CASE round.kind = "hosted"
    BY <1>1, <1>3, <1>4, <2>1 DEF DemoGain
  <2>2. CASE round.kind = "demo"
    <3>1. DemoGain(line) = PayoutFor(Wager, round.cabinetId, round.outcome) - Wager
      BY <1>3, <2>2 DEF DemoGain
    <3>2. demoBalance' = demoBalance - Wager + PayoutFor(Wager, round.cabinetId, round.outcome)
      BY <1>1, <2>2
    <3> QED BY <1>4, <1>5, <2>2, <3>1, <3>2
  <2> QED BY <1>2, <2>1, <2>2
<1> HIDE DEF line
<1>7. Balanced(booked', demoBalance + DemoGain(line))
  <2>1. LET u == booked' IN
          /\ IsList(u) /\ Len(u) = Len(booked) + 1
          /\ \A n \in 1..Len(booked) : u[n] = booked[n]
          /\ u[Len(booked) + 1] = line
    BY <1>1, <1>2, AppendToList
  <2>2. Balanced(booked, demoBalance)
    BY DEF Money
  <2> QED BY <1>2, <2>1, <2>2, LineAddsItsGain
<1>8. /\ round'.kind = round.kind /\ round'.cabinetId = round.cabinetId
      /\ round'.outcome = round.outcome
  <2>1. CASE round' = [round EXCEPT !.revealed = TRUE]
    BY <1>2, <2>1, SetRevealed
  <2> QED BY <1>1, <2>1
<1> QED BY <1>6, <1>7, <1>8 DEF Money

LEMMA StepMoney ==
  IInv /\ Money /\ [Next]_vars => Money'
<1> SUFFICES ASSUME IInv, Money, [Next]_vars PROVE Money'
  OBVIOUS
<1>1. CASE Book
  BY <1>1, BookMoney
<1>2. CASE ~Book
  <2>1. UNCHANGED <<booked, demoBalance>>
    BY <1>2 DEF Next, HandshakeResolves, HandshakeFails, HandshakeTimesOut, HostReadiness,
         ChooseCabinet, Pull, OpenRound, Render, ToggleAuto, AutoStops, AutoFires, SessionOpens,
         SessionRefused, SessionSettles, RowShows, RowCompletes, DropRound, OutcomeArrives,
         DemoDraws, Advance, BackToIdle, vars, machine
  <2>2. round'.kind = "demo" =>
          round'.cabinetId \in CabinetIds /\ round'.outcome \in 0..PageTierTop \cup {Undefined}
    <3>1. CASE round' = round
      BY <3>1 DEF Money
    <3>2. CASE round' = NoRound
      BY <3>2, NoRoundIs
    <3>3. CASE OpenRound
      BY <3>3 DEF OpenRound, IInv, PageType
    <3>4. ASSUME NEW i \in Pulls, SessionOpens(i), round' # NoRound
          PROVE  /\ round'.kind = round.kind /\ round'.cabinetId = round.cabinetId
                 /\ round'.outcome = round.outcome
      <4>1. round' = [round EXCEPT !.sessionKey = i] /\ IsRound(round)
        BY <3>4 DEF SessionOpens, IInv, PageType
      <4> QED BY <4>1, SetKey
    <3>5. ASSUME OutcomeArrives
          PROVE  round'.kind = "hosted"
      <4>1. round.kind = "hosted" /\ IsRound(round)
        BY <3>5 DEF OutcomeArrives, AwaitsOutcome, IInv, PageType
      <4> QED BY <3>5, <4>1 DEF OutcomeArrives, IsRound, RoundFields, NoRound
    <3>6. ASSUME NEW i \in Pulls, DemoDraws(i), round' # NoRound, round'.kind = "demo"
          PROVE  round'.cabinetId \in CabinetIds /\ round'.outcome \in 0..PageTierTop
      <4>1. PICK word \in DemoWords :
              round' = [round EXCEPT !.outcome = PlayDemoRound(round.cabinetId, word)]
        BY <3>6 DEF DemoDraws
      <4>2. IsRound(round)
        BY DEF IInv, PageType
      <4>3. /\ round'.kind = round.kind /\ round'.cabinetId = round.cabinetId
            /\ round'.outcome = PlayDemoRound(round.cabinetId, word)
        BY <4>1, <4>2, SetOutcome
      <4> QED BY <3>6, <4>3, DemoAssumption DEF Money
    <3>7. ASSUME NEW s, round' = [round EXCEPT !.status = s]
          PROVE  /\ round'.kind = round.kind /\ round'.cabinetId = round.cabinetId
                 /\ round'.outcome = round.outcome
      <4>1. IsRound(round)
        BY DEF IInv, PageType
      <4> QED BY <3>7, <4>1, SetStatus
    <3>8. CASE Advance \/ BackToIdle
      BY <3>7, <3>8 DEF Advance, BackToIdle, Money
    <3>9. \/ round' = round \/ round' = NoRound \/ OpenRound
          \/ \E i \in Pulls : SessionOpens(i)
          \/ OutcomeArrives
          \/ \E i \in Pulls : DemoDraws(i)
          \/ Advance \/ BackToIdle
      BY <1>2 DEF Next, HandshakeResolves, HandshakeFails, HandshakeTimesOut, HostReadiness,
           ChooseCabinet, Pull, Render, ToggleAuto, AutoStops, AutoFires, SessionRefused,
           SessionSettles, RowShows, RowCompletes, DropRound, vars, machine
    <3> QED BY <3>1, <3>2, <3>3, <3>4, <3>5, <3>6, <3>8, <3>9 DEF Money
  <2> QED BY <2>1, <2>2 DEF Money
<1> QED BY <1>1, <1>2

\* The demo balance is what the lines of the history say, and no pull has two.
THEOREM DemoMoneyIsKept == Spec => []DemoMoneyAddsUp
<1>1. IInv /\ Money => DemoMoneyAddsUp
  <2> SUFFICES ASSUME IInv, Money PROVE DemoMoneyAddsUp
    OBVIOUS
  <2> DEFINE top == Len(booked)
             sum == DemoBalanceAfter
  <2>1. \E after : Running(after, booked)
    BY DEF Money, Balanced
  <2>2. sum = CHOOSE after : Running(after, booked)
    BY DEF DemoBalanceAfter, Running
  <2> HIDE DEF sum
  <2>3. Running(sum, booked)
    BY <2>1, <2>2
  <2>4. sum[Len(booked)] = demoBalance
    BY <2>3 DEF Money, Balanced
  <2>5. DOMAIN booked = 1..Len(booked)
    BY DEF IInv, PageType, IsList
  <2>6. \A m, n \in 1..Len(booked) : booked[m].pull = booked[n].pull => m = n
    BY DEF IInv, Booked
  <2> QED BY <2>4, <2>5, <2>6 DEF DemoMoneyAddsUp, sum
<1> QED BY <1>1, InitMoney, StepMoney, PageInvariant, PTL DEF Spec

-----------------------------------------------------------------------------
(* What the machine shows.                                                 *)

\* The round as the machine plays it: on the cabinet that is shown while it moves, but
\* for a tab that was chosen before the page had rendered the pull; with an outcome once the claw has closed, and booked before it is over.
Played ==
  /\ round.status \in RoundStatus
  /\ round.kind # "none" =>
       round.cabinetId \in CabinetIds /\ round.outcome \in 0..PageTierTop \cup {Undefined}
  /\ InFlight /\ ~strayed => cabinetId = round.cabinetId
  /\ round.status = "dumping" => ~IsSlip(round.cabinetId, round.outcome)
  /\ round.kind # "none" /\ round.status \notin Waiting => round.outcome # Undefined
  /\ round.kind # "none" /\ round.status = "idle" => settledRef = round.pull
  /\ settledRef \in 0..pulls
  /\ round.kind # "none" /\ settledRef = round.pull =>
       /\ round.status \in {"settled", "idle"}
       /\ Len(booked) # 0 /\ booked[Len(booked)] = Line(round)

\* The payout that the page took is its session's.
Paid ==
  ~doubled /\ round.kind = "hosted" /\ round.outcome # Undefined =>
    round.payout = RowPayout(round.sessionId)

LinesOf(charm) ==
  {n \in 1..Len(booked) : booked[n].cabinetId = charm[1] /\ booked[n].tier = charm[2]}

Shelved ==
  /\ collection \in [Charms -> Nat]
  /\ \A charm \in Charms :
       collection[charm] = StoredShelf[charm] + Cardinality(LinesOf(charm))

Seen == Played /\ Paid /\ Shelved

\* The slip is the lowest tier of every cabinet, and only that.
LEMMA EveryCabinetSlipsAlike ==
  ASSUME NEW b \in CabinetIds, NEW c \in CabinetIds, NEW t \in 0..PageTierTop
  PROVE  IsSlip(b, t) <=> IsSlip(c, t)
<1>1. b \in 0..2 /\ c \in 0..2 /\ t \in 0..3
  BY PageAssumption DEF PageTierTop
<1>2. \A k \in 0..2, r \in 0..3 : IsSlip(k, r) <=> r = 0
  BY MultipliersAre DEF IsSlip
<1> QED BY <1>1, <1>2

\* What a step may do to the round, and what it then leaves alone.
LEMMA RoundCases ==
  ASSUME IInv, [Next]_vars
  PROVE  \/ Book
         \/ /\ UNCHANGED <<booked, collection, settledRef>>
            /\ \/ OpenRound /\ cabinetId' = cabinetId
               \/ /\ pulls' = pulls
                  /\ \/ /\ round' = round
                        /\ \/ UNCHANGED <<cabinetId, strayed>>
                           \/ strayed' \/ round.status \notin BusyStatus
                     \/ /\ UNCHANGED <<cabinetId, strayed>>
                        /\ \/ round' = NoRound
                           \/ \E i : round' = [round EXCEPT !.sessionKey = i]
                           \/ OutcomeArrives
                           \/ \E i \in Pulls : DemoDraws(i)
                           \/ Advance \/ BackToIdle
<1>1. CASE \/ HandshakeResolves \/ HandshakeFails \/ HandshakeTimesOut \/ HostReadiness
           \/ Render \/ ToggleAuto \/ AutoStops
  BY <1>1 DEF HandshakeResolves, HandshakeFails, HandshakeTimesOut, HostReadiness, Render,
       ToggleAuto, AutoStops, machine, histories
<1>2. ASSUME NEW c \in CabinetIds, ChooseCabinet(c)
      PROVE  /\ UNCHANGED <<booked, collection, settledRef>> /\ pulls' = pulls
             /\ round' = round /\ (strayed' \/ round.status \notin BusyStatus)
  BY <1>2 DEF ChooseCabinet, Busy, machine
<1>3. CASE Pull \/ AutoFires
  BY <1>3 DEF Pull, AutoFires, OpenRound
<1>4. ASSUME NEW i \in Pulls, SessionOpens(i) \/ SessionRefused(i) \/ SessionSettles(i)
      PROVE  /\ UNCHANGED <<booked, collection, settledRef>> /\ pulls' = pulls
             /\ UNCHANGED <<cabinetId, strayed>>
             /\ \/ round' = round \/ round' = NoRound
                \/ \E k : round' = [round EXCEPT !.sessionKey = k]
  BY <1>4 DEF SessionOpens, SessionRefused, SessionSettles, machine, histories
<1>5. ASSUME NEW i \in Pulls, RowShows(i) \/ RowCompletes(i)
      PROVE  /\ UNCHANGED <<booked, collection, settledRef>> /\ pulls' = pulls
             /\ UNCHANGED <<cabinetId, strayed>> /\ round' = round
  BY <1>5 DEF RowShows, RowCompletes, machine, histories
<1>6. CASE DropRound \/ OutcomeArrives
  BY <1>6 DEF DropRound, OutcomeArrives, histories
<1>7. ASSUME NEW i \in Pulls, DemoDraws(i)
      PROVE  /\ UNCHANGED <<booked, collection, settledRef>> /\ pulls' = pulls
             /\ UNCHANGED <<cabinetId, strayed>>
  BY <1>7 DEF DemoDraws, histories
<1>8. CASE Advance \/ BackToIdle
  BY <1>8 DEF Advance, BackToIdle, histories
<1>9. CASE UNCHANGED vars
  BY <1>9 DEF vars, machine, histories
<1> QED BY <1>1, <1>2, <1>3, <1>4, <1>5, <1>6, <1>7, <1>8, <1>9 DEF Next

\* A step that leaves the line of the round alone, and its status, or takes that on.
LEMMA PlayedOn ==
  ASSUME Played, UNCHANGED <<booked, settledRef, cabinetId, strayed, pulls>>,
         round'.pull = round.pull, round'.kind = round.kind,
         round'.cabinetId = round.cabinetId,
         \/ round'.sessionId = round.sessionId /\ round'.outcome = round.outcome
         \/ /\ round.status \in Waiting \cup {"gripping"} /\ round'.status = round.status
            /\ round'.outcome \in 0..PageTierTop /\ round'.outcome # Undefined,
         \/ round'.status = round.status
         \/ /\ round'.status \in RoundStatus
            /\ settledRef # round.pull
            /\ round.status \notin {"idle", "settled"}
            /\ round'.status # "idle"
            /\ round'.status = "dumping" => ~IsSlip(round.cabinetId, round'.outcome)
            /\ round'.status \notin Waiting => round'.outcome # Undefined
         \/ /\ round.status = "settled" /\ round'.status = "idle"
            /\ settledRef = round.pull
  PROVE  Played'
<1>1. Line(round') = Line(round) \/ settledRef # round.pull \/ round.kind = "none"
  BY DEF Line, Played, Waiting
<1>2. Line(round)' = Line(round')
  BY DEF Line
<1>3. round'.status \in RoundStatus
  BY DEF Played, RoundStatus
<1>4. InFlight' /\ ~strayed' => cabinetId' = round'.cabinetId
  BY DEF Played, InFlight
<1>5. round'.status = "dumping" => ~IsSlip(round'.cabinetId, round'.outcome)
  BY DEF Played, Waiting
<1>6. round'.kind # "none" /\ round'.status \notin Waiting => round'.outcome # Undefined
  BY DEF Played, Waiting
<1>7. round'.kind # "none" /\ round'.status = "idle" => settledRef' = round'.pull
  BY DEF Played
<1>8. round'.kind # "none" /\ settledRef = round'.pull =>
        /\ round'.status \in {"settled", "idle"}
        /\ Len(booked) # 0 /\ booked[Len(booked)] = Line(round')
  BY <1>1 DEF Played
<1>9. round'.kind # "none" =>
        round'.cabinetId \in CabinetIds /\ round'.outcome \in 0..PageTierTop \cup {Undefined}
  BY DEF Played
<1> QED BY <1>2, <1>3, <1>4, <1>5, <1>6, <1>7, <1>8, <1>9 DEF Played

LEMMA PlayedStep ==
  ASSUME IInv, Seen, [Next]_vars
  PROVE  Played'
<1>0. IsRound(round) /\ Played /\ IsList(booked) /\ cabinetId \in CabinetIds
  BY DEF Seen, IInv, PageType
<1>1. CASE Book
  <2>1. /\ settledRef' = round.pull /\ booked' = Append(booked, Line(round))
        /\ round.status = "settled" /\ round.outcome # Undefined
        /\ UNCHANGED <<cabinetId, strayed, pulls>>
        /\ round' = round \/ round' = [round EXCEPT !.revealed = TRUE]
    BY <1>1 DEF Book, BookDue, histories
  <2>2. /\ round'.pull = round.pull /\ round'.kind = round.kind
        /\ round'.cabinetId = round.cabinetId /\ round'.status = round.status
        /\ round'.sessionId = round.sessionId /\ round'.outcome = round.outcome
    <3>1. CASE round' = [round EXCEPT !.revealed = TRUE]
      BY <1>0, <3>1, SetRevealed
    <3> QED BY <2>1, <3>1
  <2>3. LET u == booked' IN Len(u) # 0 /\ u[Len(u)] = Line(round)
    <3>1. LET u == Append(booked, Line(round)) IN Len(u) = Len(booked) + 1 /\ u[Len(booked) + 1] = Line(round)
      BY <1>0, AppendToList
    <3>2. Len(booked) \in Nat
      BY <1>0 DEF IsList
    <3> QED BY <2>1, <3>1, <3>2
  <2>4. Line(round)' = Line(round)
    BY <2>2 DEF Line
  <2>5. round.kind # "none" /\ round.pull \in 1..pulls /\ pulls \in Nat
    BY <2>1, NoRoundIs, PageAssumption DEF IInv, RoundFits, PageType
  <2> QED BY <1>0, <2>1, <2>2, <2>3, <2>4, <2>5 DEF Played, InFlight, Waiting, RoundStatus
<1>2. CASE UNCHANGED <<booked, settledRef>> /\ OpenRound /\ cabinetId' = cabinetId
  <2>1. /\ round'.pull = pulls + 1 /\ round'.status = "positioning"
        /\ round'.cabinetId = cabinetId /\ pulls' = pulls + 1 /\ pulls \in Nat
        /\ round'.outcome = Undefined
    BY <1>2, PageAssumption DEF OpenRound, IInv, PageType
  <2>2. settledRef \in 0..pulls
    BY <1>0 DEF Played
  <2> QED BY <1>0, <1>2, <2>1, <2>2 DEF Played, InFlight, Waiting, RoundStatus
<1>3. CASE /\ UNCHANGED <<booked, settledRef, pulls, round>>
           /\ \/ UNCHANGED <<cabinetId, strayed>>
              \/ strayed' \/ round.status \notin BusyStatus
  <2>1. InFlight => round.status \in BusyStatus
    BY <1>0 DEF Played, InFlight, BusyStatus
  <2> QED BY <1>0, <1>3, <2>1 DEF Played, InFlight, Line
<1>4. CASE UNCHANGED <<booked, settledRef, pulls, cabinetId, strayed>> /\ round' = NoRound
  BY <1>0, <1>4, NoRoundIs DEF Played, InFlight, RoundStatus
<1>5. ASSUME UNCHANGED <<booked, settledRef, pulls, cabinetId, strayed>>,
             NEW i, round' = [round EXCEPT !.sessionKey = i]
      PROVE  Played'
  BY <1>0, <1>5, SetKey, PlayedOn
<1>6. CASE UNCHANGED <<booked, settledRef, pulls, cabinetId, strayed>> /\ OutcomeArrives
  <2>1. /\ round.kind = "hosted" /\ round.outcome = Undefined /\ round.sessionKey # 0
        /\ rows[round.sessionKey] # Open /\ ~Abnormal(round.sessionKey)
    BY <1>6 DEF OutcomeArrives, AwaitsOutcome
  <2>2. round.sessionKey \in Pulls
    BY <2>1 DEF IInv, RoundFits
  <2>3. PICK tier \in RowOutcomes(round.sessionKey) : \E paid, k :
          round' = [round EXCEPT !.outcome = tier, !.sessionId = k, !.payout = paid]
    BY <1>6 DEF OutcomeArrives
  <2>4. tier \in 0..PageTierTop /\ tier # Undefined
    BY <2>1, <2>2, RowTells
  <2>5. /\ round'.outcome = tier /\ round'.pull = round.pull /\ round'.kind = round.kind
        /\ round'.cabinetId = round.cabinetId /\ round'.status = round.status
    BY <1>0, <2>3 DEF IsRound, RoundFields, NoRound
  <2>6. round.status \in Waiting
    BY <2>1 DEF IInv, RoundFits
  <2> QED BY <1>0, <1>6, <2>4, <2>5, <2>6, PlayedOn
<1>7. ASSUME UNCHANGED <<booked, settledRef, pulls, cabinetId, strayed>>,
             NEW i \in Pulls, DemoDraws(i)
      PROVE  Played'
  <2>1. round.kind = "demo" /\ round.status \in Waiting \cup {"gripping"}
    BY <1>7 DEF DemoDraws, IInv, DemoFits
  <2>2. PICK word \in DemoWords :
          round' = [round EXCEPT !.outcome = PlayDemoRound(round.cabinetId, word)]
    BY <1>7, <2>1, NoRoundIs DEF DemoDraws
  <2>3. /\ round'.pull = round.pull /\ round'.kind = round.kind
        /\ round'.cabinetId = round.cabinetId /\ round'.status = round.status
        /\ round'.outcome = PlayDemoRound(round.cabinetId, word)
    BY <1>0, <2>2, SetOutcome
  <2>4. round.cabinetId \in CabinetIds
    BY <1>0, <2>1 DEF Played
  <2>5. round'.outcome \in 0..PageTierTop /\ round'.outcome # Undefined
    BY <2>3, <2>4, DemoAssumption DEF PageTierTop, Undefined
  <2> QED BY <1>0, <1>7, <2>1, <2>3, <2>5, PlayedOn
<1>8. CASE UNCHANGED <<booked, settledRef, pulls, cabinetId, strayed>> /\ Advance
  <2>1. round' = [round EXCEPT !.status = NextStatus(round)] /\ NextStatus(round) # round.status
    BY <1>8 DEF Advance
  <2>2. /\ round'.status = NextStatus(round)
        /\ round'.pull = round.pull /\ round'.kind = round.kind
        /\ round'.cabinetId = round.cabinetId /\ round'.sessionId = round.sessionId
        /\ round'.outcome = round.outcome
    BY <1>0, <2>1, SetStatus
  <2>3. /\ round.status = "positioning" => NextStatus(round) = "descending"
        /\ round.status = "descending" => NextStatus(round) = "gripping-wait"
        /\ round.status = "gripping-wait" /\ round.outcome # Undefined =>
             NextStatus(round) = "gripping"
        /\ round.status = "gripping-wait" /\ round.outcome = Undefined =>
             NextStatus(round) = round.status
        /\ round.status = "gripping" => NextStatus(round) = "lifting"
        /\ round.status = "lifting" =>
             NextStatus(round) = IF round.outcome # Undefined /\ IsSlip(cabinetId, round.outcome)
                                 THEN "settled" ELSE "dumping"
        /\ round.status = "dumping" => NextStatus(round) = "settled"
        /\ round.status \in {"idle", "settled"} => NextStatus(round) = round.status
    BY DEF NextStatus
  <2>4. round.status \in BusyStatus /\ round.kind # "none"
    BY <1>0, <2>1, <2>3, NoRoundIs DEF Played, BusyStatus, IInv, RoundFits
  <2>5. settledRef # round.pull
    BY <1>0, <2>4 DEF Played, BusyStatus
  <2>6. /\ round.status \notin Waiting => round.outcome # Undefined
        /\ round.outcome # Undefined =>
             (IsSlip(cabinetId, round.outcome) <=> IsSlip(round.cabinetId, round.outcome))
    BY <1>0, <2>4, EveryCabinetSlipsAlike DEF Played
  <2>7. /\ round'.status \in RoundStatus /\ round'.status # "idle"
        /\ round'.status = "dumping" => ~IsSlip(round.cabinetId, round'.outcome)
        /\ round'.status \notin Waiting => round'.outcome # Undefined
    BY <2>1, <2>2, <2>3, <2>4, <2>5, <2>6 DEF RoundStatus, BusyStatus, Waiting
  <2> QED BY <1>0, <1>8, <2>2, <2>4, <2>5, <2>7, PlayedOn DEF BusyStatus
<1>9. CASE UNCHANGED <<booked, settledRef, pulls, cabinetId, strayed>> /\ BackToIdle
  <2>1. /\ round' = [round EXCEPT !.status = "idle"] /\ round.status = "settled"
        /\ settledRef = round.pull
    BY <1>9 DEF BackToIdle, NotBooked
  <2>2. /\ round'.status = "idle"
        /\ round'.pull = round.pull /\ round'.kind = round.kind
        /\ round'.cabinetId = round.cabinetId /\ round'.sessionId = round.sessionId
        /\ round'.outcome = round.outcome
    BY <1>0, <2>1, SetStatus
  <2> QED BY <1>0, <1>9, <2>1, <2>2, PlayedOn
<1> QED BY <1>1, <1>2, <1>3, <1>4, <1>5, <1>6, <1>7, <1>8, <1>9, RoundCases

\* A session that ended pays what it paid.
LEMMA PayoutStays ==
  ASSUME IInv, [Next]_vars
  PROVE  /\ doubled => doubled'
         /\ \A i \in Pulls : settled[i] # Undefined /\ calls[i] = "opened" =>
              settled'[i] = settled[i] /\ gameData'[i] = gameData[i]
<1>1. CASE UNCHANGED <<settled, gameData, doubled>>
  BY <1>1
<1>2. CASE Pull \/ AutoFires
  <2>1. /\ settled' = settled
        /\ gameData' = gameData \/ gameData' = [gameData EXCEPT ![pulls + 1] = cabinetId]
    BY <1>2 DEF Pull, AutoFires, OpenRound
  <2>5. doubled => doubled'
    BY <1>2, Zenon DEF Pull, AutoFires, histories
  <2>2. \A i \in Pulls : calls[i] = "opened" => i <= pulls
    BY DEF IInv, ChainFits
  <2>3. pulls \in Nat /\ gameData \in [Pulls -> CabinetIds]
    BY PageAssumption DEF IInv, PageType
  <2>4. \A i \in Pulls : calls[i] = "opened" => i # pulls + 1
    BY <2>2, <2>3 DEF Pulls
  <2> QED BY <2>1, <2>3, <2>4, <2>5
<1>3. ASSUME NEW i \in Pulls, SessionSettles(i)
      PROVE  /\ doubled' = doubled /\ gameData' = gameData
             /\ \A k \in Pulls : settled[k] # Undefined => settled'[k] = settled[k]
  BY <1>3 DEF SessionSettles, histories, IInv, PageType
<1>4. ASSUME NEW i \in Pulls, SessionOpens(i) \/ SessionRefused(i)
      PROVE  UNCHANGED <<settled, gameData, doubled>>
  BY <1>4 DEF SessionOpens, SessionRefused, histories
<1>5. ASSUME NEW i \in Pulls, RowShows(i) \/ RowCompletes(i) \/ DemoDraws(i)
      PROVE  UNCHANGED <<settled, gameData, doubled>>
  BY <1>5 DEF RowShows, RowCompletes, DemoDraws, histories, chain
<1>6. ASSUME NEW c \in CabinetIds, ChooseCabinet(c)
      PROVE  UNCHANGED <<settled, gameData, doubled>>
  BY <1>6 DEF ChooseCabinet, histories, chain
<1>7. CASE \/ HandshakeResolves \/ HandshakeFails \/ HandshakeTimesOut \/ HostReadiness
           \/ Render \/ ToggleAuto \/ AutoStops \/ DropRound \/ OutcomeArrives \/ Advance
           \/ Book \/ BackToIdle \/ UNCHANGED vars
  BY <1>1, <1>7 DEF HandshakeResolves, HandshakeFails, HandshakeTimesOut, HostReadiness, Render,
       ToggleAuto, AutoStops, DropRound, OutcomeArrives, Advance, Book, BackToIdle, histories,
       chain, vars
<1> QED BY <1>1, <1>2, <1>3, <1>4, <1>5, <1>6, <1>7 DEF Next

\* The payout a row may tell: its own, or what the tier that it tells is worth on the
\* round's cabinet, which is the session's.
LEMMA RowTellsThePayout ==
  ASSUME IInv, NEW i \in Pulls, rows[i] # Open, NEW tier \in RowOutcomes(i),
         "payout" \notin rows[i], round.cabinetId = gameData[i]
  PROVE  PayoutFor(Wager, round.cabinetId, tier) = RowPayout(i)
<1>1. rows[i] \subseteq FullRow(i)
  BY DEF IInv, ChainFits
<1>2. settled[i] # Cancelled /\ tier = settled[i]
  <2>1. CASE "gameState" \in rows[i] /\ settled[i] # Cancelled
    BY <2>1 DEF RowOutcomes
  <2>2. CASE ~("gameState" \in rows[i] /\ settled[i] # Cancelled)
    <3>1. "randomness" \in rows[i] /\ tier \in {settled[i]}
      BY <2>2 DEF RowOutcomes
    <3>2. settled[i] # Cancelled
      BY <1>1, <3>1 DEF FullRow, RowFields
    <3> QED BY <3>1, <3>2
  <2> QED BY <2>1, <2>2
<1> QED BY <1>2 DEF RowPayout

LEMMA PaidStep ==
  ASSUME IInv, Seen, [Next]_vars
  PROVE  Paid'
<1> SUFFICES ASSUME ~doubled', round'.kind = "hosted", round'.outcome # Undefined
             PROVE  round'.payout = RowPayout(round.sessionId)'
  BY DEF Paid
<1>0. IsRound(round) /\ Paid /\ ~doubled
  BY PayoutStays DEF Seen, IInv, PageType
<1>1. CASE /\ round'.kind = round.kind /\ round'.outcome = round.outcome
           /\ round'.sessionId = round.sessionId /\ round'.payout = round.payout
  <2>1. /\ round.kind = "hosted" /\ round.outcome # Undefined
        /\ round.payout = RowPayout(round.sessionId)
    BY <1>0, <1>1 DEF Paid
  <2>2. /\ round.sessionId \in Pulls /\ calls[round.sessionId] = "opened"
        /\ settled[round.sessionId] # Undefined
    BY <2>1 DEF IInv, RoundFits, Drawn
  <2>3. settled'[round.sessionId] = settled[round.sessionId]
          /\ gameData'[round.sessionId] = gameData[round.sessionId]
    BY <2>2, PayoutStays
  <2> QED BY <1>1, <2>1, <2>3 DEF RowPayout
<1>2. CASE OutcomeArrives
  <2> DEFINE i == round.sessionKey
  <2>1. /\ round.kind = "hosted" /\ round.outcome = Undefined /\ i # 0 /\ rows[i] # Open
        /\ UNCHANGED <<settled, gameData>>
    BY <1>2 DEF OutcomeArrives, AwaitsOutcome, chain
  <2>2. PICK tier \in RowOutcomes(i) :
          round' = [round EXCEPT
             !.outcome = tier, !.sessionId = i,
             !.payout = IF "payout" \in rows[i] THEN RowPayout(i)
                        ELSE PayoutFor(Wager, round.cabinetId, tier)]
    BY <1>2 DEF OutcomeArrives
  <2>3. /\ i \in Pulls /\ i = round.pull /\ gameData[i] = round.cabinetId
    BY <1>0, <2>1 DEF IInv, RoundFits, OwnSession
  <2>4. "payout" \in rows[i] \/ PayoutFor(Wager, round.cabinetId, tier) = RowPayout(i)
    BY <2>1, <2>3, RowTellsThePayout
  <2>5. PICK paid, k : /\ k = i /\ paid = RowPayout(i)
                       /\ round' = [round EXCEPT !.outcome = tier, !.sessionId = k, !.payout = paid]
    BY <2>2, <2>4
  <2>6. round'.sessionId = k /\ round'.payout = paid
    BY <1>0, <2>5 DEF IsRound, RoundFields, NoRound
  <2>7. RowPayout(k)' = RowPayout(k)
    BY <2>1 DEF RowPayout
  <2> QED BY <2>5, <2>6, <2>7
<1>3. CASE round' = NoRound
  BY <1>3, NoRoundIs
<1>4. CASE OpenRound
  BY <1>4 DEF OpenRound
<1>5. ASSUME NEW i \in Pulls, DemoDraws(i) PROVE FALSE
  <2>1. round.kind = "demo"
    BY <1>5 DEF DemoDraws, IInv, DemoFits
  <2>2. PICK v : round' = [round EXCEPT !.outcome = v]
    BY <1>5, <2>1, NoRoundIs DEF DemoDraws
  <2> QED BY <1>0, <2>1, <2>2, SetOutcome
<1>6. ASSUME NEW k, round' = [round EXCEPT !.sessionKey = k] PROVE round'.payout = RowPayout(round.sessionId)'
  BY <1>0, <1>1, <1>6 DEF IsRound, RoundFields, NoRound
<1>7. ASSUME NEW s, round' = [round EXCEPT !.status = s] PROVE round'.payout = RowPayout(round.sessionId)'
  BY <1>0, <1>1, <1>7 DEF IsRound, RoundFields, NoRound
<1>8. CASE Book
  <2>1. round' = round \/ round' = [round EXCEPT !.revealed = TRUE]
    BY <1>8 DEF Book
  <2> QED BY <1>0, <1>1, <2>1 DEF IsRound, RoundFields, NoRound
<1>9. CASE round' = round
  BY <1>1, <1>9
<1>10. CASE Advance \/ BackToIdle
  BY <1>7, <1>10 DEF Advance, BackToIdle
<1> QED BY <1>2, <1>3, <1>4, <1>5, <1>6, <1>8, <1>9, <1>10, RoundCases

-----------------------------------------------------------------------------
(* The shelf.                                                              *)

LEMMA ShelvedStep ==
  ASSUME IInv, Seen, [Next]_vars
  PROVE  Shelved'
<1>0. IsList(booked) /\ Shelved /\ Len(booked) \in Nat
  BY DEF Seen, IInv, PageType, IsList
<1>1. CASE UNCHANGED <<booked, collection>>
  BY <1>0, <1>1 DEF Shelved, LinesOf
<1>2. CASE Book
  <2> DEFINE line == Line(round)
             L == Len(booked)
             mark == <<round.cabinetId, round.outcome>>
  <2>1. /\ booked' = Append(booked, line)
        /\ collection' = IF IsSlip(round.cabinetId, round.outcome) THEN collection
                         ELSE [collection EXCEPT ![mark] = @ + 1]
    BY <1>2 DEF Book
  <2>2. line.cabinetId = round.cabinetId /\ line.tier = round.outcome
    BY DEF Line
  <2> HIDE DEF line
  <2>3. LET u == booked' IN
          /\ Len(u) = L + 1 /\ u[L + 1] = line
          /\ \A n \in 1..L : u[n] = booked[n]
    BY <1>0, <2>1, AppendToList
  <2>4. collection' \in [Charms -> Nat]
    <3>1. collection \in [Charms -> Nat]
      BY <1>0 DEF Shelved
    <3> HIDE DEF mark
    <3>2. [collection EXCEPT ![mark] = @ + 1] \in [Charms -> Nat]
      <4>1. CASE mark \in Charms
        <5>1. collection[mark] + 1 \in Nat
          BY <3>1, <4>1
        <5> QED BY <3>1, <5>1, Zenon
      <4>2. CASE mark \notin Charms
        BY <3>1, <4>2, Zenon
      <4> QED BY <4>1, <4>2
    <3> QED BY <2>1, <3>1, <3>2
  <2>5. ASSUME NEW charm \in Charms
        PROVE  collection'[charm] = StoredShelf[charm] + Cardinality(LinesOf(charm))'
    <3>1. PICK c \in CabinetIds, t \in 1..PageTierTop : charm = <<c, t>>
      BY DEF Charms
    <3>2. charm[1] = c /\ charm[2] = t
      BY <3>1
    <3>3. PICK lines : lines = LinesOf(charm)'
      OBVIOUS
    <3>4. lines = {n \in 1..(L + 1) :
                     IF n = L + 1 THEN round.cabinetId = c /\ round.outcome = t
                     ELSE n \in LinesOf(charm)}
      <4>1. lines = {n \in 1..Len(booked') :
                       booked'[n].cabinetId = charm[1] /\ booked'[n].tier = charm[2]}
        BY <3>3 DEF LinesOf
      <4>2. \A n \in 1..L : n \in LinesOf(charm) <=>
                              booked[n].cabinetId = charm[1] /\ booked[n].tier = charm[2]
        BY DEF LinesOf
      <4>3. \A n \in 1..(L + 1) : n = L + 1 \/ n \in 1..L
        BY <1>0
      <4> QED BY <2>2, <2>3, <3>2, <4>1, <4>2, <4>3
    <3>5. LinesOf(charm) \subseteq 1..L /\ IsFiniteSet(LinesOf(charm)) /\ L + 1 \notin LinesOf(charm)
      <4>1. LinesOf(charm) \subseteq 1..L
        BY DEF LinesOf
      <4>2. IsFiniteSet(1..L)
        BY <1>0, FS_Interval
      <4> QED BY <1>0, <4>1, <4>2, FS_Subset
    <3>6. /\ collection[charm] = StoredShelf[charm] + Cardinality(LinesOf(charm))
          /\ StoredShelf[charm] \in Nat /\ Cardinality(LinesOf(charm)) \in Nat
      BY <1>0, <3>5, ShelfAssumption, FS_CardinalityType DEF Shelved
    <3>7. CASE round.cabinetId = c /\ round.outcome = t
      <4>1. lines = LinesOf(charm) \cup {L + 1}
        BY <1>0, <3>4, <3>5, <3>7
      <4>2. Cardinality(lines) = Cardinality(LinesOf(charm)) + 1
        BY <3>5, <4>1, FS_AddElement
      <4>3. ~IsSlip(round.cabinetId, round.outcome)
        <5>1. c \in 0..2 /\ t \in 1..3
          BY PageAssumption DEF PageTierTop
        <5>2. MultiplierOf(c, t) # 0
          BY <5>1, MultipliersAre
        <5> QED BY <3>7, <5>2 DEF IsSlip
      <4>4. collection'[charm] = collection[charm] + 1
        BY <1>0, <2>1, <3>1, <3>7, <4>3 DEF Shelved
      <4> QED BY <3>3, <3>6, <4>2, <4>4
    <3>8. CASE ~(round.cabinetId = c /\ round.outcome = t)
      <4>1. lines = LinesOf(charm)
        BY <1>0, <3>4, <3>5, <3>8
      <4>2. mark # charm
        BY <3>1, <3>8
      <4>3. collection'[charm] = collection[charm]
        BY <1>0, <2>1, <4>2 DEF Shelved
      <4> QED BY <3>3, <3>6, <4>1, <4>3
    <3> QED BY <3>7, <3>8
  <2> QED BY <2>4, <2>5 DEF Shelved
<1> QED BY <1>1, <1>2, RoundCases

LEMMA InitSeen ==
  Init => Seen
<1> SUFFICES ASSUME Init PROVE Seen
  OBVIOUS
<1>1. Played
  BY NoRoundIs DEF Init, Played, InFlight, RoundStatus
<1>2. Paid
  BY NoRoundIs DEF Init, Paid
<1>3. Shelved
  <2>1. collection = StoredShelf
    BY DEF Init
  <2>2. \A charm : LinesOf(charm) = {}
    BY DEF Init, LinesOf
  <2> QED BY <2>1, <2>2, FS_EmptySet, ShelfAssumption DEF Shelved
<1> QED BY <1>1, <1>2, <1>3 DEF Seen

\* What the page shows follows from an invariant of its own, over the page's.
LEMMA SeenInvariant == Spec => []Seen
<1>1. IInv /\ Seen /\ [Next]_vars => Seen'
  BY PlayedStep, PaidStep, ShelvedStep DEF Seen
<1> QED BY <1>1, InitSeen, PageInvariant, PTL DEF Spec

\* While the claw moves, the machine shows the cabinet of the round, unless the player
\* chose another tab before the page had rendered the auto pull; and even then it carries
\* a capsule to the chute only for a tier that pays on the round's own cabinet.
THEOREM ClawPlaysItsRound == Spec => []ClawPlaysTheRound
<1>1. IInv /\ Seen => ClawPlaysTheRound
  <2> SUFFICES ASSUME IInv, Seen PROVE ClawPlaysTheRound
    OBVIOUS
  <2>1. Played
    BY DEF Seen
  <2>2. round.status = "dumping" => round.outcome # Undefined /\ ~IsSlip(round.cabinetId, round.outcome)
    BY <2>1, NoRoundIs DEF Played, Waiting, IInv, RoundFits
  <2>3. round # NoRound /\ ~InFlight => round.outcome # Undefined
    BY <2>1 DEF Played, InFlight, Waiting, IInv, RoundFits
  <2>4. Scene.overChute <=> round.status = "dumping"
    BY DEF Scene
  <2> QED BY <2>1, <2>2, <2>3, <2>4 DEF ClawPlaysTheRound, Played
<1> QED BY <1>1, SeenInvariant, PageInvariant, PTL

\* Banner, plate and history tell one story of a round once it is booked.
THEOREM PageTellsOneStory == Spec => []OneStory
<1>1. IInv /\ Seen => OneStory
  <2> SUFFICES ASSUME IInv, Seen, ShowReadout, ~NotBooked
               PROVE  /\ history # <<>>
                      /\ LET line == history[1]
                         IN  /\ line = Line(round)
                             /\ LastRound => (Banner.says = "win" <=> Held(line))
                             /\ cabinetId = line.cabinetId =>
                                  /\ Plate.says = "PRIZE" <=> Held(line)
                                  /\ Held(line) => Plate.prize = Prize(line.cabinetId, line.tier)
    BY DEF OneStory
  <2>1. round.kind # "none"
    BY NoRoundIs DEF ShowReadout, IInv, RoundFits
  <2>2. Len(booked) # 0 /\ booked[Len(booked)] = Line(round)
    BY <2>1 DEF Seen, Played, NotBooked
  <2>3. Line(round).cabinetId = round.cabinetId /\ Line(round).tier = round.outcome
    BY DEF Line
  <2>4. Held(Line(round)) <=> ~IsSlip(round.cabinetId, round.outcome)
    BY <2>3 DEF Held
  <2>5. LastRound => (Banner.says = "win" <=> Held(Line(round)))
    BY <2>4 DEF Banner, Result
  <2>6. ASSUME cabinetId = Line(round).cabinetId
        PROVE  /\ Plate.says = "PRIZE" <=> Held(Line(round))
               /\ Held(Line(round)) =>
                    Plate.prize = Prize(Line(round).cabinetId, Line(round).tier)
    BY <2>3, <2>4, <2>6 DEF Plate
  <2>7. DOMAIN history # {} /\ history[1] = booked[Len(booked)]
    <3>1. Len(booked) \in Nat /\ HISTORY_LINES \in Nat \ {0}
      BY PageAssumption DEF IInv, PageType, IsList
    <3>2. 1 \in 1..(IF Len(booked) < HISTORY_LINES THEN Len(booked) ELSE HISTORY_LINES)
      BY <2>2, <3>1
    <3>3. Len(booked) + 1 - 1 = Len(booked)
      BY <3>1
    <3> QED BY <3>2, <3>3 DEF history
  <2>8. history # <<>>
    BY <2>7
  <2> QED BY <2>2, <2>5, <2>6, <2>7, <2>8
<1> QED BY <1>1, SeenInvariant, PageInvariant, PTL

\* The banner's money is what the chain paid for the round's own session.
THEOREM BannerTellsThePayout == Spec => []BannerSaysWhatWasPaid
<1>1. IInv /\ Seen => BannerSaysWhatWasPaid
  <2> SUFFICES ASSUME IInv, Seen, LastRound, round.kind = "hosted", ~doubled
               PROVE  Result.payout = RowPayout(round.pull)
    BY DEF BannerSaysWhatWasPaid
  <2>1. round.payout = RowPayout(round.sessionId)
    BY DEF Seen, Paid, LastRound
  <2>2. round.sessionId = round.pull
    BY DEF IInv, OwnSession, LastRound
  <2>3. Result.payout = round.payout
    BY DEF Result
  <2> QED BY <2>1, <2>2, <2>3
<1> QED BY <1>1, SeenInvariant, PageInvariant, PTL

\* The shelf is the stored one with a charm for every line that was booked and held.
THEOREM ShelfKeepsEveryCharm == Spec => []ShelfAddsUp
<1>1. IInv /\ Seen => ShelfAddsUp
  <2> SUFFICES ASSUME IInv, Seen, NEW c \in CabinetIds, NEW t \in 1..PageTierTop
               PROVE  LET lines == {n \in DOMAIN booked :
                                      booked[n].cabinetId = c /\ booked[n].tier = t}
                      IN  /\ Shelf[<<c, t>>].times = StoredShelf[<<c, t>>] + Cardinality(lines)
                          /\ Shelf[<<c, t>>].owned <=>
                               StoredShelf[<<c, t>>] > 0 \/ \E n \in lines : Held(booked[n])
    BY DEF ShelfAddsUp
  <2> DEFINE charm == <<c, t>>
             lines == {n \in DOMAIN booked : booked[n].cabinetId = c /\ booked[n].tier = t}
  <2>1. DOMAIN booked = 1..Len(booked) /\ Len(booked) \in Nat
    BY DEF IInv, PageType, IsList
  <2>2. charm \in Charms /\ charm[1] = c /\ charm[2] = t
    BY DEF Charms
  <2>3. lines = LinesOf(charm)
    BY <2>1, <2>2 DEF LinesOf
  <2>4. Shelf[charm] = [owned |-> Owned(charm), times |-> collection[charm]]
    BY <2>2 DEF Shelf
  <2> HIDE DEF charm
  <2>5. IsFiniteSet(lines)
    <3>1. lines \subseteq 1..Len(booked)
      BY <2>3 DEF LinesOf
    <3>2. IsFiniteSet(1..Len(booked))
      BY <2>1, FS_Interval
    <3> QED BY <3>1, <3>2, FS_Subset
  <2>6. \A n \in lines : Held(booked[n])
    <3>1. MultiplierOf(c, t) # 0
      <4>1. c \in 0..2 /\ t \in 1..3
        BY PageAssumption DEF PageTierTop
      <4> QED BY <4>1, MultipliersAre
    <3>2. ~IsSlip(c, t)
      BY <3>1 DEF IsSlip
    <3>3. \A n \in lines : booked[n].cabinetId = c /\ booked[n].tier = t
      OBVIOUS
    <3> QED BY <3>2, <3>3 DEF Held
  <2> HIDE DEF lines
  <2>7. /\ collection[charm] = StoredShelf[charm] + Cardinality(lines)
        /\ StoredShelf[charm] \in Nat /\ Cardinality(lines) \in Nat
    BY <2>2, <2>3, <2>5, ShelfAssumption, FS_CardinalityType DEF Seen, Shelved
  <2>8. Cardinality(lines) = 0 <=> lines = {}
    BY <2>5, FS_EmptySet
  <2>9. collection[charm] > 0 <=> StoredShelf[charm] > 0 \/ lines # {}
    BY <2>7, <2>8
  <2>10. Shelf[charm].times = StoredShelf[charm] + Cardinality(lines)
    BY <2>4, <2>7
  <2>11. Shelf[charm].owned <=> StoredShelf[charm] > 0 \/ \E n \in lines : Held(booked[n])
    <3>1. Shelf[charm].owned = Owned(charm)
      BY <2>4, SMT
    <3>2. Owned(charm) <=> collection[charm] > 0
      BY Zenon DEF Owned
    <3>3. lines # {} <=> \E n \in lines : Held(booked[n])
      BY <2>6
    <3> QED BY <2>9, <3>1, <3>2, <3>3, Zenon
  <2> QED BY <2>10, <2>11 DEF charm, lines
<1> QED BY <1>1, SeenInvariant, PageInvariant, PTL

\* The panels print the table: on every cabinet the chances in the paytable add up to
\* one and the contributions to the declared return; the board above the button shows
\* every tier and flags the highest one alone.  The chip above the paytable prints the
\* return a hundred times too high.
THEOREM PanelsPrintTheTable ==
  ASSUME NEW c \in 0..2
  PROVE  /\ PaytableRow(c, 0).chance + PaytableRow(c, 1).chance + PaytableRow(c, 2).chance
              + PaytableRow(c, 3).chance = PageProbScale
         /\ RtpPpm(c) = PageDeclaredRtpPpm
         /\ TotalPercent(c) = 96 /\ ChipPercent(c) = 100 * 96
         /\ DOMAIN PrizeLadder(c) = 0..PageTierTop
         /\ \A t \in 0..PageTierTop : PrizeLadder(c)[t].top <=> t = PageTierTop
<1>1. c = 0 \/ c = 1 \/ c = 2
  OBVIOUS
<1>2. \A t \in 0..PageTierTop : t = 0 \/ t = 1 \/ t = 2 \/ t = 3
  BY DEF PageTierTop
<1>3. \A t \in 0..PageTierTop : MultiplierOf(c, t) = TopMultiplier(c) <=> t = PageTierTop
  BY <1>1, <1>2, MultipliersAre DEF TopMultiplier, PageTierTop
<1>4. \A t \in 0..PageTierTop : t = 0 \/ ~IsSlip(c, t)
  BY <1>1, <1>2, MultipliersAre DEF IsSlip
<1>5. DOMAIN PrizeLadder(c) = 0..PageTierTop
  <2>1. {t \in 0..PageTierTop : t = 0 \/ ~IsSlip(c, t)} = 0..PageTierTop
    BY <1>4
  <2> QED BY <2>1, Zenon DEF PrizeLadder
<1>6. ASSUME NEW t \in 0..PageTierTop
      PROVE  PrizeLadder(c)[t].top <=> t = PageTierTop
  <2>1. t \in {u \in 0..PageTierTop : u = 0 \/ ~IsSlip(c, u)}
    BY <1>4
  <2>2. PrizeLadder(c)[t] = [odds |-> CabinetById(c)[t + 1].weight,
                             top |-> MultiplierOf(c, t) = TopMultiplier(c)]
    BY <2>1, Zenon DEF PrizeLadder
  <2>3. PrizeLadder(c)[t].top = (MultiplierOf(c, t) = TopMultiplier(c))
    BY <2>2, SMT
  <2> QED BY <1>3, <2>3, Zenon
<1> DEFINE row(t) == PaytableRow(c, t)
<1>7. /\ row(0).chance + row(1).chance + row(2).chance + row(3).chance = 1000000
      /\ row(0).contribution + row(1).contribution + row(2).contribution + row(3).contribution
           = 96000000
  <2>1. CASE c = 0
    BY <2>1, SMT DEF PaytableRow, CabinetById, CABINETS, Tier
  <2>2. CASE c = 1
    BY <2>2, SMT DEF PaytableRow, CabinetById, CABINETS, Tier
  <2>3. CASE c = 2
    BY <2>3, SMT DEF PaytableRow, CabinetById, CABINETS, Tier
  <2> QED BY <1>1, <2>1, <2>2, <2>3, SMT
<1>8. /\ row(0).chance + row(1).chance + row(2).chance + row(3).chance = PageProbScale
      /\ RtpPpm(c) = PageDeclaredRtpPpm
  <2>1. PageProbScale = 1000000 /\ PageDeclaredRtpPpm = 960000 /\ 96000000 \div PageMultScale = 960000
    BY SMT DEF PageProbScale, PageMultScale, PageDeclaredRtpPpm
  <2>2. RtpPpm(c) = (row(0).contribution + row(1).contribution + row(2).contribution
                       + row(3).contribution) \div PageMultScale
    BY DEF RtpPpm
  <2> HIDE DEF row
  <2> QED BY <1>7, <2>1, <2>2, SMT
<1>9. TotalPercent(c) = 96 /\ ChipPercent(c) = 100 * 96
  BY <1>8, SMT DEF TotalPercent, ChipPercent, PageDeclaredRtpPpm
<1> HIDE DEF row
<1> QED BY <1>5, <1>6, <1>8, <1>9, Zenon DEF row

-----------------------------------------------------------------------------
(* The binary search.                                                      *)

\* Of the words from low to high, the i-th is the first past the target; the last
\* one if none is.
IsFirst(words, target, low, high, i) ==
  /\ i \in low..high
  /\ i = high \/ words[i].cumulativeWeight > target
  /\ \A j \in low..(i - 1) : words[j].cumulativeWeight <= target

LEMMA OneIsFirst ==
  ASSUME NEW words, NEW target \in Int, NEW low \in Nat, NEW high \in Nat, low <= high,
         \A i \in low..high : words[i].cumulativeWeight \in Int
  PROVE  /\ \E i : IsFirst(words, target, low, high, i)
         /\ \A i, j : IsFirst(words, target, low, high, i) /\ IsFirst(words, target, low, high, j) => i = j
<1> DEFINE T == {i \in low..high : i = high \/ words[i].cumulativeWeight > target}
<1>1. PICK i \in T : \A j \in T : i <= j
  <2>1. T \subseteq Nat /\ high \in T
    OBVIOUS
  <2> HIDE DEF T
  <2>2. QED BY <2>1, LeastNumber
<1>2. IsFirst(words, target, low, high, i)
  <2>1. ASSUME NEW j \in low..(i - 1) PROVE words[j].cumulativeWeight <= target
    <3>1. j \in low..high /\ j # high /\ j < i /\ j \notin T
      BY <1>1
    <3>2. QED BY <3>1
  <2>2. QED BY <1>1, <2>1 DEF IsFirst
<1>3. ASSUME NEW j, NEW k, IsFirst(words, target, low, high, j), IsFirst(words, target, low, high, k), j < k
      PROVE  FALSE
  BY <1>3 DEF IsFirst
<1>4. ASSUME NEW j, NEW k, IsFirst(words, target, low, high, j), IsFirst(words, target, low, high, k)
      PROVE  j = k
  <2>1. j \in Int /\ k \in Int
    BY <1>4 DEF IsFirst
  <2>2. ~(j < k) /\ ~(k < j)
    BY <1>3, <1>4
  <2>3. QED BY <2>1, <2>2
<1>5. QED BY <1>2, <1>4

IsSearch(s, words, count, target) ==
  s = [span \in (1..count) \X (1..count) |->
        LET low == span[1]
            high == span[2]
            middle == (low + high) \div 2
        IN  IF low >= high THEN low
            ELSE IF words[middle].cumulativeWeight > target
                 THEN s[<<low, middle>>] ELSE s[<<middle + 1, high>>]]

\* Half of the words is enough.
LEMMA HalfIsEnough ==
  ASSUME NEW words, NEW target \in Int, NEW low \in Nat, NEW high \in Nat, low < high,
         \A i, j \in low..high : /\ words[i].cumulativeWeight \in Int
                                 /\ i < j => words[i].cumulativeWeight < words[j].cumulativeWeight,
         NEW middle, middle = (low + high) \div 2
  PROVE  /\ middle \in low..(high - 1)
         /\ words[middle].cumulativeWeight > target =>
              \A i : IsFirst(words, target, low, middle, i) => IsFirst(words, target, low, high, i)
         /\ ~(words[middle].cumulativeWeight > target) =>
              \A i : IsFirst(words, target, middle + 1, high, i) => IsFirst(words, target, low, high, i)
<1>1. middle \in low..(high - 1)
  OBVIOUS
<1>2. ASSUME words[middle].cumulativeWeight > target, NEW i, IsFirst(words, target, low, middle, i)
      PROVE  IsFirst(words, target, low, high, i)
  BY <1>1, <1>2 DEF IsFirst
<1>3. ASSUME ~(words[middle].cumulativeWeight > target), NEW i, IsFirst(words, target, middle + 1, high, i)
      PROVE  IsFirst(words, target, low, high, i)
  <2>1. \A j \in low..middle : words[j].cumulativeWeight <= target
    BY <1>1, <1>3
  <2>2. QED BY <1>1, <1>3, <2>1 DEF IsFirst
<1>4. QED BY <1>1, <1>2, <1>3

\* Where a search from low to high ends.
Ends(words, target, low, high) ==
  IF low >= high THEN low ELSE CHOOSE i : IsFirst(words, target, low, high, i)

\* The words of a table, in the order of their running weights.
Rising(words, count) ==
  \A i, j \in 1..count : /\ words[i].cumulativeWeight \in Int
                         /\ i < j => words[i].cumulativeWeight < words[j].cumulativeWeight

LEMMA EndsAtFirst ==
  ASSUME NEW words, NEW target \in Int, NEW count \in Nat \ {0}, Rising(words, count),
         NEW low \in 1..count, NEW high \in 1..count, low <= high
  PROVE  IsFirst(words, target, low, high, Ends(words, target, low, high))
<1>1. CASE low = high
  BY <1>1 DEF IsFirst, Ends
<1>2. CASE low < high
  <2>1. low \in Nat /\ high \in Nat /\ \A i \in low..high : words[i].cumulativeWeight \in Int
    BY DEF Rising
  <2>2. \E i : IsFirst(words, target, low, high, i)
    BY <2>1, OneIsFirst
  <2>3. Ends(words, target, low, high) = CHOOSE i : IsFirst(words, target, low, high, i)
    BY <1>2 DEF Ends
  <2>4. QED BY <2>2, <2>3
<1>3. QED BY <1>1, <1>2

LEMMA Halves ==
  ASSUME NEW words, NEW target \in Int, NEW count \in Nat \ {0}, Rising(words, count),
         NEW low \in 1..count, NEW high \in 1..count, low < high,
         NEW middle, middle = (low + high) \div 2
  PROVE  /\ middle \in 1..count /\ middle + 1 \in 1..count
         /\ low <= middle /\ middle + 1 <= high
         /\ words[middle].cumulativeWeight > target =>
              \A i : IsFirst(words, target, low, middle, i) => IsFirst(words, target, low, high, i)
         /\ ~(words[middle].cumulativeWeight > target) =>
              \A i : IsFirst(words, target, middle + 1, high, i) => IsFirst(words, target, low, high, i)
<1>1. /\ low \in Nat /\ high \in Nat
      /\ \A i, j \in low..high : /\ words[i].cumulativeWeight \in Int
                                 /\ i < j => words[i].cumulativeWeight < words[j].cumulativeWeight
  BY DEF Rising
<1>2. /\ middle \in low..(high - 1)
      /\ words[middle].cumulativeWeight > target =>
           \A i : IsFirst(words, target, low, middle, i) => IsFirst(words, target, low, high, i)
      /\ ~(words[middle].cumulativeWeight > target) =>
           \A i : IsFirst(words, target, middle + 1, high, i) => IsFirst(words, target, low, high, i)
  BY <1>1, HalfIsEnough
<1>3. QED BY <1>2

LEMMA EndsHalve ==
  ASSUME NEW words, NEW target \in Int, NEW count \in Nat \ {0}, Rising(words, count),
         NEW low \in 1..count, NEW high \in 1..count, low < high,
         NEW middle, middle = (low + high) \div 2
  PROVE  Ends(words, target, low, high) =
           IF words[middle].cumulativeWeight > target
           THEN Ends(words, target, low, middle) ELSE Ends(words, target, middle + 1, high)
<1> DEFINE half == IF words[middle].cumulativeWeight > target
                   THEN Ends(words, target, low, middle) ELSE Ends(words, target, middle + 1, high)
<1>1. /\ middle \in 1..count /\ middle + 1 \in 1..count /\ low <= middle /\ middle + 1 <= high
      /\ words[middle].cumulativeWeight > target =>
           \A i : IsFirst(words, target, low, middle, i) => IsFirst(words, target, low, high, i)
      /\ ~(words[middle].cumulativeWeight > target) =>
           \A i : IsFirst(words, target, middle + 1, high, i) => IsFirst(words, target, low, high, i)
  BY Halves
<1>2. /\ IsFirst(words, target, low, middle, Ends(words, target, low, middle))
      /\ IsFirst(words, target, middle + 1, high, Ends(words, target, middle + 1, high))
      /\ IsFirst(words, target, low, high, Ends(words, target, low, high))
  BY <1>1, EndsAtFirst
<1>3. IsFirst(words, target, low, high, half)
  BY <1>1, <1>2
<1>4. low \in Nat /\ high \in Nat /\ low <= high /\ \A i \in low..high : words[i].cumulativeWeight \in Int
  BY DEF Rising
<1> HIDE DEF half
<1>5. Ends(words, target, low, high) = half
  BY <1>2, <1>3, <1>4, OneIsFirst
<1>6. QED BY <1>5 DEF half

\* One step of the search, from whatever s holds for the spans it goes on with.
Step(s, words, target, low, high) ==
  LET middle == (low + high) \div 2
  IN  IF low >= high THEN low
      ELSE IF words[middle].cumulativeWeight > target THEN s[<<low, middle>>] ELSE s[<<middle + 1, high>>]

LEMMA SearchExists ==
  ASSUME NEW words, NEW target \in Int, NEW count \in Nat \ {0}, Rising(words, count)
  PROVE  IsSearch([span \in (1..count) \X (1..count) |-> Ends(words, target, span[1], span[2])],
                  words, count, target)
<1> DEFINE S == (1..count) \X (1..count)
           g == [span \in S |-> Ends(words, target, span[1], span[2])]
<1>1. \A low, high \in 1..count : g[<<low, high>>] = Ends(words, target, low, high)
  OBVIOUS
<1> HIDE DEF g
<1>2. ASSUME NEW span \in S
      PROVE  g[span] = Step(g, words, target, span[1], span[2])
  <2>1. PICK low \in 1..count, high \in 1..count : span = <<low, high>>
    OBVIOUS
  <2>2. CASE low >= high
    BY <1>1, <2>1, <2>2 DEF Ends, Step
  <2>3. CASE low < high
    <3>1. PICK middle : middle = (low + high) \div 2
      OBVIOUS
    <3>2. middle \in 1..count /\ middle + 1 \in 1..count
      BY <2>3, <3>1, Halves
    <3>6. Ends(words, target, low, high) =
            IF words[middle].cumulativeWeight > target
            THEN Ends(words, target, low, middle) ELSE Ends(words, target, middle + 1, high)
      BY <2>3, <3>1, EndsHalve
    <3>3. /\ g[<<low, high>>] = Ends(words, target, low, high)
          /\ g[<<low, middle>>] = Ends(words, target, low, middle)
          /\ g[<<middle + 1, high>>] = Ends(words, target, middle + 1, high)
      BY <1>1, <3>2
    <3>4. ~(low >= high)
      BY <2>3
    <3>5. QED BY <2>1, <3>1, <3>3, <3>4, <3>6 DEF Step
  <2>4. QED BY <2>2, <2>3
<1>3. g = [span \in S |-> Step(g, words, target, span[1], span[2])]
  <2>1. g = [span \in S |-> g[span]]
    BY DEF g
  <2>2. QED BY <1>2, <2>1
<1>4. IsSearch(g, words, count, target)
  BY <1>3 DEF IsSearch, Step
<1>5. QED BY <1>4 DEF g

LEMMA SearchSteps ==
  ASSUME NEW s, NEW words, NEW target, NEW count \in Nat, IsSearch(s, words, count, target),
         NEW low \in 1..count, NEW high \in 1..count
  PROVE  s[<<low, high>>] = Step(s, words, target, low, high)
<1>1. <<low, high>> \in (1..count) \X (1..count)
  OBVIOUS
<1>2. s[<<low, high>>] = Step(s, words, target, <<low, high>>[1], <<low, high>>[2])
  BY <1>1 DEF IsSearch, Step
<1>3. QED BY <1>2

\* A span the search goes wrong on.
Wrong(s, words, target, low, high) ==
  low <= high /\ ~IsFirst(words, target, low, high, s[<<low, high>>])

\* Every search ends at the first word past the target.
LEMMA SearchFinds ==
  ASSUME NEW words, NEW target \in Int, NEW count \in Nat \ {0}, Rising(words, count)
  PROVE  IsFirst(words, target, 1, count, FirstPast(words, count, target))
<1>1. PICK s : IsSearch(s, words, count, target) /\ FirstPast(words, count, target) = s[<<1, count>>]
  <2>1. FirstPast(words, count, target) = (CHOOSE s : IsSearch(s, words, count, target))[<<1, count>>]
    BY DEF FirstPast, IsSearch
  <2>2. \E s : IsSearch(s, words, count, target)
    BY SearchExists
  <2>3. QED BY <2>1, <2>2
<1> DEFINE T == {d \in Nat : \E low, high \in 1..count :
                               Wrong(s, words, target, low, high) /\ d = high - low}
<1>2. T = {}
  <2>1. SUFFICES ASSUME T # {} PROVE FALSE
    OBVIOUS
  <2>2. PICK d \in T : \A e \in T : d <= e
    <3>1. T \subseteq Nat
      OBVIOUS
    <3> HIDE DEF T
    <3>2. QED BY <2>1, <3>1, LeastNumber
  <2>3. PICK low \in 1..count, high \in 1..count : Wrong(s, words, target, low, high) /\ d = high - low
    BY <2>2
  <2>4. ASSUME NEW a \in 1..count, NEW b \in 1..count, a <= b, b - a < d
        PROVE  IsFirst(words, target, a, b, s[<<a, b>>])
    <3>1. ASSUME Wrong(s, words, target, a, b) PROVE FALSE
      <4>1. b - a \in T
        BY <2>4, <3>1
      <4>2. d <= b - a /\ d \in Nat
        BY <2>2, <4>1
      <4>3. QED BY <2>4, <4>2
    <3>2. QED BY <2>4, <3>1 DEF Wrong
  <2>5. low <= high /\ ~IsFirst(words, target, low, high, s[<<low, high>>])
    BY <2>3 DEF Wrong
  <2>6. s[<<low, high>>] = Step(s, words, target, low, high)
    BY <1>1, SearchSteps
  <2> HIDE DEF T
  <2>7. CASE low = high
    <3>1. s[<<low, high>>] = low
      BY <2>6, <2>7 DEF Step
    <3>2. QED BY <2>5, <2>7, <3>1 DEF IsFirst
  <2>8. CASE low < high
    <3>1. PICK middle : middle = (low + high) \div 2
      OBVIOUS
    <3>2. /\ middle \in 1..count /\ middle + 1 \in 1..count
          /\ low <= middle /\ middle + 1 <= high
          /\ words[middle].cumulativeWeight > target =>
               \A i : IsFirst(words, target, low, middle, i) => IsFirst(words, target, low, high, i)
          /\ ~(words[middle].cumulativeWeight > target) =>
               \A i : IsFirst(words, target, middle + 1, high, i) => IsFirst(words, target, low, high, i)
      BY <2>8, <3>1, Halves
    <3>3. s[<<low, high>>] = IF words[middle].cumulativeWeight > target
                             THEN s[<<low, middle>>] ELSE s[<<middle + 1, high>>]
      BY <2>6, <2>8, <3>1 DEF Step
    <3>4. middle - low < d /\ high - (middle + 1) < d
      BY <2>3, <3>2
    <3>5. /\ IsFirst(words, target, low, middle, s[<<low, middle>>])
          /\ IsFirst(words, target, middle + 1, high, s[<<middle + 1, high>>])
      BY <2>4, <3>2, <3>4
    <3>6. IsFirst(words, target, low, high, s[<<low, high>>])
      BY <3>2, <3>3, <3>5
    <3>7. QED BY <2>5, <3>6
  <2>9. QED BY <2>5, <2>7, <2>8
<1>3. ~Wrong(s, words, target, 1, count)
  <2>1. 1 \in 1..count /\ count \in 1..count /\ count - 1 \in Nat
    OBVIOUS
  <2>2. QED BY <1>2, <2>1
<1>4. QED BY <1>1, <1>3 DEF Wrong

-----------------------------------------------------------------------------
(* Sequences one after another.                                            *)

LEMMA UpTo ==
  ASSUME NEW n \in Nat, NEW P, \A m \in 1..n : 1..(m - 1) \subseteq P => m \in P
  PROVE  1..n \subseteq P
<1> DEFINE T == {m \in 1..n : m \notin P}
<1>1. SUFFICES ASSUME T # {} PROVE FALSE
  OBVIOUS
<1>2. PICK m \in T : \A k \in T : m <= k
  <2>1. T \subseteq Nat
    OBVIOUS
  <2> HIDE DEF T
  <2>2. QED BY <1>1, <2>1, LeastNumber
<1>3. 1..(m - 1) \subseteq P
  <2>1. ASSUME NEW k \in 1..(m - 1) PROVE k \in P
    <3>1. k \in 1..n /\ k < m
      OBVIOUS
    <3>2. k \notin T
      BY <1>2, <3>1
    <3>3. QED BY <3>1, <3>2
  <2>2. QED BY <2>1
<1>4. QED BY <1>3

\* f[i] is the first i of n sequences, one after another.
IsFlat(f, seqs, n) ==
  f = [i \in 1..n |-> IF i = 1 THEN seqs[i] ELSE f[i - 1] \o seqs[i]]

LEMMA FlatExists ==
  ASSUME NEW seqs, NEW n \in Nat
  PROVE  \E f : IsFlat(f, seqs, n)
<1> DEFINE P == {m \in Nat : \E f : IsFlat(f, seqs, m)}
<1>1. 0 \in P
  <2>1. IsFlat([i \in 1..0 |-> 0], seqs, 0)
    BY DEF IsFlat
  <2>2. QED BY <2>1
<1>2. ASSUME NEW m \in 1..n, m - 1 \in P PROVE m \in P
  <2>1. PICK f : IsFlat(f, seqs, m - 1)
    BY <1>2
  <2> DEFINE g == [i \in 1..m |-> IF i < m THEN f[i] ELSE IF m = 1 THEN seqs[m] ELSE f[m - 1] \o seqs[m]]
             h == [i \in 1..m |-> IF i = 1 THEN seqs[i] ELSE g[i - 1] \o seqs[i]]
  <2>2. ASSUME NEW i \in 1..m PROVE g[i] = h[i]
    <3>1. \A j \in 1..(m - 1) : g[j] = f[j]
      OBVIOUS
    <3>2. \A j \in 1..(m - 1) : f[j] = IF j = 1 THEN seqs[j] ELSE f[j - 1] \o seqs[j]
      BY <2>1 DEF IsFlat
    <3>3. /\ g[i] = IF i < m THEN f[i] ELSE IF m = 1 THEN seqs[m] ELSE f[m - 1] \o seqs[m]
          /\ h[i] = IF i = 1 THEN seqs[i] ELSE g[i - 1] \o seqs[i]
      OBVIOUS
    <3> HIDE DEF g, h
    <3>4. CASE i < m
      <4>1. i \in 1..(m - 1) /\ (i # 1 => i - 1 \in 1..(m - 1))
        BY <3>4
      <4>2. f[i] = IF i = 1 THEN seqs[i] ELSE f[i - 1] \o seqs[i]
        BY <3>2, <4>1
      <4>3. i # 1 => g[i - 1] = f[i - 1]
        BY <3>1, <4>1
      <4>4. QED BY <3>3, <3>4, <4>2, <4>3
    <3>5. CASE i = m
      <4>1. i # 1 => g[i - 1] = f[i - 1]
        <5>1. i # 1 => i - 1 \in 1..(m - 1)
          BY <3>5
        <5>2. QED BY <3>1, <5>1
      <4>2. QED BY <3>3, <3>5, <4>1
    <3>6. QED BY <3>4, <3>5
  <2>3. g = h
    <3>1. g = [i \in 1..m |-> g[i]] /\ h = [i \in 1..m |-> h[i]]
      OBVIOUS
    <3> HIDE DEF g, h
    <3>2. QED BY <2>2, <3>1
  <2>4. IsFlat(g, seqs, m)
    BY <2>3 DEF IsFlat
  <2> HIDE DEF g
  <2>5. QED BY <2>4
<1> HIDE DEF P
<1>3. 1..n \subseteq P
  <2>1. ASSUME NEW m \in 1..n, 1..(m - 1) \subseteq P PROVE m \in P
    <3>1. m - 1 = 0 \/ m - 1 \in 1..(m - 1)
      OBVIOUS
    <3>2. m - 1 \in P
      BY <1>1, <2>1, <3>1
    <3>3. QED BY <1>2, <3>2
  <2>2. QED BY <2>1, UpTo
<1>4. n \in P
  <2>1. n = 0 \/ n \in 1..n
    OBVIOUS
  <2>2. QED BY <1>1, <1>3, <2>1
<1>5. QED BY <1>4 DEF P

\* Of n sequences in a row, o[k] elements come before the k-th.
LaidOut(all, seqs, o) ==
  LET n == Len(seqs)
  IN  /\ o \in [1..(n + 1) -> Nat]
      /\ o[1] = 0
      /\ o[n + 1] = Len(all)
      /\ \A k \in 1..n : o[k + 1] = o[k] + Len(seqs[k])
      /\ \A k \in 1..n : \A j \in 1..Len(seqs[k]) : o[k] + j \in 1..Len(all) /\ all[o[k] + j] = seqs[k][j]
      /\ \A p \in 1..Len(all) : \E k \in 1..n : \E j \in 1..Len(seqs[k]) : p = o[k] + j

\* The m-th of them is the one before, with one sequence more.
FlatStep(f, seqs, S, m) ==
  /\ f[m] \in Seq(S)
  /\ Len(f[m]) = (IF m = 1 THEN 0 ELSE Len(f[m - 1])) + Len(seqs[m])
  /\ \A p \in 1..Len(f[m]) :
       f[m][p] = IF m = 1 THEN seqs[m][p]
                 ELSE IF p <= Len(f[m - 1]) THEN f[m - 1][p] ELSE seqs[m][p - Len(f[m - 1])]

LEMMA FlatSteps ==
  ASSUME NEW S, NEW seqs \in Seq(Seq(S)), NEW f, IsFlat(f, seqs, Len(seqs))
  PROVE  \A m \in 1..Len(seqs) : FlatStep(f, seqs, S, m)
<1> DEFINE P == {m \in 1..Len(seqs) : FlatStep(f, seqs, S, m)}
<1>1. ASSUME NEW m \in 1..Len(seqs), 1..(m - 1) \subseteq P PROVE FlatStep(f, seqs, S, m)
  <2>1. f[m] = IF m = 1 THEN seqs[m] ELSE f[m - 1] \o seqs[m]
    BY DEF IsFlat
  <2>2. seqs[m] \in Seq(S)
    OBVIOUS
  <2>3. CASE m = 1
    <3>1. f[m] = seqs[m] /\ f[m] \in Seq(S) /\ Len(f[m]) = Len(seqs[m]) /\ Len(seqs[m]) \in Nat
      BY <2>1, <2>2, <2>3
    <3>2. Len(f[m]) = 0 + Len(seqs[m])
      BY <3>1
    <3>3. QED BY <2>3, <3>1, <3>2, Zenon DEF FlatStep
  <2>4. CASE m # 1
    <3>1. f[m - 1] \in Seq(S)
      <4>1. m - 1 \in 1..(m - 1)
        BY <2>4
      <4>2. m - 1 \in P
        BY <1>1, <4>1
      <4>3. FlatStep(f, seqs, S, m - 1)
        BY <4>2
      <4>4. QED BY <4>3 DEF FlatStep
    <3>2. f[m] = f[m - 1] \o seqs[m]
      BY <2>1, <2>4
    <3>3. PICK a \in Seq(S) : a = f[m - 1]
      BY <3>1
    <3>4. PICK b \in Seq(S) : b = seqs[m]
      BY <2>2
    <3>5. PICK w : w = a \o b
      OBVIOUS
    <3>6. /\ w \in Seq(S) /\ Len(w) = Len(a) + Len(b)
          /\ \A p \in 1..Len(w) : w[p] = IF p <= Len(a) THEN a[p] ELSE b[p - Len(a)]
      BY <3>5
    <3>7. w = f[m]
      BY <3>2, <3>3, <3>4, <3>5
    <3>8. QED BY <2>4, <3>3, <3>4, <3>6, <3>7 DEF FlatStep
  <2>5. QED BY <2>3, <2>4
<1>2. 1..Len(seqs) \subseteq P
  <2>1. \A m \in 1..Len(seqs) : 1..(m - 1) \subseteq P => m \in P
    BY <1>1
  <2> HIDE DEF P
  <2>2. Len(seqs) \in Nat
    OBVIOUS
  <2>3. QED BY <2>1, <2>2, UpTo
<1>3. QED BY <1>2

\* Where the k-th of the sequences starts.
Offsets(f, seqs) == [k \in 1..(Len(seqs) + 1) |-> IF k = 1 THEN 0 ELSE Len(f[k - 1])]

LEMMA FlatIsARow ==
  ASSUME NEW S, NEW seqs \in Seq(Seq(S)), seqs # <<>>
  PROVE  /\ FlattenSeq(seqs) \in Seq(S)
         /\ \E o : LaidOut(FlattenSeq(seqs), seqs, o)
<1> DEFINE n == Len(seqs)
<1>1. PICK f : IsFlat(f, seqs, n) /\ FlattenSeq(seqs) = f[n]
  <2>1. n # 0 /\ n \in Nat
    OBVIOUS
  <2>2. FlattenSeq(seqs) = (CHOOSE f : IsFlat(f, seqs, n))[n]
    BY <2>1 DEF FlattenSeq, IsFlat
  <2> HIDE DEF n
  <2>3. \E f : IsFlat(f, seqs, n)
    BY <2>1, FlatExists
  <2>4. QED BY <2>2, <2>3
<1>2. n \in Nat /\ n >= 1 /\ \A k \in 1..n : seqs[k] \in Seq(S) /\ Len(seqs[k]) \in Nat
  OBVIOUS
<1>3. \A m \in 1..n : FlatStep(f, seqs, S, m)
  BY <1>1, FlatSteps
<1>4. \A m \in 1..n : f[m] \in Seq(S) /\ Len(f[m]) \in Nat
  <2> HIDE DEF n
  <2>1. \A m \in 1..n : f[m] \in Seq(S)
    BY <1>3 DEF FlatStep
  <2>2. QED BY <2>1
<1> DEFINE o == Offsets(f, seqs)
           OK(m) == /\ \A k \in 1..m : \A j \in 1..Len(seqs[k]) :
                         o[k] + j \in 1..Len(f[m]) /\ f[m][o[k] + j] = seqs[k][j]
                    /\ \A p \in 1..Len(f[m]) : \E k \in 1..m : \E j \in 1..Len(seqs[k]) : p = o[k] + j
           P == {m \in 1..n : OK(m)}
<1>5. /\ o \in [1..(n + 1) -> Nat] /\ o[1] = 0
      /\ \A k \in 1..n : o[k + 1] = Len(f[k])
  BY <1>2, <1>4 DEF Offsets
<1>6. \A k \in 1..n : Len(f[k]) = o[k] + Len(seqs[k])
  <2>1. \A k \in 1..n : Len(f[k]) = (IF k = 1 THEN 0 ELSE Len(f[k - 1])) + Len(seqs[k])
    BY <1>3 DEF FlatStep
  <2>2. \A k \in 1..n : o[k] = IF k = 1 THEN 0 ELSE Len(f[k - 1])
    BY <1>2 DEF Offsets
  <2> HIDE DEF o, n
  <2>3. QED BY <2>1, <2>2
<1> HIDE DEF o, n
<1>7. ASSUME NEW m \in 1..n, 1..(m - 1) \subseteq P PROVE OK(m)
  <2>1. o[m] \in Nat /\ (m = 1 => o[m] = 0) /\ (m # 1 => o[m] = Len(f[m - 1]))
    <3>1. m \in 1..(n + 1) /\ (m # 1 => m - 1 \in 1..n /\ (m - 1) + 1 = m)
      BY <1>2
    <3>2. QED BY <1>5, <3>1
  <2>2. Len(f[m]) = o[m] + Len(seqs[m]) /\ Len(seqs[m]) \in Nat
    BY <1>2, <1>6
  <2>3. \A p \in 1..Len(f[m]) :
          f[m][p] = IF p <= o[m] THEN f[m - 1][p] ELSE seqs[m][p - o[m]]
    <3>1. FlatStep(f, seqs, S, m)
      BY <1>3
    <3>2. CASE m = 1
      BY <2>1, <3>1, <3>2 DEF FlatStep
    <3>3. CASE m # 1
      BY <2>1, <3>1, <3>3 DEF FlatStep
    <3>4. QED BY <3>2, <3>3
  <2>4. m # 1 => OK(m - 1)
    <3>1. m # 1 => m - 1 \in 1..(m - 1)
      OBVIOUS
    <3>2. QED BY <1>7, <3>1
  <2>5. ASSUME NEW k \in 1..m, NEW j \in 1..Len(seqs[k])
        PROVE  o[k] + j \in 1..Len(f[m]) /\ f[m][o[k] + j] = seqs[k][j]
    <3>1. CASE k = m
      <4>1. o[m] + j \in 1..Len(f[m]) /\ ~(o[m] + j <= o[m]) /\ (o[m] + j) - o[m] = j
        <5>1. j \in 1..Len(seqs[m])
          BY <3>1
        <5>2. QED BY <2>1, <2>2, <5>1
      <4>2. f[m][o[m] + j] = seqs[m][(o[m] + j) - o[m]]
        BY <2>3, <4>1
      <4>3. QED BY <3>1, <4>1, <4>2
    <3>2. CASE k < m
      <4>1. k \in 1..(m - 1) /\ m # 1
        BY <3>2
      <4>2. o[k] + j \in 1..Len(f[m - 1]) /\ f[m - 1][o[k] + j] = seqs[k][j]
        BY <2>4, <2>5, <4>1
      <4>3. o[k] + j \in 1..Len(f[m]) /\ o[k] + j <= o[m]
        BY <2>1, <2>2, <4>1, <4>2
      <4>4. QED BY <2>3, <4>2, <4>3
    <3>3. QED BY <3>1, <3>2
  <2>6. ASSUME NEW p \in 1..Len(f[m])
        PROVE  \E k \in 1..m : \E j \in 1..Len(seqs[k]) : p = o[k] + j
    <3>1. CASE p <= o[m]
      <4>1. m # 1 /\ p \in 1..Len(f[m - 1])
        BY <2>1, <3>1
      <4>2. PICK k \in 1..(m - 1) : \E j \in 1..Len(seqs[k]) : p = o[k] + j
        BY <2>4, <4>1
      <4>3. k \in 1..m
        OBVIOUS
      <4>4. QED BY <4>2, <4>3
    <3>2. CASE p > o[m]
      <4>1. p - o[m] \in 1..Len(seqs[m]) /\ p = o[m] + (p - o[m])
        BY <2>1, <2>2, <3>2
      <4>2. m \in 1..m
        OBVIOUS
      <4>3. QED BY <4>1, <4>2
    <3>3. QED BY <2>1, <3>1, <3>2
  <2>7. QED BY <2>5, <2>6
<1>8. 1..n \subseteq P
  <2>1. \A m \in 1..n : 1..(m - 1) \subseteq P => m \in P
    BY <1>7
  <2> HIDE DEF P
  <2>2. QED BY <1>2, <2>1, UpTo
<1>9. OK(n) /\ n \in 1..n
  <2>1. n \in 1..n
    BY <1>2
  <2>2. QED BY <1>8, <2>1
<1> HIDE DEF OK
<1>10. LaidOut(f[n], seqs, o)
  BY <1>5, <1>6, <1>9 DEF LaidOut, OK, n
<1>11. QED BY <1>1, <1>4, <1>9, <1>10

-----------------------------------------------------------------------------
(* Sampling.                                                               *)

\* The words of a table that a walk accepts.
Ascending(words) ==
  /\ words \in Seq(TableWord)
  /\ \A i \in 1..Len(words) : /\ words[i].prizeUnits > Previous(words, i).prizeUnits
                              /\ words[i].cumulativeWeight > Previous(words, i).cumulativeWeight

LEMMA AscendingOrders ==
  ASSUME NEW words, Ascending(words)
  PROVE  /\ \A i \in 1..Len(words) : words[i].prizeUnits \in Nat \ {0} /\ words[i].cumulativeWeight \in Nat \ {0}
         /\ \A i, j \in 1..Len(words) :
              i < j => /\ words[i].prizeUnits < words[j].prizeUnits
                       /\ words[i].cumulativeWeight < words[j].cumulativeWeight
<1> DEFINE n == Len(words)
           P == {m \in 1..n : \A i \in 1..(m - 1) : /\ words[i].prizeUnits < words[m].prizeUnits
                                                   /\ words[i].cumulativeWeight < words[m].cumulativeWeight}
<1>1. n \in Nat /\ \A i \in 1..n : words[i].prizeUnits \in Nat /\ words[i].cumulativeWeight \in Nat
  <2>1. words \in Seq(TableWord)
    BY DEF Ascending
  <2>2. \A i \in 1..n : words[i] \in TableWord
    BY <2>1
  <2>3. n \in Nat
    BY <2>1
  <2>4. QED BY <2>2, <2>3 DEF TableWord
<1>2. \A i \in 1..n : /\ i = 1 => words[i].prizeUnits > 0 /\ words[i].cumulativeWeight > 0
                      /\ i # 1 => /\ words[i].prizeUnits > words[i - 1].prizeUnits
                                  /\ words[i].cumulativeWeight > words[i - 1].cumulativeWeight
  BY DEF Ascending, Previous
<1> HIDE DEF n
<1>3. ASSUME NEW m \in 1..n, 1..(m - 1) \subseteq P PROVE m \in P
  <2>1. ASSUME NEW i \in 1..(m - 1)
        PROVE  words[i].prizeUnits < words[m].prizeUnits /\ words[i].cumulativeWeight < words[m].cumulativeWeight
    <3>1. /\ m # 1 /\ m - 1 \in 1..n /\ m - 1 \in 1..(m - 1) /\ i \in 1..n
          /\ words[m].prizeUnits > words[m - 1].prizeUnits
          /\ words[m].cumulativeWeight > words[m - 1].cumulativeWeight
      BY <1>1, <1>2
    <3>2. m - 1 \in P
      BY <1>3, <3>1
    <3>3. i = m - 1 \/ i \in 1..((m - 1) - 1)
      OBVIOUS
    <3>4. CASE i = m - 1
      BY <3>1, <3>4
    <3>5. CASE i \in 1..((m - 1) - 1)
      <4>1. words[i].prizeUnits < words[m - 1].prizeUnits /\ words[i].cumulativeWeight < words[m - 1].cumulativeWeight
        BY <3>2, <3>5
      <4>2. /\ words[i].prizeUnits \in Nat /\ words[m - 1].prizeUnits \in Nat /\ words[m].prizeUnits \in Nat
            /\ words[i].cumulativeWeight \in Nat /\ words[m - 1].cumulativeWeight \in Nat
            /\ words[m].cumulativeWeight \in Nat
        BY <1>1, <3>1
      <4>3. QED BY <3>1, <4>1, <4>2
    <3>6. QED BY <3>3, <3>4, <3>5
  <2>2. QED BY <2>1
<1>4. 1..n \subseteq P
  <2> HIDE DEF P
  <2>1. QED BY <1>1, <1>3, UpTo
<1>5. ASSUME NEW i \in 1..n, NEW j \in 1..n, i < j
      PROVE  words[i].prizeUnits < words[j].prizeUnits /\ words[i].cumulativeWeight < words[j].cumulativeWeight
  <2>1. j \in P /\ i \in 1..(j - 1)
    BY <1>4, <1>5
  <2>2. QED BY <2>1
<1>6. ASSUME NEW i \in 1..n PROVE words[i].prizeUnits # 0 /\ words[i].cumulativeWeight # 0
  <2>1. CASE i = 1
    BY <1>1, <1>2, <2>1
  <2>2. CASE i # 1
    <3>1. i - 1 \in 1..n
      BY <1>1, <2>2
    <3>2. QED BY <1>1, <1>2, <2>2, <3>1
  <2>3. QED BY <2>1, <2>2
<1>7. QED BY <1>1, <1>5, <1>6 DEF n

\* What a walk over the chunks leaves: a row of words in order, a chunk none of which is empty.
LEMMA WalkOrders ==
  ASSUME NEW seqs \in Seq(Seq(TableWord)), seqs # <<>>, WalkAccepts(seqs)
  PROVE  /\ Ascending(Words(seqs))
         /\ Len(Words(seqs)) \in Nat \ {0}
         /\ \A k \in 1..Len(seqs) : Len(seqs[k]) \in Nat \ {0}
         /\ \E o : LaidOut(Words(seqs), seqs, o)
<1>1. Words(seqs) \in Seq(TableWord) /\ \E o : LaidOut(Words(seqs), seqs, o)
  BY FlatIsARow DEF Words
<1>2. \A k \in 1..Len(seqs) : Len(seqs[k]) \in Nat \ {0}
  <2>1. \A k \in DOMAIN seqs : Len(seqs[k]) \in 1..MAX_TIERS_PER_CHUNK
    BY DEF WalkAccepts
  <2>2. MAX_TIERS_PER_CHUNK \in Nat
    BY SlotTableAssumption
  <2>3. QED BY <2>1, <2>2
<1>3. Ascending(Words(seqs))
  <2>1. PICK words \in Seq(TableWord) : words = Words(seqs)
    BY <1>1
  <2>2. \A i \in DOMAIN words : /\ words[i].prizeUnits > Previous(words, i).prizeUnits
                                /\ words[i].cumulativeWeight > Previous(words, i).cumulativeWeight
    BY <2>1 DEF WalkAccepts
  <2>3. QED BY <2>1, <2>2 DEF Ascending
<1>4. Len(Words(seqs)) \in Nat \ {0}
  <2>1. PICK o : LaidOut(Words(seqs), seqs, o)
    BY <1>1
  <2>2. 1 \in 1..Len(seqs) /\ 1 \in 1..Len(seqs[1])
    BY <1>2
  <2>3. o[1] + 1 \in 1..Len(Words(seqs)) /\ o[1] = 0
    BY <2>1, <2>2 DEF LaidOut
  <2>4. QED BY <1>1, <2>3
<1>5. QED BY <1>1, <1>2, <1>3, <1>4

\* The i-th word is the first past a target.
Holds(words, target, p) ==
  /\ p \in 1..Len(words)
  /\ Previous(words, p).cumulativeWeight <= target
  /\ target < words[p].cumulativeWeight

LEMMA HoldsOnce ==
  ASSUME NEW words, Ascending(words), NEW target \in Int, NEW p, NEW q,
         Holds(words, target, p), Holds(words, target, q)
  PROVE  p = q
<1>1. Len(words) \in Nat
  BY DEF Ascending
<1>2. /\ \A i \in 1..Len(words) : words[i].cumulativeWeight \in Nat
      /\ \A i, j \in 1..Len(words) : i < j => words[i].cumulativeWeight < words[j].cumulativeWeight
  BY AscendingOrders
<1>3. ASSUME NEW a, NEW b, Holds(words, target, a), Holds(words, target, b), a < b PROVE FALSE
  <2>1. /\ a \in 1..Len(words) /\ b \in 1..Len(words) /\ b - 1 \in 1..Len(words) /\ b # 1
        /\ target < words[a].cumulativeWeight /\ words[b - 1].cumulativeWeight <= target
    BY <1>1, <1>3 DEF Holds, Previous
  <2>2. a = b - 1 \/ a < b - 1
    BY <1>1, <1>3, <2>1
  <2>3. words[a].cumulativeWeight <= words[b - 1].cumulativeWeight
    BY <1>2, <2>1, <2>2
  <2>4. QED BY <1>2, <2>1, <2>3
<1>4. p \in 1..Len(words) /\ q \in 1..Len(words)
  BY DEF Holds
<1>5. ~(p < q) /\ ~(q < p)
  BY <1>3
<1>6. QED BY <1>1, <1>4, <1>5

\* A search of a whole table finds the word that holds a target below its end.
LEMMA WholeSearch ==
  ASSUME NEW words, Ascending(words), NEW target \in Int, 0 <= target,
         Len(words) # 0, target < words[Len(words)].cumulativeWeight
  PROVE  Holds(words, target, FirstPast(words, Len(words), target))
<1> DEFINE n == Len(words)
<1>1. n \in Nat \ {0}
  BY DEF Ascending
<1>2. /\ \A i \in 1..n : words[i].cumulativeWeight \in Nat
      /\ \A i, j \in 1..n : i < j => words[i].cumulativeWeight < words[j].cumulativeWeight
  BY AscendingOrders
<1> HIDE DEF n
<1>3. Rising(words, n)
  BY <1>2 DEF Rising
<1>4. PICK p : p = FirstPast(words, n, target)
  OBVIOUS
<1>5. IsFirst(words, target, 1, n, p)
  BY <1>1, <1>3, <1>4, SearchFinds
<1>6. p \in 1..n /\ target < words[p].cumulativeWeight
  <2>1. p \in 1..n /\ (p = n \/ words[p].cumulativeWeight > target)
    BY <1>5 DEF IsFirst
  <2>2. target < words[n].cumulativeWeight
    BY DEF n
  <2>3. QED BY <1>1, <1>2, <2>1, <2>2
<1>7. Previous(words, p).cumulativeWeight <= target
  <2>1. CASE p = 1
    BY <2>1 DEF Previous
  <2>2. CASE p # 1
    <3>1. p - 1 \in 1..(p - 1)
      BY <1>1, <1>6, <2>2
    <3>2. words[p - 1].cumulativeWeight <= target
      BY <1>5, <3>1 DEF IsFirst
    <3>3. QED BY <2>2, <3>2 DEF Previous
  <2>3. QED BY <2>1, <2>2
<1>8. QED BY <1>4, <1>6, <1>7 DEF Holds, n

\* The chunks of a configuration, as the deployer writes them behind their pointers.
Pointed(seqs) ==
  [k \in DOMAIN seqs |->
     [pointer |-> seqs[k], endCumulativeWeight |-> Last(seqs[k]).cumulativeWeight, tierCount |-> Len(seqs[k])]]

\* What the random word is after in the table.
Aims(c, randomness, target) == target = (randomness % c.totalWeight) - c.missWeight

\* The walk over the chunks and the search in one of them find the word of the
\* whole table that holds the target.
LEMMA ChunkSearch ==
  ASSUME NEW seqs \in Seq(Seq(TableWord)), seqs # <<>>, WalkAccepts(seqs),
         NEW target \in Int, 0 <= target, target < Last(Words(seqs)).cumulativeWeight,
         NEW c, c.chunks = Pointed(seqs), NEW randomness, Aims(c, randomness, target)
  PROVE  \E p : /\ Holds(Words(seqs), target, p)
                /\ SamplePrize(c, randomness) = {Words(seqs)[p].prizeUnits}
<1> DEFINE words == Words(seqs)
           n == Len(words)
           N == Len(seqs)
           holding == {k \in DOMAIN c.chunks : target < c.chunks[k].endCumulativeWeight}
<1>1. /\ Ascending(words) /\ n \in Nat \ {0}
      /\ \A k \in 1..N : Len(seqs[k]) \in Nat \ {0}
      /\ N \in Nat \ {0} /\ DOMAIN seqs = 1..N
  BY WalkOrders
<1>2. PICK o : LaidOut(words, seqs, o)
  BY WalkOrders
<1> HIDE DEF words, n, N
<1>3. /\ o \in [1..(N + 1) -> Nat] /\ o[1] = 0 /\ o[N + 1] = n
      /\ \A k \in 1..N : o[k + 1] = o[k] + Len(seqs[k])
      /\ \A k \in 1..N : \A j \in 1..Len(seqs[k]) : o[k] + j \in 1..n /\ words[o[k] + j] = seqs[k][j]
  BY <1>2 DEF LaidOut, n, N
<1>4. /\ \A i \in 1..n : words[i].cumulativeWeight \in Nat
      /\ \A i, j \in 1..n : i < j => words[i].cumulativeWeight < words[j].cumulativeWeight
  BY <1>1, AscendingOrders DEF n
<1>5. /\ DOMAIN c.chunks = 1..N
      /\ \A k \in 1..N : /\ c.chunks[k].pointer = seqs[k]
                         /\ c.chunks[k].tierCount = Len(seqs[k])
                         /\ c.chunks[k].endCumulativeWeight = words[o[k] + Len(seqs[k])].cumulativeWeight
  <2>1. \A k \in 1..N : seqs[k][Len(seqs[k])] = words[o[k] + Len(seqs[k])]
    BY <1>1, <1>3
  <2>2. QED BY <1>1, <2>1 DEF Pointed, Last
<1>6. N \in holding
  <2>1. o[N] + Len(seqs[N]) = n
    BY <1>1, <1>3
  <2>2. Last(Words(seqs)) = words[n]
    BY DEF Last, words, n
  <2>3. QED BY <1>1, <1>5, <2>1, <2>2
<1>7. PICK m : m = Min(holding) /\ m \in holding /\ \A k \in holding : m <= k
  <2>1. holding \subseteq Nat
    BY <1>1, <1>5
  <2> HIDE DEF holding
  <2>2. \E x \in holding : \A y \in holding : x <= y
    BY <1>6, <2>1, LeastNumber
  <2>3. QED BY <2>2 DEF Min
<1>8. /\ m \in 1..N
      /\ target < words[o[m] + Len(seqs[m])].cumulativeWeight
      /\ m # 1 => words[o[m - 1] + Len(seqs[m - 1])].cumulativeWeight <= target
  <2>1. m \in 1..N /\ target < words[o[m] + Len(seqs[m])].cumulativeWeight
    BY <1>5, <1>7
  <2>2. ASSUME m # 1 PROVE words[o[m - 1] + Len(seqs[m - 1])].cumulativeWeight <= target
    <3>1. m - 1 \in 1..N /\ ~(m <= m - 1)
      BY <1>1, <2>1, <2>2
    <3>2. ~(target < c.chunks[m - 1].endCumulativeWeight)
      BY <1>5, <1>7, <3>1
    <3>3. words[o[m - 1] + Len(seqs[m - 1])].cumulativeWeight \in Nat
      <4>1. Len(seqs[m - 1]) \in 1..Len(seqs[m - 1])
        BY <1>1, <3>1
      <4>2. o[m - 1] + Len(seqs[m - 1]) \in 1..n
        BY <1>3, <3>1, <4>1
      <4>3. QED BY <1>4, <4>2
    <3>4. QED BY <1>5, <3>1, <3>2, <3>3
  <2>3. QED BY <2>1, <2>2
<1> DEFINE L == Len(seqs[m])
           i == FirstPast(seqs[m], L, target)
<1>9. IsFirst(seqs[m], target, 1, L, i) /\ L \in Nat \ {0}
  <2>1. L \in Nat \ {0}
    BY <1>1, <1>8
  <2>2. Rising(seqs[m], L)
    <3>1. \A a \in 1..L : o[m] + a \in 1..n /\ words[o[m] + a] = seqs[m][a]
      BY <1>3, <1>8
    <3>2. o[m] \in Nat
      BY <1>1, <1>3, <1>8
    <3> HIDE DEF L
    <3>3. \A a, b \in 1..L : a < b => o[m] + a < o[m] + b
      BY <2>1, <3>2
    <3>4. \A a \in 1..L : seqs[m][a].cumulativeWeight \in Nat
      BY <1>4, <3>1
    <3>5. ASSUME NEW a \in 1..L, NEW b \in 1..L, a < b
          PROVE  seqs[m][a].cumulativeWeight < seqs[m][b].cumulativeWeight
      <4>1. /\ o[m] + a \in 1..n /\ words[o[m] + a] = seqs[m][a]
            /\ o[m] + b \in 1..n /\ words[o[m] + b] = seqs[m][b]
        BY <3>1
      <4>2. o[m] + a < o[m] + b
        BY <3>3, <3>5
      <4>3. QED BY <1>4, <4>1, <4>2
    <3>6. QED BY <3>4, <3>5 DEF Rising
  <2> HIDE DEF L
  <2>3. QED BY <2>1, <2>2, SearchFinds
<1>10. SamplePrize(c, randomness) = {seqs[m][i].prizeUnits}
  <2>1. c.chunks[m].pointer = seqs[m] /\ c.chunks[m].tierCount = L
    BY <1>5, <1>8
  <2>2. SamplePrize(c, randomness) =
          {c.chunks[m].pointer[FirstPast(c.chunks[m].pointer, c.chunks[m].tierCount, target)].prizeUnits}
    <3>1. ~(target < 0) /\ holding # {}
      BY <1>6
    <3>2. SamplePrize(c, randomness) =
            IF target < 0 THEN {0} ELSE IF holding = {} THEN {}
            ELSE {c.chunks[Min(holding)].pointer[FirstPast(c.chunks[Min(holding)].pointer,
                    c.chunks[Min(holding)].tierCount, target)].prizeUnits}
      BY DEF SamplePrize, Aims
    <3> HIDE DEF holding
    <3>3. QED BY <1>7, <3>1, <3>2
  <2> HIDE DEF L
  <2>3. QED BY <2>1, <2>2
<1> HIDE DEF i, L, holding
<1>11. i \in 1..L /\ o[m] \in Nat /\ o[m] + i \in 1..n /\ words[o[m] + i] = seqs[m][i]
  <2>1. i \in 1..L
    BY <1>9 DEF IsFirst
  <2>2. QED BY <1>1, <1>3, <1>8, <2>1 DEF L
<1>12. target < words[o[m] + i].cumulativeWeight
  <2>1. i = L \/ seqs[m][i].cumulativeWeight > target
    BY <1>9 DEF IsFirst
  <2>2. words[o[m] + i].cumulativeWeight \in Nat
    BY <1>4, <1>11
  <2>3. QED BY <1>8, <1>11, <2>1, <2>2 DEF L
<1>13. Previous(words, o[m] + i).cumulativeWeight <= target
  <2>1. CASE i # 1
    <3>1. i - 1 \in 1..L /\ i - 1 \in 1..(i - 1) /\ (o[m] + i) - 1 = o[m] + (i - 1) /\ o[m] + i # 1
      BY <1>9, <1>11, <2>1
    <3>2. seqs[m][i - 1].cumulativeWeight <= target
      BY <1>9, <3>1 DEF IsFirst
    <3>3. words[o[m] + (i - 1)] = seqs[m][i - 1]
      BY <1>3, <1>8, <3>1 DEF L
    <3>4. QED BY <3>1, <3>2, <3>3 DEF Previous
  <2>2. CASE i = 1 /\ m = 1
    BY <1>3, <2>2 DEF Previous
  <2>3. CASE i = 1 /\ m # 1
    <3>1. m - 1 \in 1..N /\ (m - 1) + 1 = m
      BY <1>1, <1>8, <2>3
    <3>2. o[m] = o[m - 1] + Len(seqs[m - 1])
      BY <1>3, <3>1
    <3>3. o[m - 1] \in Nat /\ Len(seqs[m - 1]) \in Nat \ {0}
      BY <1>1, <1>3, <3>1
    <3>4. (o[m] + i) - 1 = o[m] /\ o[m] + i # 1
      BY <1>11, <2>3, <3>2, <3>3
    <3>5. QED BY <1>8, <2>3, <3>2, <3>4 DEF Previous
  <2>4. QED BY <2>1, <2>2, <2>3
<1>14. Holds(words, target, o[m] + i)
  BY <1>11, <1>12, <1>13 DEF Holds, n
<1>15. QED BY <1>10, <1>11, <1>14 DEF words

-----------------------------------------------------------------------------
(* Sums over a period.                                                     *)

LEMMA SumUnion ==
  ASSUME NEW A, NEW B, IsFiniteSet(A), IsFiniteSet(B), A \cap B = {},
         NEW f, \A x \in A \cup B : f[x] \in Int
  PROVE  SumFunctionOnSet(f, A \cup B) = SumFunctionOnSet(f, A) + SumFunctionOnSet(f, B)
<1> DEFINE D == A \cup B
           g == [x \in D |-> IF x \in A THEN f[x] ELSE 0]
           h == [x \in D |-> IF x \in B THEN f[x] ELSE 0]
<1>1. IsFiniteSet(D) /\ A \in SUBSET D /\ B \in SUBSET D
  BY FS_Union
<1>2. /\ \A x \in D : g[x] = (IF x \in A THEN f[x] ELSE 0) /\ h[x] = (IF x \in B THEN f[x] ELSE 0)
      /\ \A x \in D : g[x] \in Int /\ h[x] \in Int /\ f[x] = g[x] + h[x]
  OBVIOUS
<1> HIDE DEF D, g, h
<1>3. SumFunctionOnSet(f, D) = SumFunctionOnSet(g, D) + SumFunctionOnSet(h, D)
  BY <1>1, <1>2, SumPlus
<1>4. SumFunctionOnSet(f, A) = SumFunctionOnSet(g, D)
  BY <1>1, <1>2, SumOfPart
<1>5. SumFunctionOnSet(f, B) = SumFunctionOnSet(h, D)
  BY <1>1, <1>2, SumOfPart
<1>6. QED BY <1>3, <1>4, <1>5 DEF D

LEMMA SpanSize ==
  \A a, b \in Nat : a < b => IsFiniteSet(a..(b - 1)) /\ Cardinality(a..(b - 1)) = b - a
<1> SUFFICES ASSUME NEW a \in Nat, NEW b \in Nat, a < b
             PROVE  IsFiniteSet(a..(b - 1)) /\ Cardinality(a..(b - 1)) = b - a
  OBVIOUS
<1>1. PICK d \in Int : d = b - 1
  OBVIOUS
<1>2. IsFiniteSet(a..d) /\ Cardinality(a..d) = IF a > d THEN 0 ELSE d - a + 1
  BY FS_Interval
<1>3. ~(a > d) /\ d - a + 1 = b - a
  BY <1>1
<1>4. Cardinality(a..d) = b - a
  BY <1>2, <1>3
<1>5. QED BY <1>1, <1>2, <1>4

\* A value v per word of the table, where the words of a period say, and by weight.
Spread(f, v, words, missWeight, total) ==
  \A r \in 0..(total - 1) : /\ r < missWeight => f[r] = 0
                            /\ \A p : Holds(words, r - missWeight, p) => f[r] = v[p]

Weighted(g, v, words) ==
  \A i \in 1..Len(words) : v[i] \in Int /\ g[i] = v[i] * WeightAt(words, i)

\* The words of a table of a total weight, misses included.
TableOf(words, missWeight, total) ==
  /\ Ascending(words) /\ Len(words) # 0 /\ missWeight \in Nat
  /\ total = missWeight + words[Len(words)].cumulativeWeight

\* Over the words of a period, a value per word of the table is summed as often as
\* the word has weight.
LEMMA PeriodSum ==
  ASSUME NEW words, NEW missWeight, NEW total, TableOf(words, missWeight, total),
         NEW v, NEW f, Spread(f, v, words, missWeight, total), NEW g, Weighted(g, v, words)
  PROVE  SumFunctionOnSet(f, 0..(total - 1)) = SumFunctionOnSet(g, 1..Len(words))
<1>0. Ascending(words) /\ Len(words) # 0 /\ missWeight \in Nat
      /\ total = missWeight + words[Len(words)].cumulativeWeight
  BY DEF TableOf
<1> USE <1>0
<1> DEFINE n == Len(words)
           end(k) == missWeight + IF k = 0 THEN 0 ELSE words[k].cumulativeWeight
           Sum(k) == SumFunctionOnSet(f, 0..(end(k) - 1))
           Paying(k) == SumFunctionOnSet(g, 1..k)
           P == {k \in 1..n : Sum(k) = Paying(k)}
<1>1. n \in Nat \ {0} /\ \A i \in 1..n : words[i].cumulativeWeight \in Nat
  <2>1. n \in Nat \ {0}
    BY DEF Ascending
  <2>2. QED BY <2>1, AscendingOrders
<1>2. \A i \in 1..n : /\ WeightAt(words, i) = end(i) - end(i - 1) /\ end(i - 1) < end(i)
                      /\ end(i) \in Nat /\ end(i - 1) \in Nat /\ end(i) <= total
  <2>1. ASSUME NEW i \in 1..n
        PROVE  WeightAt(words, i) = end(i) - end(i - 1) /\ end(i - 1) < end(i)
               /\ end(i) \in Nat /\ end(i - 1) \in Nat /\ end(i) <= total
    <3>1. i = 1 \/ (i # 1 /\ i - 1 \in 1..n)
      BY <1>1
    <3>2. words[i].cumulativeWeight \in Nat /\ words[i].cumulativeWeight > Previous(words, i).cumulativeWeight
      BY <1>1 DEF Ascending
    <3>3. end(i) = missWeight + words[i].cumulativeWeight /\ end(i) \in Nat
      BY <1>1, <3>2
    <3>4. end(i - 1) = missWeight + Previous(words, i).cumulativeWeight /\ end(i - 1) \in Nat
      BY <1>1, <3>1 DEF Previous
    <3>5. words[i].cumulativeWeight <= words[n].cumulativeWeight
      <4>1. i = n \/ i < n
        BY <1>1
      <4>2. n \in 1..n
        BY <1>1
      <4>3. i < n => words[i].cumulativeWeight < words[n].cumulativeWeight
        BY <4>2, AscendingOrders
      <4>4. QED BY <1>1, <4>1, <4>2, <4>3
    <3>6. Previous(words, i).cumulativeWeight \in Nat
      BY <1>1, <3>1 DEF Previous
    <3>7. end(i) <= total
      <4>1. words[n].cumulativeWeight \in Nat
        BY <1>1
      <4>2. QED BY <3>2, <3>3, <3>5, <4>1
    <3> HIDE DEF end
    <3>8. QED BY <3>2, <3>3, <3>4, <3>6, <3>7 DEF WeightAt
  <2>2. QED BY <2>1
<1>3. end(0) = missWeight /\ end(n) = total
  BY <1>1
<1>4. \A i \in 1..n : \A r \in end(i - 1)..(end(i) - 1) : r \in 0..(total - 1) /\ f[r] = v[i]
  <2>1. ASSUME NEW i \in 1..n, NEW r \in end(i - 1)..(end(i) - 1) PROVE r \in 0..(total - 1) /\ f[r] = v[i]
    <3>1. /\ end(i) \in Nat /\ end(i - 1) \in Nat /\ end(i) <= total /\ total \in Nat
      BY <1>1, <1>2
    <3>2. /\ end(i) = missWeight + words[i].cumulativeWeight
          /\ end(i - 1) = missWeight + Previous(words, i).cumulativeWeight
      BY <1>1 DEF Previous
    <3>3. /\ words[i].cumulativeWeight \in Nat /\ Previous(words, i).cumulativeWeight \in Nat
      <4>1. i = 1 \/ (i # 1 /\ i - 1 \in 1..n)
        BY <1>1
      <4>2. QED BY <1>1, <4>1 DEF Previous
    <3> HIDE DEF end
    <3>4. r \in 0..(total - 1) /\ r \in Int
      BY <3>1
    <3>5. Holds(words, r - missWeight, i)
      <4>1. end(i - 1) <= r /\ r < end(i)
        BY <3>1, <3>4
      <4>2. /\ Previous(words, i).cumulativeWeight <= r - missWeight
            /\ r - missWeight < words[i].cumulativeWeight
        BY <3>2, <3>3, <3>4, <4>1
      <4>3. QED BY <4>2 DEF Holds, n
    <3>6. QED BY <3>4, <3>5 DEF Spread
  <2>2. QED BY <2>1
<1> HIDE DEF n, end
<1>5. \A i \in 1..n : g[i] \in Int /\ g[i] = v[i] * WeightAt(words, i) /\ v[i] \in Int
  <2>1. \A i \in 1..n : g[i] = v[i] * WeightAt(words, i) /\ v[i] \in Int
    BY DEF n, Weighted
  <2>2. \A i \in 1..n : WeightAt(words, i) \in Int
    BY <1>2
  <2>3. QED BY <2>1, <2>2
<1>6. \A r \in 0..(total - 1) : r < missWeight => f[r] = 0
  BY DEF Spread
<1>7. ASSUME NEW k \in 1..n, k # 1 => Sum(k - 1) = Paying(k - 1)
      PROVE  Sum(k) = Paying(k)
  <2> DEFINE low == 0..(end(k - 1) - 1)
             new == end(k - 1)..(end(k) - 1)
  <2>1. /\ end(k - 1) \in Nat /\ end(k) \in Nat /\ end(k - 1) < end(k) /\ end(k) <= total /\ k \in Nat \ {0}
        /\ WeightAt(words, k) = end(k) - end(k - 1)
    BY <1>1, <1>2
  <2>2. /\ 0..(end(k) - 1) = low \cup new /\ low \cap new = {}
        /\ IsFiniteSet(low) /\ IsFiniteSet(new)
        /\ Cardinality(new) = WeightAt(words, k)
    <3>1. 0..(end(k) - 1) = low \cup new /\ low \cap new = {}
      BY <2>1
    <3>2. IsFiniteSet(low)
      BY <2>1, FS_Interval
    <3>3. PICK a \in Nat, b \in Nat : a = end(k - 1) /\ b = end(k) /\ a < b
      BY <2>1
    <3>4. IsFiniteSet(a..(b - 1)) /\ Cardinality(a..(b - 1)) = b - a
      BY <3>3, SpanSize, Zenon
    <3>5. new = a..(b - 1) /\ WeightAt(words, k) = b - a
      BY <2>1, <3>3
    <3> HIDE DEF low, new
    <3>6. QED BY <3>1, <3>2, <3>4, <3>5
  <2>3. \A r \in new : f[r] = v[k]
    BY <1>4
  <2>4. k # 1 => \A r \in low : f[r] \in Int
    <3>1. ASSUME NEW r \in low PROVE f[r] \in Int
      <4>1. r \in 0..(total - 1) /\ total \in Nat
        <5>1. n \in 1..n /\ end(n) \in Nat
          BY <1>1, <1>2
        <5>2. total \in Nat
          BY <1>3, <5>1
        <5>3. QED BY <2>1, <5>2
      <4>2. CASE r < missWeight
        BY <1>3, <1>6, <4>1, <4>2
      <4>3. CASE r >= missWeight
        <5>1. PICK p : Holds(words, r - missWeight, p)
          <6>1. r - missWeight \in Int /\ 0 <= r - missWeight /\ r - missWeight < words[Len(words)].cumulativeWeight
            <7>1. words[Len(words)].cumulativeWeight \in Nat
              BY <1>1 DEF n
            <7>2. QED BY <4>1, <4>3, <7>1
          <6>2. QED BY <6>1, WholeSearch
        <5>2. f[r] = v[p] /\ p \in 1..n
          BY <1>3, <4>1, <5>1 DEF Holds, n, Spread
        <5>3. QED BY <1>5, <5>2
      <4>4. QED BY <4>1, <4>2, <4>3
    <3>2. QED BY <3>1
  <2>5. k = 1 => \A r \in low : f[r] = 0
    BY <1>3, <1>6, <2>1
  <2>6. \A r \in low \cup new : f[r] \in Int
    <3>1. v[k] \in Int
      BY <1>5
    <3> HIDE DEF low, new
    <3>2. QED BY <2>3, <2>4, <2>5, <3>1
  <2> HIDE DEF low, new
  <2>7. SumFunctionOnSet(f, low \cup new) = SumFunctionOnSet(f, low) + SumFunctionOnSet(f, new)
    BY <2>2, <2>6, SumUnion
  <2>8. SumFunctionOnSet(f, new) = v[k] * WeightAt(words, k)
    <3>1. v[k] \in Int
      BY <1>5
    <3>2. SumFunctionOnSet(f, new) = v[k] * Cardinality(new)
      BY <2>2, <2>3, <3>1, SumConstant
    <3>3. QED BY <2>2, <3>2
  <2>9. Paying(k) = g[k] + SumFunctionOnSet(g, 1..(k - 1))
    <3>1. k \in 1..k /\ (1..k) \ {k} = 1..(k - 1)
      BY <2>1
    <3>2. IsFiniteSet(1..k)
      BY <2>1, FS_Interval
    <3>3. \A i \in 1..k : i \in 1..n
      BY <1>1
    <3>4. \A i \in 1..k : g[i] \in Int
      BY <1>5, <3>3
    <3>5. SumFunctionOnSet(g, 1..k) = g[k] + SumFunctionOnSet(g, (1..k) \ {k})
      BY <3>1, <3>2, <3>4, SumSplit
    <3>6. QED BY <3>1, <3>5
  <2>10. SumFunctionOnSet(f, low) = SumFunctionOnSet(g, 1..(k - 1))
    <3>1. CASE k = 1
      <4>1. SumFunctionOnSet(f, low) = 0
        BY <2>2, <2>5, <3>1, SumZero
      <4>2. 1..(k - 1) = {}
        BY <3>1
      <4>3. QED BY <4>1, <4>2, SumEmpty
    <3>2. CASE k # 1
      BY <1>7, <3>2 DEF low
    <3>3. QED BY <3>1, <3>2
  <2>11. Sum(k) = SumFunctionOnSet(f, low \cup new)
    BY <2>2
  <2>12. g[k] = v[k] * WeightAt(words, k) /\ g[k] \in Int
    BY <1>5
  <2>13. SumFunctionOnSet(f, low) \in Int
    <3>1. \A r \in low : f[r] \in Int
      BY <2>6
    <3>2. QED BY <2>2, <3>1, SumType
  <2> HIDE DEF Sum, Paying
  <2>14. QED BY <2>7, <2>8, <2>9, <2>10, <2>11, <2>12, <2>13
<1>8. 1..n \subseteq P
  <2>1. ASSUME NEW k \in 1..n, 1..(k - 1) \subseteq P PROVE k \in P
    <3>1. k # 1 => k - 1 \in 1..(k - 1)
      BY <1>1
    <3>2. k # 1 => k - 1 \in P
      BY <2>1, <3>1
    <3>3. k # 1 => Sum(k - 1) = Paying(k - 1)
      BY <3>2
    <3>4. Sum(k) = Paying(k)
      BY <1>7, <3>3
    <3>5. QED BY <3>4
  <2> HIDE DEF P
  <2>2. QED BY <1>1, <2>1, UpTo
<1>9. n \in P
  BY <1>1, <1>8
<1>10. QED BY <1>3, <1>9 DEF n

-----------------------------------------------------------------------------
(* What a title quotes.                                                    *)

\* The prizes drawn over a period, where the words of the table say.
DrawnFrom(drawn, words, missWeight, total) ==
  \A r \in 0..(total - 1) :
    /\ r < missWeight => drawn[r] = 0
    /\ \A p : Holds(words, r - missWeight, p) => drawn[r] = words[p].prizeUnits

\* A word past the misses is in the table.
LEMMA InTheTable ==
  ASSUME NEW words, Ascending(words), Len(words) # 0, NEW missWeight \in Nat,
         NEW total, total = missWeight + words[Len(words)].cumulativeWeight,
         NEW r \in 0..(total - 1), ~(r < missWeight)
  PROVE  /\ r - missWeight \in Nat
         /\ r - missWeight < words[Len(words)].cumulativeWeight
         /\ \E p : Holds(words, r - missWeight, p)
<1>1. words[Len(words)].cumulativeWeight \in Nat
  <2>1. Len(words) \in 1..Len(words)
    BY DEF Ascending
  <2>2. QED BY <2>1, AscendingOrders
<1>2. /\ r - missWeight \in Int /\ 0 <= r - missWeight
      /\ r - missWeight < words[Len(words)].cumulativeWeight
  BY <1>1
<1>3. \E p : Holds(words, r - missWeight, p)
  BY <1>2, WholeSearch
<1>4. QED BY <1>2, <1>3

\* The facts of a table that AscendingOrders gives, by position.
LEMMA TableFacts ==
  ASSUME NEW words, Ascending(words), Len(words) # 0
  PROVE  /\ Len(words) \in Nat \ {0} /\ Len(words) \in 1..Len(words)
         /\ \A i \in 1..Len(words) : /\ words[i].prizeUnits \in Nat \ {0}
                                     /\ words[i].cumulativeWeight \in Nat \ {0}
                                     /\ words[i].prizeUnits <= words[Len(words)].prizeUnits
                                     /\ i # Len(words) => words[i].prizeUnits # words[Len(words)].prizeUnits
                                     /\ WeightAt(words, i) \in Nat \ {0}
<1> DEFINE n == Len(words)
<1>1. n \in Nat \ {0} /\ n \in 1..n
  BY DEF Ascending
<1>2. /\ \A i \in 1..n : words[i].prizeUnits \in Nat \ {0} /\ words[i].cumulativeWeight \in Nat \ {0}
      /\ \A i, j \in 1..n : i < j => words[i].prizeUnits < words[j].prizeUnits
  BY AscendingOrders
<1> HIDE DEF n
<1>3. ASSUME NEW i \in 1..n
      PROVE  words[i].prizeUnits <= words[n].prizeUnits
             /\ (i # n => words[i].prizeUnits # words[n].prizeUnits)
  <2>1. i = n \/ i < n
    BY <1>1
  <2>2. words[i].prizeUnits \in Nat /\ words[n].prizeUnits \in Nat
    BY <1>1, <1>2
  <2>3. QED BY <1>1, <1>2, <2>1, <2>2
<1>4. ASSUME NEW i \in 1..n PROVE WeightAt(words, i) \in Nat \ {0}
  <2>1. words[i].cumulativeWeight \in Nat /\ words[i].cumulativeWeight > Previous(words, i).cumulativeWeight
    BY <1>2 DEF Ascending, n
  <2>2. Previous(words, i).cumulativeWeight \in Nat
    <3>1. i = 1 \/ (i # 1 /\ i - 1 \in 1..n)
      BY <1>1
    <3>2. QED BY <1>2, <3>1 DEF Previous
  <2>3. QED BY <2>1, <2>2 DEF WeightAt
<1>5. QED BY <1>1, <1>2, <1>3, <1>4 DEF n

\* The words of a period that draw some units.
Times(drawn, units, total) == {r \in 0..(total - 1) : drawn[r] = units}

\* The top prize is the largest drawn, and drawn as often as its word has weight.
LEMMA TopPrize ==
  ASSUME NEW words, Ascending(words), Len(words) # 0, NEW missWeight \in Nat,
         NEW total, total = missWeight + words[Len(words)].cumulativeWeight,
         NEW drawn, DrawnFrom(drawn, words, missWeight, total)
  PROVE  /\ \A r \in 0..(total - 1) : drawn[r] \in Nat /\ drawn[r] <= words[Len(words)].prizeUnits
         /\ \A r \in 0..(total - 1) : drawn[r] = words[Len(words)].prizeUnits
                                        <=> Holds(words, r - missWeight, Len(words))
         /\ Cardinality(Times(drawn, words[Len(words)].prizeUnits, total)) = WeightAt(words, Len(words))
<1> DEFINE n == Len(words)
           top == words[n].prizeUnits
<1>1. /\ n \in Nat \ {0} /\ n \in 1..n
      /\ \A i \in 1..n : /\ words[i].prizeUnits \in Nat \ {0} /\ words[i].cumulativeWeight \in Nat \ {0}
                         /\ words[i].prizeUnits <= top
                         /\ i # n => words[i].prizeUnits # top
                         /\ WeightAt(words, i) \in Nat \ {0}
  BY TableFacts
<1> HIDE DEF n
<1>2. ASSUME NEW r \in 0..(total - 1)
      PROVE  /\ drawn[r] \in Nat /\ drawn[r] <= top
             /\ drawn[r] = top <=> Holds(words, r - missWeight, n)
  <2>1. CASE r < missWeight
    <3>1. drawn[r] = 0
      BY <2>1 DEF DrawnFrom
    <3>2. top \in Nat /\ top # 0
      BY <1>1
    <3>3. ~Holds(words, r - missWeight, n)
      <4>1. Previous(words, n).cumulativeWeight \in Nat
        <5>1. n = 1 \/ (n # 1 /\ n - 1 \in 1..n)
          BY <1>1
        <5>2. QED BY <1>1, <5>1 DEF Previous
      <4>2. r - missWeight < 0 /\ r - missWeight \in Int
        BY <2>1
      <4>3. QED BY <4>1, <4>2 DEF Holds
    <3>4. QED BY <3>1, <3>2, <3>3
  <2>2. CASE ~(r < missWeight)
    <3>1. r - missWeight \in Int /\ \E p : Holds(words, r - missWeight, p)
      BY <2>2, InTheTable
    <3>2. PICK p : Holds(words, r - missWeight, p)
      BY <3>1
    <3>3. drawn[r] = words[p].prizeUnits /\ p \in 1..n
      BY <3>2 DEF DrawnFrom, Holds, n
    <3>4. Holds(words, r - missWeight, n) => p = n
      BY <3>1, <3>2, HoldsOnce
    <3>5. QED BY <1>1, <3>2, <3>3, <3>4
  <2>3. QED BY <2>1, <2>2
<1>3. PICK a \in Nat, b \in Nat :
        a = missWeight + Previous(words, n).cumulativeWeight /\ b = total /\ a < b /\ b - a = WeightAt(words, n)
  <2>1. Previous(words, n).cumulativeWeight \in Nat
    <3>1. n = 1 \/ (n # 1 /\ n - 1 \in 1..n)
      BY <1>1
    <3>2. QED BY <1>1, <3>1 DEF Previous
  <2>2. words[n].cumulativeWeight \in Nat /\ WeightAt(words, n) \in Nat \ {0}
    BY <1>1
  <2>3. total = missWeight + words[n].cumulativeWeight
    BY DEF n
  <2>4. PICK x : x = missWeight + Previous(words, n).cumulativeWeight
    OBVIOUS
  <2>5. x \in Nat /\ total \in Nat /\ total - x = WeightAt(words, n)
    <3>1. WeightAt(words, n) = words[n].cumulativeWeight - Previous(words, n).cumulativeWeight
      BY DEF WeightAt
    <3>2. PICK y \in Nat, z \in Nat : y = Previous(words, n).cumulativeWeight /\ z = words[n].cumulativeWeight
      BY <2>1, <2>2
    <3>3. x = missWeight + y /\ total = missWeight + z /\ WeightAt(words, n) = z - y
      BY <2>3, <2>4, <3>1, <3>2
    <3>4. QED BY <3>3
  <2>6. x < total
    BY <2>2, <2>5
  <2>7. QED BY <2>4, <2>5, <2>6
<1>4. {r \in 0..(total - 1) : drawn[r] = top} = a..(b - 1)
  <2>1. words[n].cumulativeWeight \in Nat /\ total = missWeight + words[n].cumulativeWeight
    BY <1>1 DEF n
  <2>2. Previous(words, n).cumulativeWeight = a - missWeight
    <3>1. Previous(words, n).cumulativeWeight \in Nat
      <4>1. n = 1 \/ (n # 1 /\ n - 1 \in 1..n)
        BY <1>1
      <4>2. QED BY <1>1, <4>1 DEF Previous
    <3>2. QED BY <1>3, <3>1
  <2>3. ASSUME NEW r \in 0..(total - 1) PROVE Holds(words, r - missWeight, n) <=> r >= a
    <3>1. Holds(words, r - missWeight, n) <=> /\ a - missWeight <= r - missWeight
                                              /\ r - missWeight < words[n].cumulativeWeight
      BY <1>1, <2>2 DEF Holds, n
    <3>2. r \in Int /\ r < total
      BY <1>3
    <3>3. QED BY <1>3, <2>1, <3>1, <3>2
  <2>4. \A r : r \in a..(b - 1) <=> r \in 0..(total - 1) /\ r >= a
    BY <1>3
  <2> HIDE DEF top
  <2>5. QED BY <1>2, <2>3, <2>4
<1>5. Cardinality(a..(b - 1)) = b - a
  BY <1>3, SpanSize, Zenon
<1> HIDE DEF top
<1>6. Cardinality(Times(drawn, top, total)) = WeightAt(words, n)
  BY <1>3, <1>4, <1>5 DEF Times
<1>7. QED BY <1>2, <1>6 DEF n, top

\* A sum to n without its last term.
LEMMA SumWithout ==
  ASSUME NEW n \in Nat \ {0}, NEW f, \A i \in 1..n : f[i] \in Int,
         NEW g, \A i \in 1..n : g[i] = IF i = n THEN 0 ELSE f[i]
  PROVE  /\ SumFunctionOnSet(f, 1..n) \in Int
         /\ SumFunctionOnSet(g, 1..n) = SumFunctionOnSet(f, 1..n) - f[n]
<1>1. IsFiniteSet(1..n)
  BY FS_Interval
<1>2. n \in 1..n /\ f[n] \in Int /\ g[n] = 0
  OBVIOUS
<1>3. \A D, x : IsFiniteSet(D) /\ x \in D /\ (\A i \in D : f[i] \in Int)
                  /\ (\A i \in D \ {x} : g[i] = f[i]) /\ g[x] \in Int
                => SumFunctionOnSet(g, D) = SumFunctionOnSet(f, D) + g[x] - f[x]
  BY SumUpdate
<1>4. (\A i \in 1..n : f[i] \in Int) /\ (\A i \in (1..n) \ {n} : g[i] = f[i]) /\ g[n] \in Int
  BY <1>2
<1>5. SumFunctionOnSet(g, 1..n) = SumFunctionOnSet(f, 1..n) + g[n] - f[n]
  BY <1>1, <1>2, <1>3, <1>4, Zenon
<1>6. SumFunctionOnSet(f, 1..n) \in Int
  BY <1>1, <1>4, SumType
<1>7. QED BY <1>2, <1>5, <1>6

\* The prizes of a table without the top one, and their squares.
BodyOf(v, words) ==
  \A i \in 1..Len(words) : v[i] = IF i = Len(words) THEN 0 ELSE words[i].prizeUnits

SquaresOf(w, v, words) == \A i \in 1..Len(words) : w[i] = v[i] * v[i]

\* The sums over a table, and over its body.
LEMMA TableSums ==
  ASSUME NEW words, Ascending(words), Len(words) # 0,
         NEW topMass, topMass = words[Len(words)].prizeUnits * WeightAt(words, Len(words)),
         NEW v, BodyOf(v, words), NEW f, Weighted(f, v, words),
         NEW w, SquaresOf(w, v, words), NEW g, Weighted(g, w, words)
  PROVE  /\ PrizeSum(words) \in Int /\ SquaredPrizeSum(words) \in Int /\ topMass \in Int
         /\ SumFunctionOnSet(f, 1..Len(words)) = PrizeSum(words) - topMass
         /\ SumFunctionOnSet(g, 1..Len(words)) = SquaredPrizeSum(words) - topMass * words[Len(words)].prizeUnits
<1>0. PICK n : n = Len(words)
  OBVIOUS
<1>1. /\ n \in Nat \ {0} /\ n \in 1..n
      /\ \A i \in 1..n : words[i].prizeUnits \in Int /\ WeightAt(words, i) \in Int
  BY <1>0, TableFacts
<1>2. IsFiniteSet(1..n)
  BY <1>1, FS_Interval
<1>3. PICK p : p = [i \in 1..n |-> words[i].prizeUnits * WeightAt(words, i)]
  OBVIOUS
<1>4. PICK s : s = [i \in 1..n |-> words[i].prizeUnits * words[i].prizeUnits * WeightAt(words, i)]
  OBVIOUS
<1>5. PrizeSum(words) = SumFunctionOnSet(p, 1..n) /\ SquaredPrizeSum(words) = SumFunctionOnSet(s, 1..n)
  <2>1. DOMAIN words = 1..n
    BY <1>0 DEF Ascending
  <2>2. QED BY <1>3, <1>4, <2>1 DEF PrizeSum, SquaredPrizeSum
<1>6. ASSUME NEW i \in 1..n
      PROVE  /\ p[i] \in Int /\ s[i] \in Int /\ f[i] \in Int /\ g[i] \in Int
             /\ i # n => f[i] = p[i] /\ g[i] = s[i]
             /\ i = n => f[i] = 0 /\ g[i] = 0 /\ p[i] = topMass /\ s[i] = topMass * words[n].prizeUnits
  <2>1. PICK a \in Int, b \in Int : a = words[i].prizeUnits /\ b = WeightAt(words, i)
    BY <1>1
  <2>2. p[i] = a * b /\ s[i] = a * a * b
    BY <1>3, <1>4, <2>1
  <2>3. v[i] = IF i = n THEN 0 ELSE a
    BY <1>0, <2>1 DEF BodyOf
  <2>4. f[i] = v[i] * b /\ g[i] = (v[i] * v[i]) * b
    BY <1>0, <2>1 DEF Weighted, SquaresOf
  <2>5. a * b \in Int /\ a * a * b \in Int /\ a * a * b = (a * b) * a /\ 0 * b = 0 /\ (0 * 0) * b = 0
    OBVIOUS
  <2>6. i = n => topMass = a * b
    BY <1>0, <2>1
  <2>7. CASE i = n
    BY <2>1, <2>2, <2>3, <2>4, <2>5, <2>6, <2>7
  <2>8. CASE i # n
    BY <2>2, <2>3, <2>4, <2>5, <2>8
  <2>9. QED BY <2>7, <2>8
<1>7. (\A i \in 1..n : p[i] \in Int) /\ (\A i \in 1..n : f[i] = IF i = n THEN 0 ELSE p[i])
  BY <1>6
<1>8. (\A i \in 1..n : s[i] \in Int) /\ (\A i \in 1..n : g[i] = IF i = n THEN 0 ELSE s[i])
  BY <1>6
<1>9. /\ SumFunctionOnSet(p, 1..n) \in Int
      /\ SumFunctionOnSet(f, 1..n) = SumFunctionOnSet(p, 1..n) - p[n]
  BY <1>1, <1>7, SumWithout, Zenon
<1>10. /\ SumFunctionOnSet(s, 1..n) \in Int
       /\ SumFunctionOnSet(g, 1..n) = SumFunctionOnSet(s, 1..n) - s[n]
  BY <1>1, <1>8, SumWithout, Zenon
<1>11. p[n] = topMass /\ p[n] \in Int /\ s[n] = topMass * words[n].prizeUnits
  BY <1>1, <1>6
<1>12. QED BY <1>0, <1>5, <1>9, <1>10, <1>11, Zenon

\* The same for the prizes of a period.
Bodies(body, drawn, words, total) ==
  \A r \in 0..(total - 1) :
    body[r] = IF drawn[r] = words[Len(words)].prizeUnits THEN 0 ELSE drawn[r]

Squares(squares, body, total) == \A r \in 0..(total - 1) : squares[r] = body[r] * body[r]

\* What the prizes of a period add up to, with and without the top prize.
LEMMA PeriodFigures ==
  ASSUME NEW words, NEW missWeight, NEW total, TableOf(words, missWeight, total),
         NEW drawn, DrawnFrom(drawn, words, missWeight, total),
         NEW body, Bodies(body, drawn, words, total), NEW squares, Squares(squares, body, total),
         NEW topMass, topMass = words[Len(words)].prizeUnits * WeightAt(words, Len(words))
  PROVE  /\ PrizeSum(words) \in Int /\ SquaredPrizeSum(words) \in Int /\ topMass \in Int
         /\ SumFunctionOnSet(drawn, 0..(total - 1)) = PrizeSum(words)
         /\ SumFunctionOnSet(body, 0..(total - 1)) = PrizeSum(words) - topMass
         /\ SumFunctionOnSet(squares, 0..(total - 1)) =
              SquaredPrizeSum(words) - topMass * words[Len(words)].prizeUnits
<1>0. Ascending(words) /\ Len(words) # 0 /\ missWeight \in Nat
      /\ total = missWeight + words[Len(words)].cumulativeWeight
  BY DEF TableOf
<1>1. PICK n : n = Len(words)
  OBVIOUS
<1>2. /\ n \in Nat \ {0} /\ n \in 1..n
      /\ \A i \in 1..n : /\ words[i].prizeUnits \in Int /\ WeightAt(words, i) \in Int
                         /\ i # n => words[i].prizeUnits # words[n].prizeUnits
  BY ONLY <1>0, <1>1, TableFacts
<1>3. PICK v : v = [i \in 1..n |-> IF i = n THEN 0 ELSE words[i].prizeUnits]
  OBVIOUS
<1>4. PICK w : w = [i \in 1..n |-> v[i] * v[i]]
  OBVIOUS
<1>5. PICK f : f = [i \in 1..n |-> v[i] * WeightAt(words, i)]
  OBVIOUS
<1>6. PICK g : g = [i \in 1..n |-> w[i] * WeightAt(words, i)]
  OBVIOUS
<1>7. PICK u : u = [i \in 1..n |-> words[i].prizeUnits]
  OBVIOUS
<1>8. PICK e : e = [i \in 1..n |-> words[i].prizeUnits * WeightAt(words, i)]
  OBVIOUS
<1>9. \A i \in 1..n : v[i] = (IF i = n THEN 0 ELSE words[i].prizeUnits) /\ v[i] \in Int
  BY <1>2, <1>3
<1>10. \A i \in 1..n : w[i] = v[i] * v[i] /\ w[i] \in Int
  BY <1>4, <1>9
<1>11. \A i \in 1..n : f[i] = v[i] * WeightAt(words, i)
  BY <1>5
<1>12. \A i \in 1..n : g[i] = w[i] * WeightAt(words, i)
  BY <1>6
<1>13. \A i \in 1..n : u[i] = words[i].prizeUnits /\ u[i] \in Int
  BY <1>2, <1>7
<1>14. \A i \in 1..n : e[i] = u[i] * WeightAt(words, i)
  BY <1>7, <1>8
<1>16. SumFunctionOnSet(e, 1..n) = PrizeSum(words)
  <2>1. DOMAIN words = 1..n
    BY <1>0, <1>1 DEF Ascending
  <2>2. QED BY <1>8, <2>1 DEF PrizeSum
<1>17. \A r, p : Holds(words, r, p) => p \in 1..n
  BY <1>1 DEF Holds
<1>18. \A r \in 0..(total - 1) : /\ r < missWeight => drawn[r] = 0
                                 /\ \A p : Holds(words, r - missWeight, p) => drawn[r] = u[p]
  BY <1>13, <1>17 DEF DrawnFrom
<1>19. \A r \in 0..(total - 1) : /\ r < missWeight => body[r] = 0
                                 /\ \A p : Holds(words, r - missWeight, p) => body[r] = v[p]
  <2>1. ASSUME NEW r \in 0..(total - 1), r < missWeight PROVE body[r] = 0
    BY <1>18, <2>1 DEF Bodies
  <2>2. ASSUME NEW r \in 0..(total - 1), NEW p, Holds(words, r - missWeight, p) PROVE body[r] = v[p]
    <3>1. p \in 1..n /\ drawn[r] = words[p].prizeUnits
      BY <1>17, <2>2 DEF DrawnFrom
    <3>2. body[r] = IF drawn[r] = words[n].prizeUnits THEN 0 ELSE drawn[r]
      BY <1>1 DEF Bodies
    <3>3. drawn[r] = words[n].prizeUnits <=> p = n
      BY <1>2, <3>1
    <3>4. QED BY <1>9, <3>1, <3>2, <3>3
  <2>3. QED BY <2>1, <2>2
<1>20. \A r \in 0..(total - 1) : /\ r < missWeight => squares[r] = 0
                                 /\ \A p : Holds(words, r - missWeight, p) => squares[r] = w[p]
  <2>1. ASSUME NEW r \in 0..(total - 1), r < missWeight PROVE squares[r] = 0
    <3>1. squares[r] = body[r] * body[r] /\ body[r] = 0
      BY <1>19, <2>1 DEF Squares
    <3>2. QED BY <3>1
  <2>2. ASSUME NEW r \in 0..(total - 1), NEW p, Holds(words, r - missWeight, p) PROVE squares[r] = w[p]
    <3>1. body[r] = v[p] /\ p \in 1..n
      BY <1>17, <1>19, <2>2
    <3>2. squares[r] = body[r] * body[r]
      BY DEF Squares
    <3>3. w[p] = v[p] * v[p]
      BY <1>10, <3>1
    <3>4. QED BY <3>1, <3>2, <3>3, Zenon
  <2>3. QED BY <2>1, <2>2
<1>21. /\ Weighted(e, u, words) /\ Weighted(f, v, words) /\ Weighted(g, w, words)
       /\ BodyOf(v, words) /\ SquaresOf(w, v, words)
  BY <1>1, <1>9, <1>10, <1>11, <1>12, <1>13, <1>14, Zenon DEF Weighted, BodyOf, SquaresOf
<1>22. /\ Spread(drawn, u, words, missWeight, total)
       /\ Spread(body, v, words, missWeight, total)
       /\ Spread(squares, w, words, missWeight, total)
  BY <1>18, <1>19, <1>20, Zenon DEF Spread
<1>23. SumFunctionOnSet(drawn, 0..(total - 1)) = SumFunctionOnSet(e, 1..Len(words))
  BY <1>21, <1>22, PeriodSum, SMT
<1>24. SumFunctionOnSet(body, 0..(total - 1)) = SumFunctionOnSet(f, 1..Len(words))
  BY <1>21, <1>22, PeriodSum, SMT
<1>25. SumFunctionOnSet(squares, 0..(total - 1)) = SumFunctionOnSet(g, 1..Len(words))
  BY <1>21, <1>22, PeriodSum, SMT
<1>26. /\ PrizeSum(words) \in Int /\ SquaredPrizeSum(words) \in Int /\ topMass \in Int
       /\ SumFunctionOnSet(f, 1..Len(words)) = PrizeSum(words) - topMass
       /\ SumFunctionOnSet(g, 1..Len(words)) = SquaredPrizeSum(words) - topMass * words[Len(words)].prizeUnits
  BY <1>0, <1>21, TableSums
<1>27. SumFunctionOnSet(e, 1..Len(words)) = PrizeSum(words)
  BY <1>1, <1>16
<1>28. QED BY <1>23, <1>24, <1>25, <1>26, <1>27, Zenon

LEMMA Ceiling ==
  ASSUME NEW x \in Int, NEW y \in Nat \ {0}
  PROVE  /\ CeilDivide(x, y) \in Int
         /\ x <= CeilDivide(x, y) * y
         /\ (CeilDivide(x, y) - 1) * y < x
<1>1. PICK q \in Int : q = (x + y - 1) \div y
  OBVIOUS
<1>2. q * y <= x + y - 1 /\ x + y - 1 < q * y + y
  BY <1>1
<1>3. (q - 1) * y = q * y - y /\ q * y \in Int
  OBVIOUS
<1>4. QED BY <1>1, <1>2, <1>3 DEF CeilDivide

-----------------------------------------------------------------------------
(* What the deployer derives.                                              *)

\* c is what the deployer writes of some chunks that it accepts.
Figures(c, seqs) ==
  LET words == Words(seqs)
  IN  /\ seqs \in Seq(Seq(TableWord)) /\ seqs # <<>> /\ WalkAccepts(seqs)
      /\ TableOf(words, c.missWeight, c.totalWeight)
      /\ c.prizeDenominator \in Nat \ {0}
      /\ c.topPrizeUnits = words[Len(words)].prizeUnits
      /\ c.topPrizeWeight = WeightAt(words, Len(words))
      /\ c.prizeSum = PrizeSum(words)
      /\ c.bodyVarianceWad = BodyVarianceWad(words, c.totalWeight, c.prizeDenominator)
      /\ c.chunks = Pointed(seqs)

DerivedFrom(c, seqs) == Figures(c, seqs) /\ c.prizeSum < c.prizeDenominator * c.totalWeight

LEMMA Deriving ==
  ASSUME NEW input, NEW b, NEW words, words = Words(input.chunks),
         NEW total, total = input.missWeight + words[Len(words)].cumulativeWeight,
         NEW c, c = [prizeDenominator |-> input.prizeDenominator, missWeight |-> input.missWeight,
                     totalWeight |-> total,
                     topPrizeUnits |-> words[Len(words)].prizeUnits,
                     topPrizeWeight |-> WeightAt(words, Len(words)),
                     prizeSum |-> PrizeSum(words),
                     bodyVarianceWad |-> BodyVarianceWad(words, total, input.prizeDenominator),
                     chunks |-> Pointed(input.chunks)]
  PROVE  DeriveConfiguration(input, b) =
           IF /\ input.prizeDenominator # 0 /\ input.chunks # <<>> /\ WalkAccepts(input.chunks)
              /\ PrizeSum(words) < input.prizeDenominator * total
              /\ PrizeSum(words) * WAD >= b.minRtpWad * (input.prizeDenominator * total)
              /\ PrizeSum(words) * WAD <= b.maxRtpWad * (input.prizeDenominator * total)
              /\ total <= UINT64_MAX
           THEN {c} ELSE {}
BY Zenon DEF DeriveConfiguration, Pointed

LEMMA Derives ==
  ASSUME NEW input \in TableInput, NEW b, NEW c \in DeriveConfiguration(input, b)
  PROVE  DerivedFrom(c, input.chunks)
<1> DEFINE seqs == input.chunks
<1>1. PICK words : words = Words(seqs)
  OBVIOUS
<1>2. PICK n : n = Len(words)
  OBVIOUS
<1>3. PICK total : total = input.missWeight + words[n].cumulativeWeight
  OBVIOUS
<1>4. /\ input.prizeDenominator \in Nat \ {0} /\ input.missWeight \in Nat
      /\ seqs \in Seq(Seq(TableWord)) /\ seqs # <<>> /\ WalkAccepts(seqs)
      /\ PrizeSum(words) < input.prizeDenominator * total
      /\ c = [prizeDenominator |-> input.prizeDenominator, missWeight |-> input.missWeight,
              totalWeight |-> total,
              topPrizeUnits |-> words[n].prizeUnits,
              topPrizeWeight |-> WeightAt(words, n),
              prizeSum |-> PrizeSum(words),
              bodyVarianceWad |-> BodyVarianceWad(words, total, input.prizeDenominator),
              chunks |-> Pointed(seqs)]
  <2>1. input.prizeDenominator \in Nat /\ input.missWeight \in Nat /\ seqs \in Seq(Seq(TableWord))
    BY DEF TableInput
  <2>2. /\ input.prizeDenominator # 0 /\ seqs # <<>> /\ WalkAccepts(seqs)
        /\ PrizeSum(words) < input.prizeDenominator * total
        /\ c \in {[prizeDenominator |-> input.prizeDenominator, missWeight |-> input.missWeight,
                   totalWeight |-> total,
                   topPrizeUnits |-> words[n].prizeUnits,
                   topPrizeWeight |-> WeightAt(words, n),
                   prizeSum |-> PrizeSum(words),
                   bodyVarianceWad |-> BodyVarianceWad(words, total, input.prizeDenominator),
                   chunks |-> Pointed(seqs)]}
    BY <1>1, <1>2, <1>3, Zenon DEF DeriveConfiguration, Pointed
  <2>3. QED BY <2>1, <2>2
<1>5. Ascending(words) /\ n \in Nat \ {0}
  BY <1>1, <1>2, <1>4, WalkOrders
<1>6. TableOf(words, input.missWeight, total)
  BY <1>2, <1>3, <1>4, <1>5 DEF TableOf
<1> HIDE DEF seqs
<1>7. /\ c.prizeDenominator = input.prizeDenominator /\ c.missWeight = input.missWeight
      /\ c.totalWeight = total /\ c.topPrizeUnits = words[n].prizeUnits
      /\ c.topPrizeWeight = WeightAt(words, n) /\ c.prizeSum = PrizeSum(words)
      /\ c.bodyVarianceWad = BodyVarianceWad(words, total, input.prizeDenominator)
      /\ c.chunks = Pointed(seqs)
  BY <1>4
<1>8. DerivedFrom(c, seqs)
  BY <1>1, <1>2, <1>4, <1>6, <1>7 DEF DerivedFrom, Figures
<1>9. QED BY <1>8 DEF seqs

\* ChunkSearch of a configuration that was derived.
LEMMA SamplesAWord ==
  ASSUME NEW seqs, NEW c, NEW t, NEW r, seqs \in Seq(Seq(TableWord)), seqs # <<>>, WalkAccepts(seqs),
         t \in Int, 0 <= t, t < Last(Words(seqs)).cumulativeWeight, Aims(c, r, t),
         c.chunks = Pointed(seqs)
  PROVE  \E p : Holds(Words(seqs), t, p) /\ SamplePrize(c, r) = {Words(seqs)[p].prizeUnits}
BY ChunkSearch, SMT

\* What the engine draws over a period.
LEMMA DrawsFromTheTable ==
  ASSUME NEW c, NEW seqs, DerivedFrom(c, seqs),
         NEW drawn, \A r \in 0..(c.totalWeight - 1) : drawn[r] = CHOOSE u \in SamplePrize(c, r) : TRUE
  PROVE  /\ \A r \in 0..(c.totalWeight - 1) : SamplePrize(c, r) # {}
         /\ DrawnFrom(drawn, Words(seqs), c.missWeight, c.totalWeight)
<1>1. PICK words : words = Words(seqs)
  OBVIOUS
<1>2. PICK missWeight, total : missWeight = c.missWeight /\ total = c.totalWeight
  OBVIOUS
<1>3. /\ Ascending(words) /\ Len(words) # 0 /\ missWeight \in Nat
      /\ total = missWeight + words[Len(words)].cumulativeWeight
      /\ seqs \in Seq(Seq(TableWord)) /\ seqs # <<>> /\ WalkAccepts(seqs) /\ c.chunks = Pointed(seqs)
  BY <1>1, <1>2 DEF DerivedFrom, Figures, TableOf
<1>4. total \in Nat \ {0}
  <2>1. Len(words) \in 1..Len(words)
    BY <1>3 DEF Ascending
  <2>2. words[Len(words)].cumulativeWeight \in Nat \ {0}
    BY <1>3, <2>1, AscendingOrders
  <2>3. QED BY <1>3, <2>2
<1>5. ASSUME NEW r \in 0..(total - 1)
      PROVE  /\ r < missWeight => SamplePrize(c, r) = {0}
             /\ ~(r < missWeight) => \E p : /\ Holds(words, r - missWeight, p)
                                            /\ SamplePrize(c, r) = {words[p].prizeUnits}
  <2>1. r % total = r
    BY <1>4
  <2>2. ASSUME r < missWeight PROVE SamplePrize(c, r) = {0}
    <3>1. (r % c.totalWeight) - c.missWeight < 0
      BY <1>2, <1>3, <2>1, <2>2
    <3>2. QED BY <3>1 DEF SamplePrize
  <2>3. ASSUME ~(r < missWeight)
        PROVE  \E p : Holds(words, r - missWeight, p) /\ SamplePrize(c, r) = {words[p].prizeUnits}
    <3>1. r - missWeight \in Nat /\ r - missWeight < words[Len(words)].cumulativeWeight
      BY <1>3, <2>3, InTheTable
    <3>2. Last(words) = words[Len(words)]
      BY DEF Last
    <3>3. PICK t \in Int : t = r - missWeight
      BY <3>1
    <3>4. 0 <= t /\ t < Last(Words(seqs)).cumulativeWeight /\ Aims(c, r, t)
      BY <1>1, <1>2, <2>1, <3>1, <3>2, <3>3 DEF Aims
    <3>5. t \in Int /\ seqs \in Seq(Seq(TableWord)) /\ seqs # <<>> /\ WalkAccepts(seqs) /\ c.chunks = Pointed(seqs)
      BY <1>3, Zenon
    <3>7. \E p : Holds(Words(seqs), t, p) /\ SamplePrize(c, r) = {Words(seqs)[p].prizeUnits}
      BY ONLY <3>4, <3>5, SamplesAWord
    <3>6. QED BY <1>1, <3>3, <3>7
  <2>4. QED BY <2>2, <2>3
<1>6. ASSUME NEW r \in 0..(total - 1)
      PROVE  /\ SamplePrize(c, r) # {}
             /\ r < missWeight => drawn[r] = 0
             /\ \A p : Holds(words, r - missWeight, p) => drawn[r] = words[p].prizeUnits
  <2>1. \A u : SamplePrize(c, r) = {u} => drawn[r] = u
    BY <1>2
  <2>2. CASE r < missWeight
    <3>1. drawn[r] = 0 /\ SamplePrize(c, r) # {}
      BY <1>5, <2>1, <2>2
    <3>2. ASSUME NEW p, Holds(words, r - missWeight, p) PROVE FALSE
      <4>1. Previous(words, p).cumulativeWeight \in Nat
        <5>1. p = 1 \/ (p # 1 /\ p - 1 \in 1..Len(words))
          BY <1>3, <3>2 DEF Holds, Ascending
        <5>2. QED BY <1>3, <5>1, AscendingOrders DEF Previous
      <4>2. QED BY <1>3, <2>2, <3>2, <4>1 DEF Holds
    <3>3. QED BY <2>2, <3>1, <3>2
  <2>3. CASE ~(r < missWeight)
    <3>1. PICK p : Holds(words, r - missWeight, p) /\ SamplePrize(c, r) = {words[p].prizeUnits}
      BY <1>5, <2>3
    <3>2. r - missWeight \in Int
      BY <1>3
    <3>3. \A q : Holds(words, r - missWeight, q) => q = p
      BY <1>3, <3>1, <3>2, HoldsOnce
    <3>4. drawn[r] = words[p].prizeUnits
      BY <2>1, <3>1
    <3>5. QED BY <2>3, <3>1, <3>3, <3>4
  <2>4. QED BY <2>2, <2>3
<1>7. QED BY <1>1, <1>2, <1>6 DEF DrawnFrom

\* The figures quoted are those of a period.
LEMMA FiguresOfAPeriod ==
  ASSUME NEW c, NEW seqs, DerivedFrom(c, seqs),
         NEW drawn, DrawnFrom(drawn, Words(seqs), c.missWeight, c.totalWeight),
         NEW body, \A r \in 0..(c.totalWeight - 1) :
                     body[r] = IF drawn[r] = c.topPrizeUnits THEN 0 ELSE drawn[r],
         NEW squares, Squares(squares, body, c.totalWeight),
         NEW scale, scale = c.prizeDenominator * c.prizeDenominator * c.totalWeight * c.totalWeight,
         NEW variance, variance = SumFunctionOnSet(squares, 0..(c.totalWeight - 1)) * c.totalWeight
                                    - SumFunctionOnSet(body, 0..(c.totalWeight - 1))
                                        * SumFunctionOnSet(body, 0..(c.totalWeight - 1))
  PROVE  /\ SumFunctionOnSet(drawn, 0..(c.totalWeight - 1)) = c.prizeSum
         /\ \A r \in 0..(c.totalWeight - 1) : drawn[r] <= c.topPrizeUnits
         /\ Cardinality(Times(drawn, c.topPrizeUnits, c.totalWeight)) = c.topPrizeWeight
         /\ variance * WAD <= c.bodyVarianceWad * scale
         /\ (c.bodyVarianceWad - 1) * scale < variance * WAD
<1>1. PICK words : words = Words(seqs)
  OBVIOUS
<1>2. PICK missWeight, total, n, denominator :
        missWeight = c.missWeight /\ total = c.totalWeight /\ n = Len(words) /\ denominator = c.prizeDenominator
  OBVIOUS
<1>3. /\ TableOf(words, missWeight, total) /\ denominator \in Nat \ {0}
      /\ c.topPrizeUnits = words[n].prizeUnits /\ c.topPrizeWeight = WeightAt(words, n)
      /\ c.prizeSum = PrizeSum(words) /\ c.bodyVarianceWad = BodyVarianceWad(words, total, denominator)
  BY <1>1, <1>2 DEF DerivedFrom, Figures
<1>4. /\ Ascending(words) /\ Len(words) # 0 /\ missWeight \in Nat
      /\ total = missWeight + words[Len(words)].cumulativeWeight
  BY <1>3 DEF TableOf
<1>5. DrawnFrom(drawn, words, missWeight, total)
  BY <1>1, <1>2
<1>6. /\ \A r \in 0..(total - 1) : drawn[r] <= words[n].prizeUnits
      /\ Cardinality(Times(drawn, words[n].prizeUnits, total)) = WeightAt(words, n)
  BY ONLY <1>2, <1>4, <1>5, TopPrize
<1>7. PICK topMass : topMass = words[Len(words)].prizeUnits * WeightAt(words, Len(words))
  OBVIOUS
<1>8. Bodies(body, drawn, words, total) /\ Squares(squares, body, total)
  <2>1. Squares(squares, body, total)
    BY <1>2, Zenon
  <2>2. \A r \in 0..(total - 1) : body[r] = IF drawn[r] = words[Len(words)].prizeUnits THEN 0 ELSE drawn[r]
    BY <1>2, <1>3, Zenon
  <2>3. QED BY <2>1, <2>2, Zenon DEF Bodies
<1>9. /\ PrizeSum(words) \in Int /\ SquaredPrizeSum(words) \in Int /\ topMass \in Int
      /\ SumFunctionOnSet(drawn, 0..(total - 1)) = PrizeSum(words)
      /\ SumFunctionOnSet(body, 0..(total - 1)) = PrizeSum(words) - topMass
      /\ SumFunctionOnSet(squares, 0..(total - 1)) =
           SquaredPrizeSum(words) - topMass * words[Len(words)].prizeUnits
  BY ONLY <1>3, <1>5, <1>7, <1>8, PeriodFigures
<1>10. total \in Nat \ {0} /\ words[n].prizeUnits \in Int
  <2>1. n \in 1..n /\ words[n].cumulativeWeight \in Nat \ {0} /\ words[n].prizeUnits \in Int
    BY <1>2, <1>4, TableFacts
  <2>2. QED BY <1>2, <1>4, <2>1
<1>11. PICK q \in Int : q = variance
  <2>1. PICK x \in Int, y \in Int : x = SumFunctionOnSet(squares, 0..(total - 1)) /\ y = SumFunctionOnSet(body, 0..(total - 1))
    BY <1>2, <1>9, <1>10
  <2>2. variance = x * total - y * y
    BY <1>2, <2>1
  <2>3. QED BY <1>10, <2>2
<1>12. scale \in Nat \ {0}
  <2>1. scale = denominator * denominator * total * total
    BY <1>2
  <2>2. \A x, y \in Nat \ {0} : x * y \in Nat \ {0}
    OBVIOUS
  <2>3. QED BY <1>3, <1>10, <2>1, <2>2, Zenon
<1>13. BodyVarianceWad(words, total, denominator) = CeilDivide(q * WAD, scale)
  <2>1. BodyVarianceWad(words, total, denominator) =
          CeilDivide(((SquaredPrizeSum(words) - topMass * words[n].prizeUnits) * total
                        - (PrizeSum(words) - topMass) * (PrizeSum(words) - topMass)) * WAD,
                     denominator * denominator * total * total)
    BY <1>2, <1>7, Zenon DEF BodyVarianceWad
  <2>2. variance = (SquaredPrizeSum(words) - topMass * words[n].prizeUnits) * total
                     - (PrizeSum(words) - topMass) * (PrizeSum(words) - topMass)
    BY <1>2, <1>9, Zenon
  <2>3. scale = denominator * denominator * total * total
    BY <1>2
  <2>4. QED BY <1>11, <2>1, <2>2, <2>3, Zenon
<1>14. q * WAD \in Int
  BY SlotTableAssumption
<1>15. /\ q * WAD <= CeilDivide(q * WAD, scale) * scale
       /\ (CeilDivide(q * WAD, scale) - 1) * scale < q * WAD
  BY ONLY <1>12, <1>14, Ceiling
<1>16. c.bodyVarianceWad = CeilDivide(q * WAD, scale)
  BY <1>3, <1>13, Zenon
<1>17. QED BY <1>2, <1>3, <1>6, <1>9, <1>11, <1>15, <1>16, Zenon

-----------------------------------------------------------------------------
(* What a client reads back.                                               *)

ReadTier == [prizeUnits : Nat, weight : Int, cumulativeWeight : Nat]

Unpacked(seqs) ==
  [k \in DOMAIN seqs |->
     UnpackChunk(seqs[k], IF k = 1 THEN 0 ELSE Last(seqs[k - 1]).cumulativeWeight)]

\* The tiers of a table are its words, each with the weight it adds.
TiersOf(tiers, words) ==
  /\ Len(tiers) = Len(words)
  /\ \A p \in 1..Len(words) : /\ tiers[p].prizeUnits = words[p].prizeUnits
                              /\ tiers[p].weight = WeightAt(words, p)
                              /\ tiers[p].cumulativeWeight = words[p].cumulativeWeight

\* Two rows of sequences of the same lengths start in the same places.
LEMMA RowsAlign ==
  ASSUME NEW all, NEW seqs, NEW o, LaidOut(all, seqs, o), NEW rest, NEW others, NEW q, LaidOut(rest, others, q),
         Len(seqs) \in Nat, Len(others) = Len(seqs), \A k \in 1..Len(seqs) : Len(others[k]) = Len(seqs[k])
  PROVE  Len(rest) = Len(all) /\ \A k \in 1..Len(seqs) : o[k] = q[k]
<1> DEFINE N == Len(seqs)
           P == {k \in 1..(N + 1) : o[k] = q[k]}
<1>1. /\ o[1] = 0 /\ q[1] = 0 /\ o[N + 1] = Len(all) /\ q[N + 1] = Len(rest)
      /\ \A k \in 1..N : o[k + 1] = o[k] + Len(seqs[k]) /\ q[k + 1] = q[k] + Len(seqs[k])
  BY DEF LaidOut
<1> HIDE DEF N
<1>2. ASSUME NEW k \in 1..(N + 1), 1..(k - 1) \subseteq P PROVE k \in P
  <2>1. CASE k = 1
    BY <1>1, <2>1
  <2>2. CASE k # 1
    <3>1. PICK j \in 1..N : k = j + 1
      <4>1. k - 1 \in 1..N /\ k = (k - 1) + 1
        BY <2>2 DEF N
      <4>2. QED BY <4>1
    <3>2. j \in 1..(k - 1)
      BY <3>1
    <3>3. o[j] = q[j]
      BY <1>2, <3>2
    <3>4. o[k] = q[k]
      BY <1>1, <3>1, <3>3
    <3>5. QED BY <3>4
  <2>3. QED BY <2>1, <2>2
<1> HIDE DEF P
<1>3. 1..(N + 1) \subseteq P
  <2>1. N + 1 \in Nat
    BY DEF N
  <2>2. QED BY <1>2, <2>1, UpTo
<1>4. \A k \in 1..(N + 1) : o[k] = q[k]
  BY <1>3 DEF P
<1>5. N + 1 \in 1..(N + 1) /\ \A k \in 1..N : k \in 1..(N + 1)
  BY DEF N
<1>6. QED BY <1>1, <1>4, <1>5 DEF N

\* Unpacking chunk by chunk, each from where the last one ended, gives them.
LEMMA UnpackedTable ==
  ASSUME NEW seqs \in Seq(Seq(TableWord)), seqs # <<>>, WalkAccepts(seqs)
  PROVE  TiersOf(FlattenSeq(Unpacked(seqs)), Words(seqs)) /\ FlattenSeq(Unpacked(seqs)) \in Seq(ReadTier)
<1> DEFINE N == Len(seqs)
           words == Words(seqs)
           parts == Unpacked(seqs)
           tiers == FlattenSeq(parts)
           before(k) == IF k = 1 THEN 0 ELSE Last(seqs[k - 1]).cumulativeWeight
<1>1. /\ Ascending(words) /\ N \in Nat \ {0} /\ DOMAIN seqs = 1..N
      /\ \A k \in 1..N : Len(seqs[k]) \in Nat \ {0} /\ seqs[k] \in Seq(TableWord)
  BY WalkOrders
<1>2. PICK o : LaidOut(words, seqs, o)
  BY WalkOrders
<1>3. \A k \in 1..N : \A j \in 1..Len(seqs[k]) :
        seqs[k][j].prizeUnits \in Nat /\ seqs[k][j].cumulativeWeight \in Nat
  <2>1. ASSUME NEW k \in 1..N, NEW j \in 1..Len(seqs[k])
        PROVE  seqs[k][j].prizeUnits \in Nat /\ seqs[k][j].cumulativeWeight \in Nat
    <3>1. PICK w \in Seq(TableWord) : w = seqs[k]
      BY <1>1
    <3>2. w[j] \in TableWord
      BY <3>1
    <3>3. QED BY <3>1, <3>2 DEF TableWord
  <2>2. QED BY <2>1
<1>4. \A k \in 1..N : before(k) \in Nat
  <2>1. ASSUME NEW k \in 1..N, k # 1 PROVE Last(seqs[k - 1]).cumulativeWeight \in Nat
    <3>1. k - 1 \in 1..N
      BY <1>1, <2>1
    <3>2. Len(seqs[k - 1]) \in 1..Len(seqs[k - 1])
      BY <1>1, <3>1
    <3>3. QED BY <1>3, <3>1, <3>2 DEF Last
  <2>2. QED BY <2>1
<1>5. \A k \in 1..N : parts[k] = UnpackChunk(seqs[k], before(k))
  BY <1>1 DEF Unpacked
<1>6. DOMAIN parts = 1..N
  BY <1>1 DEF Unpacked
<1> HIDE DEF N, words, parts, before
<1>7. ASSUME NEW k \in 1..N
      PROVE  /\ parts[k] \in Seq(ReadTier) /\ Len(parts[k]) = Len(seqs[k])
             /\ \A j \in 1..Len(seqs[k]) :
                  /\ parts[k][j].prizeUnits = seqs[k][j].prizeUnits
                  /\ parts[k][j].cumulativeWeight = seqs[k][j].cumulativeWeight
                  /\ parts[k][j].weight = seqs[k][j].cumulativeWeight
                       - (IF j = 1 THEN before(k) ELSE seqs[k][j - 1].cumulativeWeight)
  <2>1. PICK l \in Nat : l = Len(seqs[k]) /\ DOMAIN seqs[k] = 1..l
    BY <1>1
  <2>2. parts[k] = [j \in 1..l |->
                      [prizeUnits |-> seqs[k][j].prizeUnits,
                       weight |-> seqs[k][j].cumulativeWeight
                                  - (IF j = 1 THEN before(k) ELSE seqs[k][j - 1].cumulativeWeight),
                       cumulativeWeight |-> seqs[k][j].cumulativeWeight]]
    BY <1>5, <2>1 DEF UnpackChunk
  <2>3. ASSUME NEW j \in 1..l
        PROVE  (IF j = 1 THEN before(k) ELSE seqs[k][j - 1].cumulativeWeight) \in Nat
    <3>1. j = 1 \/ j - 1 \in 1..l
      BY <2>1
    <3>2. QED BY <1>3, <1>4, <2>1, <3>1
  <2>4. \A j \in 1..l : parts[k][j] \in ReadTier
    <3>1. ASSUME NEW j \in 1..l PROVE parts[k][j] \in ReadTier
      <4>1. PICK x \in Nat : x = IF j = 1 THEN before(k) ELSE seqs[k][j - 1].cumulativeWeight
        BY <2>3
      <4>2. parts[k][j] = [prizeUnits |-> seqs[k][j].prizeUnits,
                           weight |-> seqs[k][j].cumulativeWeight - x,
                           cumulativeWeight |-> seqs[k][j].cumulativeWeight]
        BY <2>2, <4>1
      <4>3. seqs[k][j].prizeUnits \in Nat /\ seqs[k][j].cumulativeWeight \in Nat
        BY <1>3, <2>1
      <4>4. QED BY <4>2, <4>3 DEF ReadTier
    <3>2. QED BY <3>1
  <2>5. parts[k] \in Seq(ReadTier) /\ Len(parts[k]) = l
    <3>1. PICK q : q = parts[k]
      OBVIOUS
    <3>2. q \in [1..l -> ReadTier]
      BY <2>2, <2>4, <3>1
    <3>3. QED BY <3>1, <3>2
  <2>6. \A j \in 1..l :
          /\ parts[k][j].prizeUnits = seqs[k][j].prizeUnits
          /\ parts[k][j].cumulativeWeight = seqs[k][j].cumulativeWeight
          /\ parts[k][j].weight = seqs[k][j].cumulativeWeight
               - (IF j = 1 THEN before(k) ELSE seqs[k][j - 1].cumulativeWeight)
    BY <2>2
  <2>7. QED BY <2>1, <2>5, <2>6
<1>8. parts \in Seq(Seq(ReadTier)) /\ Len(parts) = N /\ parts # <<>>
  <2>1. parts \in [1..N -> Seq(ReadTier)]
    <3>1. parts = [k \in 1..N |-> parts[k]]
      BY <1>1 DEF parts, Unpacked
    <3>2. QED BY <1>7, <3>1
  <2>2. QED BY <1>1, <2>1
<1>9. PICK q : LaidOut(tiers, parts, q)
  BY <1>8, FlatIsARow
<1> HIDE DEF tiers
<1>10. Len(tiers) = Len(words) /\ \A k \in 1..N : o[k] = q[k]
  <2>1. \A k \in 1..N : Len(parts[k]) = Len(seqs[k])
    BY <1>7
  <2>2. N = Len(seqs)
    BY DEF N
  <2>3. QED BY <1>1, <1>2, <1>8, <1>9, <2>1, <2>2, RowsAlign
<1>11. /\ o \in [1..(N + 1) -> Nat] /\ o[1] = 0
       /\ \A k \in 1..N : o[k + 1] = o[k] + Len(seqs[k])
       /\ \A k \in 1..N : \A j \in 1..Len(seqs[k]) : o[k] + j \in 1..Len(words) /\ words[o[k] + j] = seqs[k][j]
       /\ \A p \in 1..Len(words) : \E k \in 1..N : \E j \in 1..Len(seqs[k]) : p = o[k] + j
  BY <1>2 DEF LaidOut, N
<1>12. \A k \in 1..N : \A j \in 1..Len(seqs[k]) : tiers[o[k] + j] = parts[k][j]
  <2>1. \A k \in 1..N : \A j \in 1..Len(parts[k]) : tiers[q[k] + j] = parts[k][j]
    BY <1>8, <1>9 DEF LaidOut
  <2>2. \A k \in 1..N : Len(parts[k]) = Len(seqs[k])
    BY <1>7
  <2>3. QED BY ONLY <1>10, <2>1, <2>2
<1>13. ASSUME NEW p \in 1..Len(words)
       PROVE  /\ tiers[p].prizeUnits = words[p].prizeUnits
              /\ tiers[p].weight = WeightAt(words, p)
              /\ tiers[p].cumulativeWeight = words[p].cumulativeWeight
  <2>1. PICK k \in 1..N : \E j \in 1..Len(seqs[k]) : p = o[k] + j
    BY <1>11
  <2>2. PICK j \in 1..Len(seqs[k]) : p = o[k] + j
    BY <2>1
  <2>3. tiers[p] = parts[k][j] /\ words[p] = seqs[k][j] /\ o[k] \in Nat /\ j \in Nat \ {0}
    BY <1>1, <1>11, <1>12, <2>2
  <2>4. Previous(words, p).cumulativeWeight =
          IF j = 1 THEN before(k) ELSE seqs[k][j - 1].cumulativeWeight
    <3>1. CASE j # 1
      <4>1. j - 1 \in 1..Len(seqs[k]) /\ p # 1 /\ p - 1 = o[k] + (j - 1)
        <5>1. PICK l \in Nat, x \in Nat : l = Len(seqs[k]) /\ x = o[k]
          BY <1>1, <2>3
        <5>2. j \in 1..l /\ p = x + j
          BY <2>2, <5>1
        <5>3. j - 1 \in 1..l /\ p # 1 /\ p - 1 = x + (j - 1)
          BY <3>1, <5>2
        <5>4. QED BY <5>1, <5>3
      <4>2. words[p - 1] = seqs[k][j - 1]
        BY <1>11, <4>1
      <4>3. QED BY <3>1, <4>1, <4>2 DEF Previous
    <3>2. CASE j = 1 /\ k = 1
      <4>1. p = 1
        BY <1>11, <2>2, <3>2
      <4>2. QED BY <3>2, <4>1 DEF Previous, before
    <3>3. CASE j = 1 /\ k # 1
      <4>1. PICK i \in 1..N : i = k - 1 /\ i + 1 = k
        <5>0. N \in Nat /\ k # 1
          BY <1>1, <3>3
        <5>1. k - 1 \in 1..N /\ (k - 1) + 1 = k
          BY <5>0
        <5>2. QED BY <5>1
      <4>2. PICK l \in Nat \ {0} : l = Len(seqs[i])
        BY <1>1, <4>1
      <4>3. o[k] = o[i] + l /\ o[i] \in Nat
        <5>1. o[i + 1] = o[i] + Len(seqs[i])
          BY <1>11
        <5>2. N \in Nat /\ o \in [1..(N + 1) -> Nat]
          BY <1>1, <1>11
        <5>3. i \in 1..(N + 1)
          BY <5>2
        <5>4. o[i] \in Nat
          BY <5>2, <5>3
        <5>5. QED BY <4>1, <4>2, <5>1, <5>4
      <4>4. p # 1 /\ p - 1 = o[i] + l /\ l \in 1..Len(seqs[i])
        BY <2>2, <3>3, <4>2, <4>3
      <4>5. words[p - 1] = seqs[i][l]
        BY <1>11, <4>1, <4>4
      <4>6. before(k) = seqs[i][l].cumulativeWeight
        BY <3>3, <4>1, <4>2 DEF before, Last
      <4>7. QED BY <3>3, <4>4, <4>5, <4>6 DEF Previous
    <3>4. QED BY <3>1, <3>2, <3>3
  <2>5. /\ parts[k][j].prizeUnits = seqs[k][j].prizeUnits
        /\ parts[k][j].cumulativeWeight = seqs[k][j].cumulativeWeight
        /\ parts[k][j].weight = seqs[k][j].cumulativeWeight
             - (IF j = 1 THEN before(k) ELSE seqs[k][j - 1].cumulativeWeight)
    BY <1>7
  <2>6. WeightAt(words, p) = words[p].cumulativeWeight - Previous(words, p).cumulativeWeight
    BY DEF WeightAt
  <2>7. QED BY <2>3, <2>4, <2>5, <2>6
<1>14. TiersOf(tiers, words)
  BY <1>10, <1>13 DEF TiersOf
<1>15. tiers \in Seq(ReadTier)
  BY <1>8, FlatIsARow DEF tiers
<1>16. QED BY <1>14, <1>15 DEF tiers, parts, words

LEMMA ReadsTheTable ==
  ASSUME NEW c, NEW seqs, Figures(c, seqs)
  PROVE  TiersOf(ReadTiers(c), Words(seqs)) /\ ReadTiers(c) \in Seq(ReadTier)
<1>1. seqs \in Seq(Seq(TableWord)) /\ seqs # <<>> /\ WalkAccepts(seqs) /\ c.chunks = Pointed(seqs)
  BY DEF Figures
<1>2. DOMAIN c.chunks = DOMAIN seqs /\ \A k \in DOMAIN seqs : c.chunks[k].pointer = seqs[k]
  BY <1>1 DEF Pointed
<1>3. \A k \in DOMAIN seqs : k # 1 => k - 1 \in DOMAIN seqs
  BY <1>1
<1>4. [k \in DOMAIN c.chunks |->
         UnpackChunk(c.chunks[k].pointer,
                     IF k = 1 THEN 0 ELSE Last(c.chunks[k - 1].pointer).cumulativeWeight)]
        = Unpacked(seqs)
  BY <1>2, <1>3, Zenon DEF Unpacked
<1>5. ReadTiers(c) = FlattenSeq(Unpacked(seqs))
  BY <1>4, Zenon DEF ReadTiers
<1>6. QED BY <1>1, <1>5, UnpackedTable

\* A client derives from the bytes the figures that the deployer wrote.
LEMMA DerivesTheSame ==
  ASSUME NEW c, NEW seqs, Figures(c, seqs)
  PROVE  DeriveStats(ReadTiers(c), c.missWeight, c.prizeDenominator) = Quoted(c)
<1>1. PICK words, tiers, total, n, denominator :
        /\ words = Words(seqs) /\ tiers = ReadTiers(c) /\ total = c.totalWeight
        /\ n = Len(words) /\ denominator = c.prizeDenominator
  OBVIOUS
<1>2. /\ TableOf(words, c.missWeight, total)
      /\ c.topPrizeUnits = words[n].prizeUnits /\ c.topPrizeWeight = WeightAt(words, n)
      /\ c.prizeSum = PrizeSum(words) /\ c.bodyVarianceWad = BodyVarianceWad(words, total, denominator)
  BY <1>1 DEF Figures
<1>3. /\ Ascending(words) /\ Len(words) # 0
      /\ total = c.missWeight + words[n].cumulativeWeight
  BY <1>1, <1>2 DEF TableOf
<1>4. /\ Len(tiers) = n
      /\ \A p \in 1..n : /\ tiers[p].prizeUnits = words[p].prizeUnits
                         /\ tiers[p].weight = WeightAt(words, p)
                         /\ tiers[p].cumulativeWeight = words[p].cumulativeWeight
  BY <1>1, ReadsTheTable DEF TiersOf
<1>5. /\ n \in Nat \ {0} /\ n \in 1..n
      /\ \A i \in 1..n : words[i].prizeUnits \in Int /\ WeightAt(words, i) \in Int
  BY <1>1, <1>3, TableFacts
<1> DEFINE Body == 1..(n - 1)
<1>6. PICK f : f = [i \in Body |-> tiers[i].prizeUnits * tiers[i].weight]
  OBVIOUS
<1>7. PICK g : g = [i \in Body |-> tiers[i].prizeUnits * tiers[i].prizeUnits * tiers[i].weight]
  OBVIOUS
<1>8. PICK p : p = [i \in 1..n |-> words[i].prizeUnits * WeightAt(words, i)]
  OBVIOUS
<1>9. PICK s : s = [i \in 1..n |-> words[i].prizeUnits * words[i].prizeUnits * WeightAt(words, i)]
  OBVIOUS
<1>10. PrizeSum(words) = SumFunctionOnSet(p, 1..n) /\ SquaredPrizeSum(words) = SumFunctionOnSet(s, 1..n)
  <2>1. DOMAIN words = 1..n
    BY <1>1, <1>3 DEF Ascending
  <2>2. QED BY <1>8, <1>9, <2>1 DEF PrizeSum, SquaredPrizeSum
<1>11. \A i \in 1..n : p[i] \in Int /\ s[i] \in Int
  BY <1>5, <1>8, <1>9
<1>12. IsFiniteSet(1..n) /\ IsFiniteSet(Body) /\ (1..n) \ {n} = Body /\ \A i \in Body : i \in 1..n
  BY <1>5, FS_Interval
<1>13. \A i \in Body : f[i] = p[i] /\ g[i] = s[i]
  BY <1>4, <1>6, <1>7, <1>8, <1>9, <1>12
<1> HIDE DEF Body
<1>14. SumFunctionOnSet(f, Body) = SumFunctionOnSet(p, Body)
  BY ONLY <1>12, <1>13, SumAgree
<1>15. SumFunctionOnSet(g, Body) = SumFunctionOnSet(s, Body)
  BY ONLY <1>12, <1>13, SumAgree
<1>16. SumFunctionOnSet(p, 1..n) = p[n] + SumFunctionOnSet(p, (1..n) \ {n})
  BY ONLY <1>5, <1>11, <1>12, SumSplit
<1>17. SumFunctionOnSet(s, 1..n) = s[n] + SumFunctionOnSet(s, (1..n) \ {n})
  BY ONLY <1>5, <1>11, <1>12, SumSplit
<1>18. PICK mass \in Int, top \in Int : mass = words[n].prizeUnits * WeightAt(words, n) /\ top = words[n].prizeUnits
  BY <1>5
<1>19. p[n] = mass /\ s[n] = mass * top
  <2>1. PICK w \in Int : w = WeightAt(words, n)
    BY <1>5
  <2>2. p[n] = top * w /\ s[n] = top * top * w /\ mass = top * w
    BY <1>5, <1>8, <1>9, <1>18, <2>1
  <2>3. top * top * w = (top * w) * top
    OBVIOUS
  <2>4. QED BY <2>2, <2>3
<1>20. SumFunctionOnSet(p, Body) \in Int /\ SumFunctionOnSet(s, Body) \in Int
  <2>1. \A i \in Body : p[i] \in Int /\ s[i] \in Int
    BY <1>11, <1>12
  <2>2. QED BY ONLY <1>12, <2>1, SumType
<1>21. /\ SumFunctionOnSet(f, Body) + mass = PrizeSum(words)
       /\ SumFunctionOnSet(f, Body) = PrizeSum(words) - mass
       /\ SumFunctionOnSet(g, Body) = SquaredPrizeSum(words) - mass * top
  <2>1. PICK x \in Int, y \in Int : x = SumFunctionOnSet(p, Body) /\ y = SumFunctionOnSet(s, Body)
    BY <1>20
  <2>2. PrizeSum(words) = mass + x /\ SquaredPrizeSum(words) = mass * top + y
    BY <1>10, <1>12, <1>16, <1>17, <1>19, <2>1
  <2>3. PICK z \in Int : z = mass * top
    OBVIOUS
  <2>4. QED BY <1>14, <1>15, <2>1, <2>2, <2>3
<1>22. BodyVarianceWad(words, total, denominator) =
         CeilDivide((SumFunctionOnSet(g, Body) * total - SumFunctionOnSet(f, Body) * SumFunctionOnSet(f, Body)) * WAD,
                    denominator * denominator * total * total)
  <2>1. BodyVarianceWad(words, total, denominator) =
          CeilDivide(((SquaredPrizeSum(words) - mass * top) * total
                        - (PrizeSum(words) - mass) * (PrizeSum(words) - mass)) * WAD,
                     denominator * denominator * total * total)
    BY <1>1, <1>18, Zenon DEF BodyVarianceWad
  <2>2. QED BY <1>21, <2>1, Zenon
<1>23. /\ tiers[n].prizeUnits = c.topPrizeUnits /\ tiers[n].weight = c.topPrizeWeight
       /\ tiers[n].cumulativeWeight = words[n].cumulativeWeight
       /\ tiers[n].prizeUnits * tiers[n].weight = mass
  BY <1>2, <1>4, <1>5, <1>18
<1>24. DeriveStats(tiers, c.missWeight, denominator) =
         [totalWeight |-> c.missWeight + tiers[n].cumulativeWeight,
          topPrizeUnits |-> tiers[n].prizeUnits, topPrizeWeight |-> tiers[n].weight,
          prizeSum |-> SumFunctionOnSet(f, Body) + tiers[n].prizeUnits * tiers[n].weight,
          bodyVarianceWad |->
            CeilDivide((SumFunctionOnSet(g, Body) * (c.missWeight + tiers[n].cumulativeWeight)
                          - SumFunctionOnSet(f, Body) * SumFunctionOnSet(f, Body)) * WAD,
                       denominator * denominator * (c.missWeight + tiers[n].cumulativeWeight)
                         * (c.missWeight + tiers[n].cumulativeWeight))]
  BY <1>4, <1>6, <1>7, Zenon DEF DeriveStats, Body
<1>25. c.missWeight + tiers[n].cumulativeWeight = total
  BY <1>3, <1>23, Zenon
<1>26. DeriveStats(tiers, c.missWeight, denominator) =
         [totalWeight |-> total, topPrizeUnits |-> c.topPrizeUnits, topPrizeWeight |-> c.topPrizeWeight,
          prizeSum |-> c.prizeSum, bodyVarianceWad |-> c.bodyVarianceWad]
  <2>1. SumFunctionOnSet(f, Body) + tiers[n].prizeUnits * tiers[n].weight = c.prizeSum
    BY <1>2, <1>21, <1>23, Zenon
  <2>2. QED BY <1>2, <1>22, <1>23, <1>24, <1>25, <2>1, Zenon
<1>27. QED BY <1>1, <1>26, Zenon DEF Quoted

\* And samples the prizes that the engine draws.
LEMMA SamplesTheSame ==
  ASSUME NEW c, NEW seqs, DerivedFrom(c, seqs),
         NEW drawn, DrawnFrom(drawn, Words(seqs), c.missWeight, c.totalWeight),
         NEW r \in 0..(c.totalWeight - 1)
  PROVE  SamplePrizeUnits(ReadTiers(c), c.missWeight, c.totalWeight, r) = drawn[r]
<1>1. PICK words, tiers, total, n, missWeight :
        /\ words = Words(seqs) /\ tiers = ReadTiers(c) /\ total = c.totalWeight
        /\ n = Len(words) /\ missWeight = c.missWeight
  OBVIOUS
<1>2. /\ Ascending(words) /\ Len(words) # 0 /\ missWeight \in Nat
      /\ total = missWeight + words[Len(words)].cumulativeWeight
  BY <1>1 DEF DerivedFrom, Figures, TableOf
<1>3. /\ Len(tiers) = n
      /\ \A p \in 1..n : /\ tiers[p].prizeUnits = words[p].prizeUnits
                         /\ tiers[p].cumulativeWeight = words[p].cumulativeWeight
  BY <1>1, ReadsTheTable DEF TiersOf, DerivedFrom
<1>4. n \in Nat \ {0} /\ \A i \in 1..n : words[i].cumulativeWeight \in Nat \ {0}
  BY <1>1, <1>2, TableFacts
<1>5. r \in 0..(total - 1)
  BY <1>1
<1>6. total \in Nat \ {0} /\ r % total = r
  <2>1. n \in 1..n
    BY <1>4
  <2>2. total \in Nat \ {0}
    BY <1>1, <1>2, <1>4, <2>1
  <2>3. QED BY <1>5, <2>2
<1>7. DrawnFrom(drawn, words, missWeight, total)
  BY <1>1
<1>8. PICK t \in Int : t = r - missWeight
  BY <1>2, <1>5
<1>9. SamplePrizeUnits(tiers, missWeight, total, r) =
        IF t < 0 THEN 0 ELSE tiers[FirstPast(tiers, n, t)].prizeUnits
  BY <1>3, <1>6, <1>8 DEF SamplePrizeUnits
<1>10. CASE r < missWeight
  <2>1. t < 0
    BY <1>2, <1>5, <1>8, <1>10
  <2>2. drawn[r] = 0
    BY <1>5, <1>7, <1>10 DEF DrawnFrom
  <2>3. QED BY <1>1, <1>9, <2>1, <2>2
<1>11. CASE ~(r < missWeight)
  <2>1. 0 <= t /\ t < words[Len(words)].cumulativeWeight
    <3>1. r - missWeight \in Nat /\ r - missWeight < words[Len(words)].cumulativeWeight
      BY ONLY <1>2, <1>5, <1>11, InTheTable
    <3>2. QED BY <1>8, <3>1
  <2>2. Holds(words, t, FirstPast(words, n, t))
    <3>1. Holds(words, t, FirstPast(words, Len(words), t))
      BY ONLY <1>2, <2>1, t \in Int, WholeSearch
    <3>2. QED BY <1>1, <3>1
  <2>3. FirstPast(tiers, n, t) = FirstPast(words, n, t)
    <3>1. Rising(words, n)
      BY <1>1, <1>2, AscendingOrders DEF Rising
    <3>2. Rising(tiers, n)
      BY <1>3, <3>1 DEF Rising
    <3>3. IsFirst(words, t, 1, n, FirstPast(words, n, t)) /\ IsFirst(tiers, t, 1, n, FirstPast(tiers, n, t))
      BY ONLY <1>4, <3>1, <3>2, t \in Int, SearchFinds
    <3>4. PICK i, j : i = FirstPast(words, n, t) /\ j = FirstPast(tiers, n, t)
      OBVIOUS
    <3>5. IsFirst(words, t, 1, n, i) /\ IsFirst(tiers, t, 1, n, j)
      BY <3>3, <3>4
    <3>6. IsFirst(words, t, 1, n, j)
      <4>1. j \in 1..n /\ \A l \in 1..(j - 1) : l \in 1..n
        BY <1>4, <3>5 DEF IsFirst
      <4>2. QED BY <1>3, <3>5, <4>1 DEF IsFirst
    <3>7. i = j
      <4>1. 1 \in Nat /\ n \in Nat /\ 1 <= n /\ \A l \in 1..n : words[l].cumulativeWeight \in Int
        BY <1>4
      <4>2. QED BY ONLY <3>5, <3>6, <4>1, t \in Int, OneIsFirst
    <3>8. QED BY <3>4, <3>7
  <2>4. PICK p : p = FirstPast(words, n, t)
    OBVIOUS
  <2>5. p \in 1..n
    BY <1>1, <2>2, <2>4 DEF Holds
  <2>6. drawn[r] = words[p].prizeUnits
    BY <1>5, <1>7, <1>8, <2>2, <2>4 DEF DrawnFrom
  <2>7. QED BY <1>1, <1>3, <1>9, <2>1, <2>3, <2>4, <2>5, <2>6
<1>12. QED BY <1>10, <1>11

\* A derived configuration keeps what QuotesWhatItPays promises of it.
LEMMA DerivedPays ==
  ASSUME NEW c, NEW seqs, DerivedFrom(c, seqs)
  PROVE  PaysAsQuoted(c)
<1> DEFINE period == 0..(c.totalWeight - 1)
<1> DEFINE drawn == [r \in period |-> CHOOSE u \in SamplePrize(c, r) : TRUE]
<1> DEFINE body == [r \in period |-> IF drawn[r] = c.topPrizeUnits THEN 0 ELSE drawn[r]]
<1> DEFINE squares == [r \in period |-> body[r] * body[r]]
<1> DEFINE scale == c.prizeDenominator * c.prizeDenominator * c.totalWeight * c.totalWeight
<1> DEFINE variance == SumFunctionOnSet(squares, period) * c.totalWeight
                         - SumFunctionOnSet(body, period) * SumFunctionOnSet(body, period)
<1>1. period = 0..(c.totalWeight - 1)
  OBVIOUS
<1>2. \A r \in period : drawn[r] = CHOOSE u \in SamplePrize(c, r) : TRUE
  BY Zenon
<1> HIDE DEF drawn
<1>3. \A r \in period : body[r] = IF drawn[r] = c.topPrizeUnits THEN 0 ELSE drawn[r]
  BY Zenon
<1> HIDE DEF body
<1>4. \A r \in period : squares[r] = body[r] * body[r]
  BY Zenon
<1>5. scale = c.prizeDenominator * c.prizeDenominator * c.totalWeight * c.totalWeight
  OBVIOUS
<1>6. variance = SumFunctionOnSet(squares, period) * c.totalWeight
                   - SumFunctionOnSet(body, period) * SumFunctionOnSet(body, period)
  OBVIOUS
<1> HIDE DEF squares, scale, variance, period
<1>7. /\ \A r \in period : SamplePrize(c, r) # {}
      /\ DrawnFrom(drawn, Words(seqs), c.missWeight, c.totalWeight)
  <2>1. \A r \in 0..(c.totalWeight - 1) : drawn[r] = CHOOSE u \in SamplePrize(c, r) : TRUE
    BY <1>1, <1>2, Zenon
  <2>2. QED BY ONLY <1>1, <2>1, DerivedFrom(c, seqs), DrawsFromTheTable
<1>8. /\ \A r \in 0..(c.totalWeight - 1) :
           body[r] = IF drawn[r] = c.topPrizeUnits THEN 0 ELSE drawn[r]
      /\ Squares(squares, body, c.totalWeight)
  BY <1>1, <1>3, <1>4, Zenon DEF Squares
<1>9. variance = SumFunctionOnSet(squares, 0..(c.totalWeight - 1)) * c.totalWeight
                   - SumFunctionOnSet(body, 0..(c.totalWeight - 1))
                       * SumFunctionOnSet(body, 0..(c.totalWeight - 1))
  BY <1>1, <1>6, Zenon
<1>10. /\ SumFunctionOnSet(drawn, 0..(c.totalWeight - 1)) = c.prizeSum
       /\ \A r \in 0..(c.totalWeight - 1) : drawn[r] <= c.topPrizeUnits
       /\ Cardinality(Times(drawn, c.topPrizeUnits, c.totalWeight)) = c.topPrizeWeight
       /\ variance * WAD <= c.bodyVarianceWad * scale
       /\ (c.bodyVarianceWad - 1) * scale < variance * WAD
  BY ONLY <1>5, <1>7, <1>8, <1>9, DerivedFrom(c, seqs), FiguresOfAPeriod
<1>11. Cardinality({r \in period : drawn[r] = c.topPrizeUnits}) = c.topPrizeWeight
  BY <1>1, <1>10, Zenon DEF Times
<1>12. c.prizeSum < c.prizeDenominator * c.totalWeight
  BY DEF DerivedFrom, Figures
<1>13. DeriveStats(ReadTiers(c), c.missWeight, c.prizeDenominator) = Quoted(c)
  BY DerivesTheSame DEF DerivedFrom
<1>14. \A r \in period : SamplePrizeUnits(ReadTiers(c), c.missWeight, c.totalWeight, r) = drawn[r]
  <2>1. ASSUME NEW r \in 0..(c.totalWeight - 1)
        PROVE  SamplePrizeUnits(ReadTiers(c), c.missWeight, c.totalWeight, r) = drawn[r]
    BY ONLY <1>7, r \in 0..(c.totalWeight - 1), DerivedFrom(c, seqs), SamplesTheSame
  <2>2. QED BY <1>1, <2>1
<1>15. /\ SumFunctionOnSet(drawn, period) = c.prizeSum /\ \A r \in period : drawn[r] <= c.topPrizeUnits
  BY <1>1, <1>10, Zenon
<1>16. QED
  BY ONLY <1>7, <1>10, <1>11, <1>12, <1>13, <1>14, <1>15, Zenon
     DEF PaysAsQuoted, period, drawn, body, squares, scale, variance

-----------------------------------------------------------------------------
(* What the compiler packs comes back from the chain.                      *)

\* Sequences in a row of one length, but for the last.
LEMMA EvenRows ==
  ASSUME NEW all, NEW seqs, NEW o, LaidOut(all, seqs, o), NEW N \in Nat \ {0}, N = Len(seqs), NEW m \in Nat,
         \A k \in 1..N : k < N => Len(seqs[k]) = m
  PROVE  \A k \in 1..N : o[k] = (k - 1) * m
<1> DEFINE P == {k \in 1..N : o[k] = (k - 1) * m}
<1>1. o[1] = 0 /\ \A k \in 1..N : o[k + 1] = o[k] + Len(seqs[k])
  BY DEF LaidOut
<1>2. ASSUME NEW k \in 1..N, 1..(k - 1) \subseteq P PROVE k \in P
  <2>1. CASE k = 1
    BY <1>1, <2>1
  <2>2. CASE k # 1
    <3>1. PICK j \in 1..N : k = j + 1 /\ j < N /\ j \in 1..(k - 1)
      <4>1. k - 1 \in 1..N /\ k = (k - 1) + 1 /\ k - 1 < N /\ k - 1 \in 1..(k - 1)
        BY <2>2
      <4>2. QED BY <4>1
    <3>2. o[j] = (j - 1) * m
      BY <1>2, <3>1
    <3>3. o[j + 1] = o[j] + m
      BY <1>1, <3>1
    <3>4. (j - 1) * m + m = j * m
      OBVIOUS
    <3>5. QED BY <3>1, <3>2, <3>3, <3>4
  <2>3. QED BY <2>1, <2>2
<1> HIDE DEF P
<1>3. 1..N \subseteq P
  BY <1>2, UpTo
<1>4. QED BY <1>3 DEF P

\* The lengths of the chunks of n tiers, and what is left for the last one.
LEMMA ChunkLengths ==
  ASSUME NEW n \in Nat \ {0}, NEW m \in Nat \ {0}, NEW N, N = CeilDivide(n, m),
         NEW left, \A k \in 1..N : left[k] = n - (k - 1) * m
  PROVE  /\ N \in Nat \ {0}
         /\ \A k \in 1..N : /\ left[k] \in Nat \ {0}
                            /\ k < N => ~(left[k] < m)
         /\ left[N] <= m
<1>1. /\ N \in Int /\ n <= N * m /\ (N - 1) * m < n
  BY Ceiling
<1>2. N \in Nat \ {0}
  <2>1. CASE N <= 0
    <3>1. N * m <= 0
      BY <1>1, <2>1
    <3>2. QED BY <1>1, <3>1
  <2>2. QED BY <1>1, <2>1
<1>3. ASSUME NEW k \in 1..N
      PROVE  left[k] \in Nat \ {0} /\ (k < N => ~(left[k] < m))
  <2>1. PICK x \in Int, y \in Int : x = (k - 1) * m /\ y = (N - 1) * m
    BY <1>2
  <2>2. x <= y
    <3>0. k - 1 \in Nat /\ N - 1 \in Nat /\ k - 1 <= N - 1
      BY <1>2
    <3>1. PICK i \in Nat, j \in Nat : i = k - 1 /\ j = N - 1 /\ i <= j
      BY <3>0
    <3>2. i * m <= j * m
      BY <3>1
    <3>3. QED BY <2>1, <3>1, <3>2
  <2>3. left[k] = n - x
    BY <2>1
  <2>4. ASSUME k < N PROVE ~(left[k] < m)
    <3>1. PICK i \in Nat, j \in Nat : i = k /\ j = N - 1 /\ i <= j
      BY <1>2, <2>4
    <3>2. i * m <= j * m
      BY <3>1
    <3>3. k * m = x + m
      BY <2>1
    <3>4. x + m <= y
      BY <2>1, <3>1, <3>2, <3>3
    <3>5. QED BY <1>1, <2>1, <2>3, <3>4
  <2>5. left[k] \in Nat \ {0}
    BY <1>1, <2>1, <2>2, <2>3
  <2>6. QED BY <2>4, <2>5
<1>4. left[N] <= m
  <2>1. PICK x \in Int : x = (N - 1) * m
    BY <1>1
  <2>2. N * m = x + m
    BY <1>1, <2>1
  <2>3. left[N] = n - x
    BY <1>2, <2>1
  <2>4. QED BY <1>1, <2>2, <2>3
<1>5. QED BY <1>2, <1>3, <1>4

\* The walk accepts the chunks of a packed table, and sees its words.
LEMMA PackedChunks ==
  ASSUME NEW tiers, Packed(tiers), NEW seqs, seqs = PackChunks(tiers),
         NEW words, words = Words(seqs)
  PROVE  /\ seqs \in Seq(Seq(TableWord)) /\ seqs # <<>> /\ WalkAccepts(seqs)
         /\ Len(words) = Len(tiers)
         /\ \A p \in 1..Len(tiers) : /\ words[p].prizeUnits = tiers[p].prizeUnits
                                     /\ words[p].cumulativeWeight = tiers[p].cumulativeWeight
                                     /\ WeightAt(words, p) = tiers[p].weight
<1>1. PICK n, m, N : n = Len(tiers) /\ m = MAX_TIERS_PER_CHUNK /\ N = CeilDivide(n, m)
  OBVIOUS
<1>2. /\ n \in Nat \ {0} /\ m \in Nat \ {0} /\ DOMAIN tiers = 1..n
      /\ \A i \in 1..n : /\ tiers[i].prizeUnits \in Nat /\ tiers[i].weight \in Nat
                         /\ tiers[i].cumulativeWeight \in Nat
                         /\ tiers[i].prizeUnits > Previous(tiers, i).prizeUnits
                         /\ tiers[i].weight > 0
                         /\ tiers[i].cumulativeWeight = Previous(tiers, i).cumulativeWeight + tiers[i].weight
  <2>1. PICK all \in Seq(PackedTier) : all = tiers /\ all # <<>>
    BY DEF Packed
  <2>2. Len(all) \in Nat \ {0} /\ DOMAIN all = 1..Len(all)
    BY <2>1
  <2>3. ASSUME NEW i \in 1..Len(all)
        PROVE  /\ all[i].prizeUnits \in Nat /\ all[i].weight \in Nat
               /\ all[i].cumulativeWeight \in Nat
    <3>1. PICK tier \in PackedTier : tier = all[i]
      OBVIOUS
    <3>2. QED BY <3>1 DEF PackedTier
  <2>4. \A i \in DOMAIN tiers :
          /\ tiers[i].prizeUnits > Previous(tiers, i).prizeUnits
          /\ tiers[i].weight > 0
          /\ tiers[i].cumulativeWeight = Previous(tiers, i).cumulativeWeight + tiers[i].weight
    BY Zenon DEF Packed
  <2>5. m \in Nat \ {0}
    BY <1>1, SlotTableAssumption
  <2>6. QED BY <1>1, <2>1, <2>2, <2>3, <2>4, <2>5
<1>3. PICK left : left = [k \in 1..N |-> n - (k - 1) * m]
  OBVIOUS
<1>4. /\ N \in Nat \ {0}
      /\ \A k \in 1..N : left[k] \in Nat \ {0} /\ (k < N => ~(left[k] < m))
      /\ left[N] <= m
  <2>1. \A k \in 1..N : left[k] = n - (k - 1) * m
    BY <1>3
  <2>2. n \in Nat \ {0} /\ m \in Nat \ {0} /\ N = CeilDivide(n, m)
    BY <1>1, <1>2
  <2>3. QED BY ONLY <2>1, <2>2, ChunkLengths
<1>5. PICK size : size = [k \in 1..N |-> IF left[k] < m THEN left[k] ELSE m]
  OBVIOUS
<1>6. ASSUME NEW k \in 1..N
      PROVE  size[k] \in 1..m /\ size[k] <= left[k] /\ (k < N => size[k] = m)
  BY <1>2, <1>4, <1>5
<1>7. size[N] = left[N]
  <2>1. N \in 1..N /\ left[N] \in Nat
    BY <1>4
  <2>2. QED BY <1>2, <1>4, <1>5, <2>1
<1>8. seqs = [k \in 1..N |-> [j \in 1..size[k] |->
                [prizeUnits |-> tiers[(k - 1) * m + j].prizeUnits,
                 cumulativeWeight |-> tiers[(k - 1) * m + j].cumulativeWeight]]]
  <2>1. PackChunks(tiers) =
          [k \in 1..N |-> [j \in 1..(IF n - (k - 1) * m < m THEN n - (k - 1) * m ELSE m) |->
             [prizeUnits |-> tiers[(k - 1) * m + j].prizeUnits,
              cumulativeWeight |-> tiers[(k - 1) * m + j].cumulativeWeight]]]
    BY <1>1, Zenon DEF PackChunks
  <2>2. \A k \in 1..N : size[k] = IF n - (k - 1) * m < m THEN n - (k - 1) * m ELSE m
    BY <1>3, <1>5, Zenon
  <2>3. QED BY <2>1, <2>2, Zenon
<1>9. ASSUME NEW k \in 1..N, NEW j \in 1..size[k]
      PROVE  /\ (k - 1) * m + j \in 1..n
             /\ seqs[k][j] = [prizeUnits |-> tiers[(k - 1) * m + j].prizeUnits,
                              cumulativeWeight |-> tiers[(k - 1) * m + j].cumulativeWeight]
  <2>1. PICK x \in Nat : x = (k - 1) * m
    BY <1>2, <1>4
  <2>2. left[k] = n - x
    BY <1>3, <2>1
  <2>3. size[k] \in Nat /\ size[k] <= left[k]
    BY <1>2, <1>6
  <2>4. x + j \in 1..n
    BY <1>2, <2>2, <2>3
  <2>5. seqs[k] = [i \in 1..size[k] |-> [prizeUnits |-> tiers[(k - 1) * m + i].prizeUnits,
                                         cumulativeWeight |-> tiers[(k - 1) * m + i].cumulativeWeight]]
    BY <1>8
  <2>6. QED BY <2>1, <2>4, <2>5
<1>10. ASSUME NEW k \in 1..N PROVE seqs[k] \in Seq(TableWord) /\ Len(seqs[k]) = size[k]
  <2>1. PICK q : q = seqs[k]
    OBVIOUS
  <2>2. \A j \in 1..size[k] : q[j] \in TableWord
    <3>1. ASSUME NEW j \in 1..size[k] PROVE q[j] \in TableWord
      <4>1. PICK p \in 1..n : p = (k - 1) * m + j
        BY <1>9
      <4>2. q[j] = [prizeUnits |-> tiers[p].prizeUnits, cumulativeWeight |-> tiers[p].cumulativeWeight]
        BY <1>9, <2>1, <4>1
      <4>3. QED BY <1>2, <4>2 DEF TableWord
    <3>2. QED BY <3>1
  <2>3. q = [j \in 1..size[k] |-> [prizeUnits |-> tiers[(k - 1) * m + j].prizeUnits,
                                   cumulativeWeight |-> tiers[(k - 1) * m + j].cumulativeWeight]]
    BY <1>8, <2>1, Zenon
  <2>4. q \in [1..size[k] -> TableWord]
    <3>1. DOMAIN q = 1..size[k] /\ q = [j \in 1..size[k] |-> q[j]]
      BY <2>3
    <3>2. QED BY <2>2, <3>1
  <2>5. size[k] \in Nat
    BY <1>2, <1>6
  <2>6. q \in Seq(TableWord) /\ Len(q) = size[k]
    BY <2>4, <2>5
  <2>7. QED BY <2>1, <2>6
<1>11. seqs \in Seq(Seq(TableWord)) /\ seqs # <<>> /\ Len(seqs) = N /\ DOMAIN seqs = 1..N
  <2>1. DOMAIN seqs = 1..N /\ seqs = [k \in 1..N |-> seqs[k]]
    BY <1>8
  <2>2. seqs \in [1..N -> Seq(TableWord)]
    BY <1>10, <2>1
  <2>3. QED BY <1>4, <2>2
<1>12. words \in Seq(TableWord) /\ \E o : LaidOut(words, seqs, o)
  <2>1. FlattenSeq(seqs) \in Seq(TableWord) /\ \E o : LaidOut(FlattenSeq(seqs), seqs, o)
    BY ONLY <1>11, FlatIsARow
  <2>2. QED BY <2>1 DEF Words
<1>13. PICK o : LaidOut(words, seqs, o)
  BY <1>12
<1>14. \A k \in 1..N : o[k] = (k - 1) * m
  <2>1. \A k \in 1..N : k < N => Len(seqs[k]) = m
    BY <1>6, <1>10
  <2>2. N = Len(seqs) /\ m \in Nat
    BY <1>2, <1>11
  <2>3. QED BY ONLY <1>4, <1>13, <2>1, <2>2, EvenRows
<1>15. Len(words) = n
  <2>1. o[N + 1] = Len(words) /\ o[N + 1] = o[N] + Len(seqs[N])
    BY <1>4, <1>11, <1>13 DEF LaidOut
  <2>2. N \in 1..N
    BY <1>4
  <2>3. PICK x \in Int : x = (N - 1) * m
    BY <1>2, <1>4
  <2>4. o[N] = x /\ left[N] = n - x
    BY <1>3, <1>14, <2>2, <2>3
  <2>5. Len(seqs[N]) = left[N]
    BY <1>7, <1>10, <2>2
  <2>6. QED BY <1>2, <2>1, <2>3, <2>4, <2>5
<1>16. ASSUME NEW p \in 1..n
       PROVE  /\ words[p].prizeUnits = tiers[p].prizeUnits
              /\ words[p].cumulativeWeight = tiers[p].cumulativeWeight
  <2>1. \E k \in 1..N : \E j \in 1..Len(seqs[k]) : p = o[k] + j
    BY <1>11, <1>13, <1>15 DEF LaidOut
  <2>a. PICK k \in 1..N : \E j \in 1..size[k] : p = o[k] + j
    BY <1>10, <2>1
  <2>2. PICK j \in 1..size[k] : p = o[k] + j
    BY <2>a
  <2>3. words[p] = seqs[k][j]
    <3>1. \A i \in 1..Len(seqs[k]) : words[o[k] + i] = seqs[k][i]
      BY <1>11, <1>13 DEF LaidOut
    <3>2. QED BY <1>10, <2>2, <3>1
  <2>4. p = (k - 1) * m + j
    BY <1>14, <2>2
  <2>5. seqs[k][j] = [prizeUnits |-> tiers[p].prizeUnits, cumulativeWeight |-> tiers[p].cumulativeWeight]
    BY <1>9, <2>4
  <2>6. QED BY <2>3, <2>5
<1>17. ASSUME NEW p \in 1..n
       PROVE  /\ Previous(words, p).prizeUnits = Previous(tiers, p).prizeUnits
              /\ Previous(words, p).cumulativeWeight = Previous(tiers, p).cumulativeWeight
              /\ Previous(tiers, p).cumulativeWeight \in Nat
  <2>1. p = 1 \/ (p # 1 /\ p - 1 \in 1..n)
    BY <1>2
  <2>2. QED BY <1>2, <1>16, <2>1 DEF Previous
<1>18. ASSUME NEW p \in 1..n
       PROVE  /\ words[p].prizeUnits > Previous(words, p).prizeUnits
              /\ words[p].cumulativeWeight > Previous(words, p).cumulativeWeight
              /\ WeightAt(words, p) = tiers[p].weight
  <2>1. PICK w \in Nat, x \in Nat : w = tiers[p].weight /\ x = Previous(tiers, p).cumulativeWeight
    BY <1>2, <1>17
  <2>2. words[p].cumulativeWeight = x + w /\ Previous(words, p).cumulativeWeight = x /\ w > 0
    BY <1>2, <1>16, <1>17, <2>1
  <2>3. WeightAt(words, p) = w /\ words[p].cumulativeWeight > Previous(words, p).cumulativeWeight
    BY <2>2 DEF WeightAt
  <2>4. words[p].prizeUnits > Previous(words, p).prizeUnits
    BY <1>2, <1>16, <1>17
  <2>5. QED BY <2>1, <2>3, <2>4
<1>19. WalkAccepts(seqs)
  <2>1. \A k \in DOMAIN seqs : Len(seqs[k]) \in 1..MAX_TIERS_PER_CHUNK
    BY <1>1, <1>6, <1>10, <1>11
  <2>2. DOMAIN words = 1..n
    BY <1>12, <1>15
  <2>3. \A i \in DOMAIN Words(seqs) :
          /\ Words(seqs)[i].prizeUnits > Previous(Words(seqs), i).prizeUnits
          /\ Words(seqs)[i].cumulativeWeight > Previous(Words(seqs), i).cumulativeWeight
    BY <1>18, <2>2
  <2>4. QED BY <2>1, <2>3, Zenon DEF WalkAccepts
<1>20. QED BY <1>1, <1>11, <1>15, <1>16, <1>18, <1>19

\* The reading of the chunks of a packed table is that table.
LEMMA ReadsThePack ==
  ASSUME NEW c, NEW tiers, Packed(tiers), Figures(c, PackChunks(tiers))
  PROVE  /\ ReadTiers(c) = tiers
         /\ Quoted(c) = DeriveStats(tiers, c.missWeight, c.prizeDenominator)
<1>1. PICK seqs : seqs = PackChunks(tiers)
  OBVIOUS
<1>2. PICK words : words = Words(seqs)
  OBVIOUS
<1>3. /\ Len(words) = Len(tiers)
      /\ \A p \in 1..Len(tiers) : /\ words[p].prizeUnits = tiers[p].prizeUnits
                                  /\ words[p].cumulativeWeight = tiers[p].cumulativeWeight
                                  /\ WeightAt(words, p) = tiers[p].weight
  BY ONLY Packed(tiers), <1>1, <1>2, PackedChunks
<1>4. Figures(c, seqs)
  BY <1>1
<1>5. PICK read \in Seq(ReadTier) : read = ReadTiers(c)
  BY <1>4, ReadsTheTable
<1>6. TiersOf(read, words)
  BY <1>2, <1>4, <1>5, ReadsTheTable
<1>7. PICK all \in Seq(PackedTier) : all = tiers
  BY DEF Packed
<1>8. /\ Len(read) = Len(all)
      /\ \A p \in 1..Len(all) : /\ read[p].prizeUnits = all[p].prizeUnits
                                /\ read[p].weight = all[p].weight
                                /\ read[p].cumulativeWeight = all[p].cumulativeWeight
  BY <1>3, <1>6, <1>7 DEF TiersOf
<1>9. ASSUME NEW p \in 1..Len(all) PROVE read[p] = all[p]
  <2>1. PICK mine \in ReadTier : mine = read[p]
    BY <1>8
  <2>2. PICK tier \in PackedTier : tier = all[p]
    OBVIOUS
  <2>3. mine.prizeUnits = tier.prizeUnits /\ mine.weight = tier.weight
          /\ mine.cumulativeWeight = tier.cumulativeWeight
    BY <1>8, <2>1, <2>2
  <2>4. mine = tier
    <3>1. mine = [prizeUnits |-> mine.prizeUnits, weight |-> mine.weight,
                  cumulativeWeight |-> mine.cumulativeWeight]
      BY DEF ReadTier
    <3>2. tier = [prizeUnits |-> tier.prizeUnits, weight |-> tier.weight,
                  cumulativeWeight |-> tier.cumulativeWeight]
      BY DEF PackedTier
    <3>3. QED BY ONLY <2>3, <3>1, <3>2, Zenon
  <2>5. QED BY <2>1, <2>2, <2>4
<1>10. read = all
  BY <1>8, <1>9
<1>11. DeriveStats(ReadTiers(c), c.missWeight, c.prizeDenominator) = Quoted(c)
  BY <1>4, DerivesTheSame
<1>12. QED BY <1>5, <1>7, <1>10, <1>11

\* A compiled table of any size survives the chain: split into chunks, walked by the
\* deployer and read back, it has the tiers that the compiler packed and the figures
\* that the compiler derived, so that statsMismatches finds none; and the deployer
\* refuses it only for its return or for a total weight past 64 bits.
THEOREM PackedTablesComeBack ==
  ASSUME NEW tiers, Packed(tiers), NEW missWeight \in Nat, NEW denominator \in Nat \ {0},
         NEW b, NEW stats, stats = DeriveStats(tiers, missWeight, denominator),
         NEW input, input = [prizeDenominator |-> denominator, missWeight |-> missWeight,
                             chunks |-> PackChunks(tiers)]
  PROVE  /\ \A c \in DeriveConfiguration(input, b) : ReadTiers(c) = tiers /\ Quoted(c) = stats
         /\ DeriveConfiguration(input, b) = {} =>
              \/ ~(stats.prizeSum < denominator * stats.totalWeight)
              \/ ~(stats.prizeSum * WAD >= b.minRtpWad * (denominator * stats.totalWeight))
              \/ ~(stats.prizeSum * WAD <= b.maxRtpWad * (denominator * stats.totalWeight))
              \/ ~(stats.totalWeight <= UINT64_MAX)
<1>1. PICK seqs : seqs = PackChunks(tiers)
  OBVIOUS
<1>2. PICK words : words = Words(seqs)
  OBVIOUS
<1>3. PICK n : n = Len(words)
  OBVIOUS
<1>4. /\ seqs \in Seq(Seq(TableWord)) /\ seqs # <<>> /\ WalkAccepts(seqs)
  BY ONLY Packed(tiers), <1>1, <1>2, PackedChunks
<1>5. PICK total : total = missWeight + words[n].cumulativeWeight
  OBVIOUS
<1>6. PICK c : c = [prizeDenominator |-> denominator, missWeight |-> missWeight,
                    totalWeight |-> total,
                    topPrizeUnits |-> words[n].prizeUnits,
                    topPrizeWeight |-> WeightAt(words, n),
                    prizeSum |-> PrizeSum(words),
                    bodyVarianceWad |-> BodyVarianceWad(words, total, denominator),
                    chunks |-> Pointed(seqs)]
  OBVIOUS
<1>7. /\ c.prizeDenominator = denominator /\ c.missWeight = missWeight
      /\ c.totalWeight = total /\ c.topPrizeUnits = words[n].prizeUnits
      /\ c.topPrizeWeight = WeightAt(words, n) /\ c.prizeSum = PrizeSum(words)
      /\ c.bodyVarianceWad = BodyVarianceWad(words, total, denominator)
      /\ c.chunks = Pointed(seqs)
  BY <1>6
<1>8. Figures(c, seqs)
  <2>1. Ascending(words) /\ n \in Nat \ {0}
    BY <1>2, <1>3, <1>4, WalkOrders
  <2>2. TableOf(words, missWeight, total)
    BY <1>3, <1>5, <2>1 DEF TableOf
  <2>3. QED BY <1>2, <1>3, <1>4, <1>7, <2>2 DEF Figures
<1>9. ReadTiers(c) = tiers /\ Quoted(c) = stats
  <2>1. Figures(c, PackChunks(tiers))
    BY <1>1, <1>8
  <2>2. /\ ReadTiers(c) = tiers
        /\ Quoted(c) = DeriveStats(tiers, c.missWeight, c.prizeDenominator)
    BY ONLY Packed(tiers), <2>1, ReadsThePack
  <2>3. QED BY <1>7, <2>2
<1>10. stats.prizeSum = PrizeSum(words) /\ stats.totalWeight = total
  <2>1. Quoted(c).prizeSum = c.prizeSum /\ Quoted(c).totalWeight = c.totalWeight
    BY DEF Quoted
  <2>2. QED BY <1>7, <1>9, <2>1
<1>11. DeriveConfiguration(input, b) =
         IF /\ PrizeSum(words) < denominator * total
            /\ PrizeSum(words) * WAD >= b.minRtpWad * (denominator * total)
            /\ PrizeSum(words) * WAD <= b.maxRtpWad * (denominator * total)
            /\ total <= UINT64_MAX
         THEN {c} ELSE {}
  <2>1. /\ input.prizeDenominator = denominator /\ input.missWeight = missWeight
        /\ input.chunks = seqs /\ denominator # 0
    BY <1>1
  <2>2. DeriveConfiguration(input, b) =
          IF /\ denominator # 0 /\ seqs # <<>> /\ WalkAccepts(seqs)
             /\ PrizeSum(words) < denominator * total
             /\ PrizeSum(words) * WAD >= b.minRtpWad * (denominator * total)
             /\ PrizeSum(words) * WAD <= b.maxRtpWad * (denominator * total)
             /\ total <= UINT64_MAX
          THEN {c} ELSE {}
    <3>1. /\ words = Words(input.chunks)
          /\ total = input.missWeight + words[Len(words)].cumulativeWeight
          /\ c = [prizeDenominator |-> input.prizeDenominator, missWeight |-> input.missWeight,
                  totalWeight |-> total,
                  topPrizeUnits |-> words[Len(words)].prizeUnits,
                  topPrizeWeight |-> WeightAt(words, Len(words)),
                  prizeSum |-> PrizeSum(words),
                  bodyVarianceWad |-> BodyVarianceWad(words, total, input.prizeDenominator),
                  chunks |-> Pointed(input.chunks)]
      BY <1>2, <1>3, <1>5, <1>6, <2>1, Zenon
    <3>2. DeriveConfiguration(input, b) =
            IF /\ input.prizeDenominator # 0 /\ input.chunks # <<>> /\ WalkAccepts(input.chunks)
               /\ PrizeSum(words) < input.prizeDenominator * total
               /\ PrizeSum(words) * WAD >= b.minRtpWad * (input.prizeDenominator * total)
               /\ PrizeSum(words) * WAD <= b.maxRtpWad * (input.prizeDenominator * total)
               /\ total <= UINT64_MAX
            THEN {c} ELSE {}
      BY ONLY <3>1, Deriving
    <3>3. QED BY <2>1, <3>2, Zenon
  <2>3. QED BY <1>4, <2>1, <2>2, Zenon
<1>12. QED BY <1>9, <1>10, <1>11, Zenon

-----------------------------------------------------------------------------
(* What a bet on a title may cost the house.                               *)

\* A word draws a prize, and the stake and the reserve of a bet pay every such prize.
EveryWordPays(c, wager, randomness) ==
  /\ SamplePrize(c, randomness) # {}
  /\ \A units \in SamplePrize(c, randomness) :
       SlotPayout(c, wager, units) <= wager + SlotReservedProfit(c, wager)

LEMMA Floors ==
  ASSUME NEW x \in Nat, NEW y \in Nat \ {0}
  PROVE  x \div y \in Nat /\ y * (x \div y) <= x /\ x < y * (x \div y) + y
<1>1. PICK q \in Nat : q = x \div y
  OBVIOUS
<1>2. q * y <= x /\ x < q * y + y
  BY <1>1
<1>3. QED BY <1>1, <1>2

\* Of a larger amount, no smaller a quotient.
LEMMA FloorsInOrder ==
  ASSUME NEW w \in Nat, NEW x \in Nat, NEW y \in Nat \ {0}, w <= x
  PROVE  w \div y <= x \div y
<1>1. PICK p, q \in Nat : p = w \div y /\ q = x \div y
  BY Floors
<1>2. y * p <= w /\ x < y * q + y
  BY <1>1, Floors
<1>3. y * p < y * (q + 1)
  BY <1>2
<1>4. p < q + 1
  BY <1>3
<1>5. QED BY <1>1, <1>4

\* A derived configuration draws one prize, of natural numbers.
LEMMA DrawsOnePrize ==
  ASSUME NEW c, NEW seqs, DerivedFrom(c, seqs),
         NEW drawn, \A r \in 0..(c.totalWeight - 1) : drawn[r] = CHOOSE u \in SamplePrize(c, r) : TRUE
  PROVE  /\ c.totalWeight \in Nat \ {0} /\ c.prizeSum \in Nat /\ c.topPrizeUnits \in Nat
         /\ c.topPrizeWeight \in Nat
         /\ \A r \in 0..(c.totalWeight - 1) : drawn[r] \in Nat /\ SamplePrize(c, r) = {drawn[r]}
<1>1. PICK words, total, missWeight, n :
        words = Words(seqs) /\ total = c.totalWeight /\ missWeight = c.missWeight /\ n = Len(words)
  OBVIOUS
<1>2. /\ TableOf(words, missWeight, total) /\ c.prizeSum = PrizeSum(words)
      /\ c.topPrizeUnits = words[n].prizeUnits /\ c.topPrizeWeight = WeightAt(words, n)
  BY <1>1 DEF DerivedFrom, Figures
<1>3. /\ Ascending(words) /\ Len(words) # 0 /\ missWeight \in Nat
      /\ total = missWeight + words[Len(words)].cumulativeWeight
  BY <1>2 DEF TableOf
<1>4. /\ n \in 1..n /\ \A i \in 1..n : /\ words[i].prizeUnits \in Nat \ {0}
                                      /\ words[i].cumulativeWeight \in Nat \ {0}
                                      /\ WeightAt(words, i) \in Nat
  BY <1>1, <1>3, TableFacts
<1>5. total \in Nat \ {0} /\ c.topPrizeUnits \in Nat /\ c.topPrizeWeight \in Nat
  BY <1>1, <1>2, <1>3, <1>4
<1>6. /\ \A r \in 0..(total - 1) : SamplePrize(c, r) # {}
      /\ DrawnFrom(drawn, words, missWeight, total)
  BY <1>1, DrawsFromTheTable
<1>7. ASSUME NEW r \in 0..(total - 1) PROVE drawn[r] \in Nat /\ SamplePrize(c, r) = {drawn[r]}
  <2>1. \E u : SamplePrize(c, r) = {u}
    BY <1>6 DEF SamplePrize
  <2>2. SamplePrize(c, r) = {drawn[r]}
    BY <1>1, <2>1
  <2>3. CASE r < missWeight
    BY <1>6, <2>2, <2>3 DEF DrawnFrom
  <2>4. CASE ~(r < missWeight)
    <3>1. \E p : Holds(words, r - missWeight, p)
      BY ONLY <1>3, <2>4, r \in 0..(total - 1), InTheTable
    <3>2. PICK p : Holds(words, r - missWeight, p)
      BY <3>1
    <3>3. p \in 1..n /\ drawn[r] = words[p].prizeUnits
      BY <1>1, <1>6, <3>2 DEF DrawnFrom, Holds
    <3>4. QED BY <1>4, <2>2, <3>3
  <2>5. QED BY <2>3, <2>4
<1>8. c.prizeSum \in Nat
  <2>1. DOMAIN words = 1..n /\ IsFiniteSet(1..n)
    BY <1>1, <1>3, FS_Interval DEF Ascending
  <2>2. PICK f : f = [i \in 1..n |-> words[i].prizeUnits * WeightAt(words, i)]
    OBVIOUS
  <2>3. \A i \in 1..n : f[i] \in Int /\ f[i] >= 0
    <3>1. \A a, b \in Nat : a * b \in Int /\ a * b >= 0
      OBVIOUS
    <3>2. QED BY <1>4, <2>2, <3>1
  <2>4. SumFunctionOnSet(f, 1..n) \in Int /\ SumFunctionOnSet(f, 1..n) >= 0
    BY ONLY <2>1, <2>3, SumType
  <2>5. PrizeSum(words) = SumFunctionOnSet(f, 1..n)
    BY <2>1, <2>2 DEF PrizeSum
  <2>6. QED BY <1>2, <2>4, <2>5
<1>9. QED BY <1>1, <1>5, <1>7, <1>8

\* The payouts of a period, of any wager, sum to less than a unit per round above the
\* quoted one.
LEMMA PaidInAPeriod ==
  ASSUME NEW total \in Nat \ {0}, NEW denominator \in Nat \ {0}, NEW wager \in Nat,
         NEW drawn, \A r \in 0..(total - 1) : drawn[r] \in Nat,
         NEW paid, \A r \in 0..(total - 1) : paid[r] = (wager * drawn[r]) \div denominator,
         NEW prizeSum \in Nat, prizeSum = SumFunctionOnSet(drawn, 0..(total - 1))
  PROVE  SumFunctionOnSet(paid, 0..(total - 1))
           < ((wager * prizeSum) \div (denominator * total) + 1) * total
<1>1. PICK D : D = 0..(total - 1)
  OBVIOUS
<1>2. IsFiniteSet(D)
  BY <1>1, FS_Interval
<1>3. PICK staked : staked = [r \in D |-> wager * drawn[r]]
  OBVIOUS
<1>4. PICK scaled : scaled = [r \in D |-> denominator * paid[r]]
  OBVIOUS
<1>5. ASSUME NEW r \in D
      PROVE  /\ paid[r] \in Int /\ drawn[r] \in Int /\ staked[r] \in Int /\ scaled[r] \in Int
             /\ staked[r] = wager * drawn[r] /\ scaled[r] = denominator * paid[r]
             /\ scaled[r] <= staked[r]
  <2>1. PICK x \in Nat : x = wager * drawn[r]
    BY <1>1
  <2>2. paid[r] = x \div denominator
    BY <1>1, <2>1
  <2>3. x \div denominator \in Nat /\ denominator * (x \div denominator) <= x
    BY Floors
  <2>4. PICK q \in Nat : q = x \div denominator
    BY <2>3
  <2>5. paid[r] = q /\ denominator * q <= x /\ denominator * q \in Int
    BY <2>2, <2>3, <2>4
  <2>6. QED BY <1>1, <1>3, <1>4, <2>1, <2>5
<1>6. SumFunctionOnSet(scaled, D) <= SumFunctionOnSet(staked, D)
  BY ONLY <1>2, <1>5, SumLeq
<1>7. SumFunctionOnSet(scaled, D) = denominator * SumFunctionOnSet(paid, D)
  <2>1. \A r \in D : paid[r] \in Int /\ scaled[r] = denominator * paid[r]
    BY <1>5
  <2>2. QED BY ONLY <1>2, <2>1, denominator \in Int, SumTimes
<1>8. SumFunctionOnSet(staked, D) = wager * SumFunctionOnSet(drawn, D)
  <2>1. \A r \in D : drawn[r] \in Int /\ staked[r] = wager * drawn[r]
    BY <1>5
  <2>2. QED BY ONLY <1>2, <2>1, wager \in Int, SumTimes
<1>9. SumFunctionOnSet(paid, D) \in Int
  BY ONLY <1>2, <1>5, SumType
<1>10. PICK s \in Int, w \in Nat, m \in Nat \ {0} :
         s = SumFunctionOnSet(paid, D) /\ w = wager * prizeSum /\ m = denominator * total
  BY <1>9
<1>11. denominator * s <= w
  BY <1>1, <1>6, <1>7, <1>8, <1>10
<1>12. PICK q \in Nat : q = w \div m /\ w < m * q + m
  BY <1>10, Floors
<1>13. PICK y \in Int : y = (q + 1) * total
  OBVIOUS
<1>14. m * q + m = denominator * y
  BY <1>10, <1>13
<1>15. denominator * s < denominator * y
  <2>1. PICK a \in Int, b \in Int : a = denominator * s /\ b = denominator * y
    OBVIOUS
  <2>2. a <= w
    BY <1>11, <2>1, Zenon
  <2>3. w < b
    BY <1>12, <1>14, <2>1, Zenon
  <2>4. a < b
    BY ONLY <2>2, <2>3, a \in Int, b \in Int, w \in Nat
  <2>5. QED BY <2>1, <2>4, Zenon
<1>16. s < y
  BY <1>15
<1>17. QED BY <1>1, <1>10, <1>12, <1>13, <1>16

\* The quote of a derived configuration covers what it may cost.
LEMMA DerivedCovers ==
  ASSUME NEW c, NEW seqs, DerivedFrom(c, seqs), NEW wager \in Nat
  PROVE  SlotRiskCovers(c, wager)
<1> DEFINE period == 0..(c.totalWeight - 1)
<1> DEFINE drawn == [r \in period |-> CHOOSE u \in SamplePrize(c, r) : TRUE]
<1> DEFINE paid == [r \in period |-> SlotPayout(c, wager, CHOOSE u \in SamplePrize(c, r) : TRUE)]
<1> DEFINE tops == {r \in period : SamplePrize(c, r) = {c.topPrizeUnits}}
<1>1. \A r \in 0..(c.totalWeight - 1) : drawn[r] = CHOOSE u \in SamplePrize(c, r) : TRUE
  OBVIOUS
<1> HIDE DEF drawn
<1>2. /\ c.totalWeight \in Nat \ {0} /\ c.prizeSum \in Nat /\ c.topPrizeUnits \in Nat
      /\ c.topPrizeWeight \in Nat
      /\ \A r \in 0..(c.totalWeight - 1) : drawn[r] \in Nat /\ SamplePrize(c, r) = {drawn[r]}
  BY ONLY <1>1, DerivedFrom(c, seqs), DrawsOnePrize
<1>3. c.prizeDenominator \in Nat \ {0}
  BY DEF DerivedFrom, Figures
<1>4. /\ SumFunctionOnSet(drawn, 0..(c.totalWeight - 1)) = c.prizeSum
      /\ \A r \in 0..(c.totalWeight - 1) : drawn[r] <= c.topPrizeUnits
      /\ Cardinality(Times(drawn, c.topPrizeUnits, c.totalWeight)) = c.topPrizeWeight
  <2>1. DrawnFrom(drawn, Words(seqs), c.missWeight, c.totalWeight)
    BY ONLY <1>1, DerivedFrom(c, seqs), DrawsFromTheTable
  <2>2. PICK body : body = [r \in period |-> IF drawn[r] = c.topPrizeUnits THEN 0 ELSE drawn[r]]
    OBVIOUS
  <2>3. PICK squares : squares = [r \in period |-> body[r] * body[r]]
    OBVIOUS
  <2>4. PICK scale : scale = c.prizeDenominator * c.prizeDenominator * c.totalWeight * c.totalWeight
    OBVIOUS
  <2>5. PICK variance : variance = SumFunctionOnSet(squares, 0..(c.totalWeight - 1)) * c.totalWeight
                                     - SumFunctionOnSet(body, 0..(c.totalWeight - 1))
                                         * SumFunctionOnSet(body, 0..(c.totalWeight - 1))
    OBVIOUS
  <2>6. /\ \A r \in 0..(c.totalWeight - 1) :
             body[r] = IF drawn[r] = c.topPrizeUnits THEN 0 ELSE drawn[r]
        /\ Squares(squares, body, c.totalWeight)
    BY <2>2, <2>3, Zenon DEF Squares
  <2>7. QED BY ONLY <2>1, <2>4, <2>5, <2>6, DerivedFrom(c, seqs), FiguresOfAPeriod
<1>5. \A r \in period : paid[r] = (wager * drawn[r]) \div c.prizeDenominator
  BY <1>1 DEF SlotPayout
<1> DEFINE risk == SlotQuoteRiskParams(c, wager)
<1>7. /\ risk.maxPayout = (wager * c.topPrizeUnits) \div c.prizeDenominator
      /\ risk.probabilityWad = CeilDivide(c.topPrizeWeight * WAD, c.totalWeight)
      /\ risk.expectedPayout = (wager * c.prizeSum) \div (c.prizeDenominator * c.totalWeight)
  BY DEF SlotQuoteRiskParams, SlotPayout
<1> HIDE DEF paid, risk
<1>8. ASSUME NEW r \in period PROVE paid[r] <= risk.maxPayout
  <2>1. PICK x \in Nat, y \in Nat : x = wager * drawn[r] /\ y = wager * c.topPrizeUnits
    BY <1>2
  <2>2. x <= y
    <3>1. drawn[r] \in Nat /\ drawn[r] <= c.topPrizeUnits
      BY <1>2, <1>4
    <3>2. QED BY <1>2, <2>1, <3>1
  <2>3. x \div c.prizeDenominator <= y \div c.prizeDenominator
    BY ONLY <1>3, <2>2, x \in Nat, y \in Nat, FloorsInOrder
  <2>4. QED BY <1>5, <1>7, <2>1, <2>3
<1>9. Cardinality(tops) * WAD <= risk.probabilityWad * c.totalWeight
  <2>1. tops = Times(drawn, c.topPrizeUnits, c.totalWeight)
    BY <1>2 DEF Times
  <2>2. WAD \in Nat
    BY SlotTableAssumption
  <2>3. PICK x \in Int : x = c.topPrizeWeight * WAD
    BY <1>2, <2>2
  <2>4. x <= CeilDivide(x, c.totalWeight) * c.totalWeight
    BY ONLY <1>2, x \in Int, Ceiling
  <2>5. QED BY <1>4, <1>7, <2>1, <2>3, <2>4
<1>10. SumFunctionOnSet(paid, period) < (risk.expectedPayout + 1) * c.totalWeight
  <2>1. /\ \A r \in 0..(c.totalWeight - 1) : paid[r] = (wager * drawn[r]) \div c.prizeDenominator
        /\ \A r \in 0..(c.totalWeight - 1) : drawn[r] \in Nat
        /\ c.prizeSum = SumFunctionOnSet(drawn, 0..(c.totalWeight - 1))
    BY <1>2, <1>4, <1>5
  <2>2. SumFunctionOnSet(paid, 0..(c.totalWeight - 1))
          < ((wager * c.prizeSum) \div (c.prizeDenominator * c.totalWeight) + 1) * c.totalWeight
    BY ONLY <1>2, <1>3, <2>1, wager \in Nat, PaidInAPeriod
  <2>3. QED BY <1>7, <2>2
<1> HIDE DEF tops, period
<1>11. QED
  BY ONLY <1>8, <1>9, <1>10, Zenon DEF SlotRiskCovers, paid, tops, period, risk

\* Every word draws a prize, which the stake and the reserve of the bet pay.
LEMMA DerivedSettles ==
  ASSUME NEW c, NEW seqs, DerivedFrom(c, seqs), NEW wager \in Nat, NEW randomness \in Nat
  PROVE  EveryWordPays(c, wager, randomness)
<1> DEFINE drawn == [r \in 0..(c.totalWeight - 1) |-> CHOOSE u \in SamplePrize(c, r) : TRUE]
<1>1. \A r \in 0..(c.totalWeight - 1) : drawn[r] = CHOOSE u \in SamplePrize(c, r) : TRUE
  OBVIOUS
<1> HIDE DEF drawn
<1>2. /\ c.totalWeight \in Nat \ {0} /\ c.topPrizeUnits \in Nat
      /\ \A r \in 0..(c.totalWeight - 1) : drawn[r] \in Nat /\ SamplePrize(c, r) = {drawn[r]}
  BY ONLY <1>1, DerivedFrom(c, seqs), DrawsOnePrize
<1>3. c.prizeDenominator \in Nat \ {0}
  BY DEF DerivedFrom, Figures
<1>4. \A r \in 0..(c.totalWeight - 1) : drawn[r] <= c.topPrizeUnits
  <2>1. DrawnFrom(drawn, Words(seqs), c.missWeight, c.totalWeight)
    BY ONLY <1>1, DerivedFrom(c, seqs), DrawsFromTheTable
  <2>2. PICK words : words = Words(seqs)
    OBVIOUS
  <2>3. /\ Ascending(words) /\ Len(words) # 0 /\ c.missWeight \in Nat
        /\ c.totalWeight = c.missWeight + words[Len(words)].cumulativeWeight
        /\ c.topPrizeUnits = words[Len(words)].prizeUnits
    BY <2>2 DEF DerivedFrom, Figures, TableOf
  <2>4. DrawnFrom(drawn, words, c.missWeight, c.totalWeight)
    BY <2>1, <2>2
  <2>5. \A r \in 0..(c.totalWeight - 1) : drawn[r] <= words[Len(words)].prizeUnits
    BY ONLY <2>3, <2>4, TopPrize
  <2>6. QED BY <2>3, <2>5
<1>5. PICK r \in 0..(c.totalWeight - 1) : r = randomness % c.totalWeight
  BY <1>2
<1>6. r % c.totalWeight = r
  BY <1>2
<1>7. SamplePrize(c, randomness) = SamplePrize(c, r)
  BY <1>5, <1>6, Zenon DEF SamplePrize
<1>8. SamplePrize(c, randomness) = {drawn[r]}
  BY <1>2, <1>7
<1>9. SlotPayout(c, wager, drawn[r]) <= wager + SlotReservedProfit(c, wager)
  <2>1. PICK x \in Nat, y \in Nat : x = wager * drawn[r] /\ y = wager * c.topPrizeUnits
    BY <1>2
  <2>2. x <= y
    <3>1. drawn[r] \in Nat /\ drawn[r] <= c.topPrizeUnits
      BY <1>2, <1>4
    <3>2. QED BY <1>2, <2>1, <3>1
  <2>3. PICK p \in Nat, q \in Nat : p = x \div c.prizeDenominator /\ q = y \div c.prizeDenominator
    BY <1>3
  <2>4. p <= q
    <3>1. x \div c.prizeDenominator <= y \div c.prizeDenominator
      BY ONLY <1>3, <2>2, x \in Nat, y \in Nat, FloorsInOrder
    <3>2. QED BY <2>3, <3>1
  <2>5. SlotPayout(c, wager, drawn[r]) = p /\ SlotPayout(c, wager, c.topPrizeUnits) = q
    BY <2>1, <2>3 DEF SlotPayout
  <2>6. SlotReservedProfit(c, wager) = IF q > wager THEN q - wager ELSE 0
    BY <2>5 DEF SlotReservedProfit
  <2>7. QED BY <2>4, <2>5, <2>6
<1>10. QED BY <1>8, <1>9 DEF EveryWordPays

-----------------------------------------------------------------------------
(* The titles of the deployer.                                             *)

\* Every configuration of every title was derived from the bytes of some chunks.
TitlesDerived ==
  \A title \in titles : \A n \in DOMAIN title : \E seqs : DerivedFrom(title[n], seqs)

LEMMA TitleIsDerived ==
  ASSUME NEW inputs \in Seq(TableInput), NEW b, NEW title \in DeriveTitle(inputs, b),
         NEW n \in DOMAIN title
  PROVE  \E seqs : DerivedFrom(title[n], seqs)
<1>1. /\ \A i \in DOMAIN inputs : DeriveConfiguration(inputs[i], b) # {}
      /\ title = [i \in DOMAIN inputs |-> CHOOSE c \in DeriveConfiguration(inputs[i], b) : TRUE]
  BY Zenon DEF DeriveTitle
<1>2. n \in DOMAIN inputs
  BY <1>1
<1>3. PICK input \in TableInput : input = inputs[n]
  BY <1>2
<1>4. PICK c : c = title[n]
  OBVIOUS
<1>5. c \in DeriveConfiguration(input, b)
  BY <1>1, <1>2, <1>3, <1>4
<1>6. DerivedFrom(c, input.chunks)
  BY ONLY <1>5, input \in TableInput, Derives
<1>7. QED BY <1>4, <1>6

LEMMA TitlesStayDerived == ContractSpec => []TitlesDerived
<1>1. titles = {} => TitlesDerived
  BY DEF TitlesDerived
<1>2. ASSUME TitlesDerived, [ContractNext]_contractVars PROVE TitlesDerived'
  <2>1. CASE titles' = titles
    BY <1>2, <2>1, Zenon DEF TitlesDerived
  <2>2. ASSUME NEW inputs \in Seq(TableInput), DeployTitle(inputs) PROVE TitlesDerived'
    <3>1. titles' = titles \cup DeriveTitle(inputs, band)
      BY <2>2, Zenon DEF DeployTitle
    <3>2. ASSUME NEW title \in titles', NEW n \in DOMAIN title
          PROVE  \E seqs : DerivedFrom(title[n], seqs)
      <4>1. CASE title \in titles
        BY <1>2, <3>2, <4>1, Zenon DEF TitlesDerived
      <4>2. CASE title \in DeriveTitle(inputs, band)
        BY ONLY <4>2, inputs \in Seq(TableInput), n \in DOMAIN title, TitleIsDerived
      <4>3. QED BY <3>1, <4>1, <4>2
    <3>3. QED BY <3>2, Zenon DEF TitlesDerived
  <2>3. \/ \E b : SetRtpBand(b)
        \/ \E words : DeployChunk(words)
        \/ \E inputs \in Seq(TableInput) : DeployTitle(inputs)
        \/ UNCHANGED contractVars
    BY <1>2, Zenon DEF ContractNext
  <2>4. (\E b : SetRtpBand(b)) \/ (\E words : DeployChunk(words)) \/ UNCHANGED contractVars
          => titles' = titles
    BY DEF SetRtpBand, DeployChunk, contractVars
  <2>5. QED BY <2>1, <2>2, <2>3, <2>4, Zenon
<1>3. QED BY <1>1, <1>2, PTL DEF ContractSpec

\* The author's script calls the contract like anybody, with arguments of its types.
THEOREM ScriptCallsTheContract ==
  ASSUME InputsOf(script.compiled) \in Seq(TableInput), script.sent \in Nat, SendChunk \/ SendTitle
  PROVE  ContractNext
<1>1. CASE SendTitle
  <2>1. DeployTitle(InputsOf(script.compiled))
    BY <1>1, Zenon DEF SendTitle
  <2>2. QED BY <2>1, Zenon DEF ContractNext
<1>2. CASE SendChunk
  <2>1. PICK words : /\ words = ChunksToDeploy(script.compiled)[script.sent + 1] /\ DeployChunk(words)
    BY <1>2, Zenon DEF SendChunk
  <2>2. words \in Seq(TableWord)
    <3>1. PICK inputs \in Seq(TableInput) : inputs = InputsOf(script.compiled)
      OBVIOUS
    <3>2. PICK seqs : seqs = [i \in DOMAIN inputs |-> inputs[i].chunks]
      OBVIOUS
    <3>3. ChunksToDeploy(script.compiled) = FlattenSeq(seqs)
      <4>1. seqs = [i \in DOMAIN script.compiled |-> script.compiled[i].chunks]
        BY <3>1, <3>2 DEF InputsOf
      <4>2. QED BY <4>1, Zenon DEF ChunksToDeploy
    <3>4. seqs \in Seq(Seq(Seq(TableWord)))
      <4>1. ASSUME NEW i \in 1..Len(inputs) PROVE inputs[i].chunks \in Seq(Seq(TableWord))
        <5>1. PICK input \in TableInput : input = inputs[i]
          OBVIOUS
        <5>2. input.chunks \in Seq(Seq(TableWord))
          BY DEF TableInput
        <5>3. QED BY <5>1, <5>2
      <4>2. seqs \in [1..Len(inputs) -> Seq(Seq(TableWord))] /\ Len(inputs) \in Nat
        BY <3>2, <4>1
      <4>3. QED BY <4>2
    <3>5. FlattenSeq(seqs) \in Seq(Seq(TableWord))
      <4>1. CASE seqs = <<>>
        BY <4>1 DEF FlattenSeq
      <4>2. CASE seqs # <<>>
        BY ONLY <3>4, <4>2, FlatIsARow
      <4>3. QED BY <4>1, <4>2
    <3>6. script.sent < Len(FlattenSeq(seqs))
      BY <1>2, <3>3, Zenon DEF SendChunk
    <3>7. PICK all \in Seq(Seq(TableWord)) : all = FlattenSeq(seqs)
      BY <3>5
    <3>8. script.sent + 1 \in 1..Len(all)
      BY <3>6, <3>7
    <3>9. QED BY <2>1, <3>3, <3>7, <3>8
  <2>3. QED BY <2>1, <2>2, Zenon DEF ContractNext
<1>3. QED BY <1>1, <1>2

\* "a title created here cannot misstate its own table" (SlotTitleDeployer.sol),
\* whoever deploys whichever chunks and titles while the owner moves the band: of
\* every configuration of every title, and of tables of any size, the figures quoted
\* are those of the prizes that the binary search of the engine draws over one
\* period, and a client that reads the bytes has the same figures and prizes.
THEOREM TitlesQuoteWhatTheyPay == ContractSpec => []QuotesWhatItPays
<1>1. ASSUME TitlesDerived PROVE QuotesWhatItPays
  <2>1. ASSUME NEW title \in titles, NEW n \in DOMAIN title PROVE PaysAsQuoted(title[n])
    <3>1. PICK seqs : DerivedFrom(title[n], seqs)
      BY <1>1, <2>1, Zenon DEF TitlesDerived
    <3>2. QED BY <3>1, DerivedPays
  <2>2. QED BY <2>1, Zenon DEF QuotesWhatItPays
<1>2. QED BY <1>1, TitlesStayDerived, PTL

\* What is quoted of a title's round, for every wager and whatever titles there are:
\* quoteRiskParams names the highest payout, no smaller a chance of the top prize than
\* it has, and an expected payout less than a unit below the mean (it is rounded down).
\* The body's variance is TitlesQuoteWhatTheyPay's.
THEOREM TitleRiskCovers ==
  ContractSpec => [](\A title \in titles : \A n \in DOMAIN title :
                       \A wager \in Nat : SlotRiskCovers(title[n], wager))
<1>1. ASSUME TitlesDerived
      PROVE  \A title \in titles : \A n \in DOMAIN title :
               \A wager \in Nat : SlotRiskCovers(title[n], wager)
  <2>1. ASSUME NEW title \in titles, NEW n \in DOMAIN title, NEW wager \in Nat
        PROVE  SlotRiskCovers(title[n], wager)
    <3>1. PICK seqs : DerivedFrom(title[n], seqs)
      BY <1>1, <2>1, Zenon DEF TitlesDerived
    <3>2. QED BY ONLY <3>1, wager \in Nat, DerivedCovers
  <2>2. QED BY <2>1
<1>2. QED BY <1>1, TitlesStayDerived, PTL

\* Whatever word arrives, _samplePrize finds a prize and does not revert, and what it
\* pays is within what quoteCaps put aside, the stake and the reserved profit: on any
\* title, for every wager, the host can settle the bet.
THEOREM EveryWordSettles ==
  ContractSpec => [](\A title \in titles : \A n \in DOMAIN title :
                       \A wager \in Nat, randomness \in Nat :
                         EveryWordPays(title[n], wager, randomness))
<1>1. ASSUME TitlesDerived
      PROVE  \A title \in titles : \A n \in DOMAIN title :
               \A wager \in Nat, randomness \in Nat : EveryWordPays(title[n], wager, randomness)
  <2>1. ASSUME NEW title \in titles, NEW n \in DOMAIN title, NEW wager \in Nat, NEW randomness \in Nat
        PROVE  EveryWordPays(title[n], wager, randomness)
    <3>1. PICK seqs : DerivedFrom(title[n], seqs)
      BY <1>1, <2>1, Zenon DEF TitlesDerived
    <3>2. QED BY ONLY <3>1, wager \in Nat, randomness \in Nat, DerivedSettles
  <2>2. QED BY <2>1
<1>2. QED BY <1>1, TitlesStayDerived, PTL

-----------------------------------------------------------------------------
(* The author's script.  Euclid's algorithm, by which a prize is reduced.  *)

-----------------------------------------------------------------------------
(* Euclid's algorithm.                                                     *)

Divides(d, a) == \E k \in Nat : a = d * k

\* d is the greatest common divisor of a and b.
IsGreatest(d, a, b) ==
  /\ d \in Nat \ {0} /\ Divides(d, a) /\ Divides(d, b)
  /\ \A e \in Nat \ {0} : Divides(e, a) /\ Divides(e, b) => e <= d

\* The divisors of a and b are those of b and of the remainder.
LEMMA SameDivisors ==
  ASSUME NEW a \in Nat, NEW b \in Nat \ {0}, NEW d \in Nat \ {0}, Divides(d, b)
  PROVE  a % b \in 0..(b - 1) /\ (Divides(d, a) <=> Divides(d, a % b))
<1>1. PICK q \in Int, r \in 0..(b - 1) : r = a % b /\ a = b * q + r
  <2>1. b \in Nat \ {0} /\ a \in Int
    OBVIOUS
  <2>2. QED BY ONLY <2>1, DivMod
<1>2. PICK m \in Nat : b = d * m
  BY DEF Divides
<1>3. PICK p \in Int : p = m * q
  BY <1>1, <1>2
<1>4. a = d * p + r
  <2>1. b * q = d * p
    <3>1. b * q = (d * m) * q
      BY <1>2
    <3>2. (d * m) * q = d * (m * q)
      BY ONLY d \in Int, m \in Int, q \in Int
    <3>3. QED BY <1>3, <3>1, <3>2
  <2>2. QED BY <1>1, <2>1
<1>5. ASSUME Divides(d, r) PROVE Divides(d, a)
  <2>1. PICK k \in Nat : r = d * k
    BY <1>5 DEF Divides
  <2>2. a = d * (p + k)
    BY ONLY <1>4, <2>1, d \in Int, p \in Int, k \in Int
  <2>3. p + k \in Nat
    <3>1. SUFFICES ASSUME p + k < 0 PROVE FALSE
      BY <1>3, <2>1
    <3>2. d * (p + k) < 0
      BY ONLY <3>1, d \in Nat \ {0}, p \in Int, k \in Int
    <3>3. QED BY <2>2, <3>2
  <2>4. QED BY <2>2, <2>3 DEF Divides
<1>6. ASSUME Divides(d, a) PROVE Divides(d, r)
  <2>1. PICK k \in Nat : a = d * k
    BY <1>6 DEF Divides
  <2>2. r = d * (k - p)
    <3>1. d * (k - p) = d * k - d * p
      BY ONLY d \in Int, p \in Int, k \in Int
    <3>2. d * p \in Int /\ d * k \in Int
      BY ONLY d \in Int, p \in Int, k \in Int
    <3>3. QED BY ONLY <1>4, <2>1, <3>1, <3>2, r \in Int
  <2>3. k - p \in Nat
    <3>1. SUFFICES ASSUME k - p < 0 PROVE FALSE
      BY <1>3, <2>1
    <3>2. d * (k - p) < 0
      BY ONLY <3>1, d \in Nat \ {0}, p \in Int, k \in Int
    <3>3. QED BY <1>1, <2>2, <3>2
  <2>4. QED BY <2>2, <2>3 DEF Divides
<1>7. QED BY <1>1, <1>5, <1>6

\* What Euclid's algorithm is to find: of a and nothing, a.
Greatest(a, b) == IF b = 0 THEN a ELSE CHOOSE d : IsGreatest(d, a, b)

LEMMA GreatestExists ==
  ASSUME NEW a \in Nat, NEW b \in Nat \ {0}
  PROVE  IsGreatest(Greatest(a, b), a, b)
<1> DEFINE T == {n \in Nat : \E d \in Nat \ {0} : Divides(d, a) /\ Divides(d, b) /\ n = b - d}
<1>1. b - 1 \in T
  <2>1. Divides(1, a) /\ Divides(1, b)
    <3>1. a = 1 * a /\ b = 1 * b
      OBVIOUS
    <3>2. QED BY <3>1 DEF Divides
  <2>2. QED BY <2>1
<1>2. PICK n \in T : \A m \in T : n <= m
  <2>1. T \subseteq Nat
    OBVIOUS
  <2> HIDE DEF T
  <2>2. QED BY <1>1, <2>1, LeastNumber
<1>3. PICK d \in Nat \ {0} : Divides(d, a) /\ Divides(d, b) /\ n = b - d
  BY <1>2
<1>4. ASSUME NEW e \in Nat \ {0}, Divides(e, a), Divides(e, b)
      PROVE  e <= d
  <2>1. e <= b
    <3>1. PICK k \in Nat : b = e * k
      BY <1>4 DEF Divides
    <3>2. k # 0
      BY <3>1
    <3>3. QED BY ONLY <3>1, <3>2, e \in Nat \ {0}, k \in Nat
  <2>2. b - e \in T
    BY <1>4, <2>1
  <2>3. QED BY <1>2, <1>3, <2>2
<1>5. IsGreatest(d, a, b)
  BY <1>3, <1>4 DEF IsGreatest
<1>6. Greatest(a, b) = CHOOSE x : IsGreatest(x, a, b)
  BY DEF Greatest
<1>7. QED BY <1>5, <1>6

\* With a divisor in common that no other exceeds, there is one only.
LEMMA OneGreatest ==
  ASSUME NEW a, NEW b, NEW d, NEW e, IsGreatest(d, a, b), IsGreatest(e, a, b)
  PROVE  d = e
BY DEF IsGreatest

LEMMA GreatestSteps ==
  ASSUME NEW a \in Nat, NEW b \in Nat \ {0}
  PROVE  a % b \in 0..(b - 1) /\ Greatest(a, b) = Greatest(b, a % b)
<1>1. PICK r \in 0..(b - 1) : r = a % b
  OBVIOUS
<1>2. \A d \in Nat \ {0} : Divides(d, b) => (Divides(d, a) <=> Divides(d, r))
  BY <1>1, SameDivisors
<1>3. IsGreatest(Greatest(a, b), a, b)
  BY GreatestExists
<1>4. CASE r = 0
  <2>1. IsGreatest(b, a, b)
    <3>1. Divides(b, b) /\ Divides(b, r)
      <4>1. b = b * 1 /\ r = b * 0
        BY <1>4
      <4>2. QED BY <4>1 DEF Divides
    <3>2. ASSUME NEW e \in Nat \ {0}, Divides(e, b) PROVE e <= b
      <4>1. PICK k \in Nat : b = e * k
        BY <3>2 DEF Divides
      <4>2. k # 0
        BY <4>1
      <4>3. QED BY ONLY <4>1, <4>2, e \in Nat \ {0}, k \in Nat
    <3>3. QED BY <1>2, <3>1, <3>2 DEF IsGreatest
  <2>2. Greatest(b, r) = b
    BY <1>4 DEF Greatest
  <2>3. QED BY <1>1, <1>3, <2>1, <2>2, OneGreatest
<1>5. CASE r # 0
  <2>1. IsGreatest(Greatest(b, r), b, r)
    BY <1>5, GreatestExists
  <2>2. IsGreatest(Greatest(b, r), a, b)
    BY <1>2, <2>1 DEF IsGreatest
  <2>3. QED BY <1>1, <1>3, <2>2, OneGreatest
<1>6. QED BY <1>4, <1>5

IsEuclid(f) == f = [pair \in Nat \X Nat |-> IF pair[2] = 0 THEN pair[1] ELSE f[<<pair[2], pair[1] % pair[2]>>]]

LEMMA EuclidExists == IsEuclid([pair \in Nat \X Nat |-> Greatest(pair[1], pair[2])])
<1> DEFINE g == [pair \in Nat \X Nat |-> Greatest(pair[1], pair[2])]
           h == [pair \in Nat \X Nat |-> IF pair[2] = 0 THEN pair[1] ELSE g[<<pair[2], pair[1] % pair[2]>>]]
<1>1. \A a, b \in Nat : g[<<a, b>>] = Greatest(a, b)
  OBVIOUS
<1> HIDE DEF g
<1>2. ASSUME NEW pair \in Nat \X Nat
      PROVE  Greatest(pair[1], pair[2]) = IF pair[2] = 0 THEN pair[1] ELSE g[<<pair[2], pair[1] % pair[2]>>]
  <2>1. PICK a \in Nat, b \in Nat : pair = <<a, b>>
    OBVIOUS
  <2>2. CASE b = 0
    BY <2>1, <2>2 DEF Greatest
  <2>3. CASE b # 0
    <3>1. a % b \in Nat /\ Greatest(a, b) = Greatest(b, a % b)
      <4>1. a % b \in 0..(b - 1) /\ Greatest(a, b) = Greatest(b, a % b)
        <5>1. a \in Nat /\ b \in Nat \ {0}
          BY <2>3
        <5>2. QED BY ONLY <5>1, GreatestSteps
      <4>2. QED BY <4>1
    <3>2. g[<<b, a % b>>] = Greatest(b, a % b)
      BY <1>1, <3>1
    <3>3. QED BY <2>1, <2>3, <3>1, <3>2
  <2>4. QED BY <2>2, <2>3
<1>3. g = h
  BY <1>2 DEF g
<1>4. IsEuclid(g)
  BY <1>3 DEF IsEuclid
<1>5. QED BY <1>4 DEF g

\* greatestCommonDivisor finds it.
LEMMA EuclidFinds ==
  ASSUME NEW a \in Nat, NEW b \in Nat
  PROVE  greatestCommonDivisor[<<a, b>>] = Greatest(a, b)
<1>1. PICK f : IsEuclid(f) /\ greatestCommonDivisor = f
  <2>1. greatestCommonDivisor = CHOOSE f : IsEuclid(f)
    BY DEF greatestCommonDivisor, IsEuclid
  <2>2. QED BY <2>1, EuclidExists
<1> DEFINE T == {n \in Nat : \E m \in Nat : f[<<m, n>>] # Greatest(m, n)}
<1>2. T = {}
  <2>1. SUFFICES ASSUME T # {} PROVE FALSE
    OBVIOUS
  <2>2. PICK n \in T : \A k \in T : n <= k
    <3>1. T \subseteq Nat
      OBVIOUS
    <3> HIDE DEF T
    <3>2. QED BY <2>1, <3>1, LeastNumber
  <2>3. PICK m \in Nat : f[<<m, n>>] # Greatest(m, n)
    BY <2>2
  <2>4. n \in Nat /\ f[<<m, n>>] = IF n = 0 THEN m ELSE f[<<n, m % n>>]
    <3>1. n \in Nat /\ <<m, n>> \in Nat \X Nat
      BY <2>2
    <3>2. f[<<m, n>>] = IF <<m, n>>[2] = 0 THEN <<m, n>>[1] ELSE f[<<<<m, n>>[2], <<m, n>>[1] % <<m, n>>[2]>>]
      BY <1>1, <3>1 DEF IsEuclid
    <3>3. QED BY <3>1, <3>2
  <2>5. n # 0
    BY <2>3, <2>4 DEF Greatest
  <2>6. m % n \in 0..(n - 1) /\ Greatest(m, n) = Greatest(n, m % n)
    BY <2>4, <2>5, GreatestSteps
  <2>7. f[<<n, m % n>>] # Greatest(n, m % n)
    BY <2>3, <2>4, <2>5, <2>6
  <2>8. m % n \in T
    BY <2>4, <2>6, <2>7
  <2>9. n <= m % n /\ m % n < n /\ m % n \in Nat
    BY <2>2, <2>4, <2>6, <2>8
  <2>10. QED BY <2>4, <2>9
<1>3. b \notin T
  BY <1>2
<1>4. QED BY <1>1, <1>3

\* A reduced fraction is one, and of the same value.
LEMMA ReducedIsRational ==
  ASSUME NEW numerator \in Nat, NEW denominator \in Nat \ {0}
  PROVE  /\ Reduced(numerator, denominator).numerator \in Nat
         /\ Reduced(numerator, denominator).denominator \in Nat \ {0}
<1>1. PICK d : d = greatestCommonDivisor[<<numerator, denominator>>]
  OBVIOUS
<1>2. IsGreatest(d, numerator, denominator)
  BY <1>1, EuclidFinds, GreatestExists
<1>3. PICK k \in Nat : denominator = d * k
  BY <1>2 DEF IsGreatest, Divides
<1>4. d \in Nat \ {0} /\ k # 0
  BY <1>2, <1>3 DEF IsGreatest
<1>5. denominator \div d = k
  <2>1. (d * k) \div d = k
    BY ONLY <1>3, <1>4, d \in Nat \ {0}, k \in Nat
  <2>2. QED BY <1>3, <2>1
<1>6. numerator \div d \in Nat
  BY <1>4
<1>7. QED BY <1>1, <1>3, <1>4, <1>5, <1>6 DEF Reduced

-----------------------------------------------------------------------------
(* Numbers in ascending order, and the tiers that pack.                    *)

LEMMA OneToSize ==
  ASSUME NEW n \in Nat PROVE IsFiniteSet(1..n) /\ Cardinality(1..n) = n
<1>1. 1 \in Int /\ n \in Int
  OBVIOUS
<1>2. QED BY <1>1, FS_Interval

\* s lists the numbers of S, each once, in ascending order.
Lists(s, S) ==
  /\ s \in [1..Cardinality(S) -> S]
  /\ \A i, j \in 1..Cardinality(S) : i < j => s[i] < s[j]
  /\ \A x \in S : \E i \in 1..Cardinality(S) : s[i] = x

\* The place of a number among those of a set.
PlaceOf(S, x) == Cardinality({y \in S : y <= x})

LEMMA PlacesGrow ==
  ASSUME NEW S \in SUBSET Nat, IsFiniteSet(S), NEW x \in S, NEW z \in S
  PROVE  /\ PlaceOf(S, x) \in 1..Cardinality(S)
         /\ x <= z => PlaceOf(S, x) <= PlaceOf(S, z)
         /\ x < z => PlaceOf(S, x) < PlaceOf(S, z)
<1>1. PICK A, B : A = {y \in S : y <= x} /\ B = {y \in S : y <= z}
  OBVIOUS
<1>2. /\ A \in SUBSET S /\ B \in SUBSET S /\ x \in A /\ z \in B
      /\ x <= z => A \subseteq B
      /\ x < z => z \notin A
  <2>1. x \in Nat /\ z \in Nat /\ S \subseteq Nat
    OBVIOUS
  <2>2. \A y \in S : (y \in A <=> y <= x) /\ (y \in B <=> y <= z)
    BY <1>1
  <2>3. A \in SUBSET S /\ B \in SUBSET S
    BY <1>1
  <2>4. ASSUME x <= z, NEW y \in A PROVE y \in B
    <3>1. y \in S /\ y \in Nat /\ y <= x
      BY <2>1, <2>2, <2>3
    <3>2. y <= z
      BY ONLY <2>1, <2>4, <3>1
    <3>3. QED BY <2>2, <3>1, <3>2
  <2>5. x \in A /\ z \in B /\ (x < z => z \notin A)
    BY <2>1, <2>2
  <2>6. QED BY <2>3, <2>4, <2>5
<1>3. /\ IsFiniteSet(A) /\ IsFiniteSet(B)
      /\ Cardinality(A) <= Cardinality(S)
  BY ONLY <1>2, IsFiniteSet(S), FS_Subset
<1>4. /\ Cardinality(A) \in Nat /\ Cardinality(B) \in Nat /\ Cardinality(S) \in Nat
      /\ Cardinality(A) # 0
  BY <1>2, <1>3, FS_CardinalityType, FS_EmptySet
<1>5. ASSUME A \subseteq B PROVE Cardinality(A) <= Cardinality(B) /\ (Cardinality(A) = Cardinality(B) => A = B)
  <2>1. A \in SUBSET B
    BY <1>5
  <2>2. QED BY <1>3, <2>1, FS_Subset
<1>6. x <= z => Cardinality(A) <= Cardinality(B)
  BY <1>2, <1>5
<1>7. ASSUME x < z PROVE Cardinality(A) < Cardinality(B)
  <2>1. A \subseteq B /\ A # B
    BY <1>2, <1>7
  <2>2. Cardinality(A) <= Cardinality(B) /\ Cardinality(A) # Cardinality(B)
    BY <1>5, <2>1
  <2>3. QED BY <1>4, <2>2
<1>8. QED BY <1>1, <1>3, <1>4, <1>6, <1>7 DEF PlaceOf

\* Every place is somebody's.
LEMMA PlacesAreTaken ==
  ASSUME NEW S \in SUBSET Nat, IsFiniteSet(S), NEW i \in 1..Cardinality(S)
  PROVE  \E x \in S : PlaceOf(S, x) = i
<1> DEFINE place == [x \in S |-> PlaceOf(S, x)]
<1>1. PICK n : n = Cardinality(S)
  OBVIOUS
<1>2. n \in Nat
  BY <1>1, FS_CardinalityType
<1>3. \A x, z \in S : /\ PlaceOf(S, x) \in 1..n
                      /\ x < z => PlaceOf(S, x) < PlaceOf(S, z)
  BY <1>1, PlacesGrow
<1>4. place \in [S -> 1..n]
  BY <1>3
<1>5. \A x, z \in S : place[x] = place[z] => x = z
  <2>1. SUFFICES ASSUME NEW x \in S, NEW z \in S, PlaceOf(S, x) = PlaceOf(S, z), x # z PROVE FALSE
    OBVIOUS
  <2>2. x < z \/ z < x
    BY <2>1
  <2>3. PlaceOf(S, x) \in Nat /\ PlaceOf(S, z) \in Nat
        /\ (PlaceOf(S, x) < PlaceOf(S, z) \/ PlaceOf(S, z) < PlaceOf(S, x))
    BY <1>3, <2>2
  <2>4. QED BY <2>1, <2>3
<1>6. \A x \in S : place[x] = PlaceOf(S, x)
  OBVIOUS
<1> HIDE DEF place
<1>7. place \in Surjection(S, 1..n)
  <2>1. place \in Injection(S, 1..n)
    BY <1>4, <1>5 DEF Injection, IsInjective
  <2>2. IsFiniteSet(1..n) /\ Cardinality(1..n) = Cardinality(S)
    BY <1>1, <1>2, OneToSize
  <2>3. QED BY <2>1, <2>2, FS_Injection
<1>8. QED BY <1>1, <1>6, <1>7 DEF Surjection

\* Sorted lists a finite set of numbers in order.
LEMMA SortsASet ==
  ASSUME NEW S \in SUBSET Nat, IsFiniteSet(S)
  PROVE  Lists(Sorted(S), S) /\ Cardinality(S) \in Nat
<1>1. PICK n : n = Cardinality(S)
  OBVIOUS
<1>2. n \in Nat
  BY <1>1, FS_CardinalityType
<1>3. PICK s : s = Sorted(S)
  OBVIOUS
<1>4. s = [i \in 1..n |-> CHOOSE x \in S : PlaceOf(S, x) = i]
  BY <1>1, <1>3 DEF Sorted, PlaceOf
<1>5. \A i \in 1..n : s[i] \in S /\ PlaceOf(S, s[i]) = i
  <2>1. \A i \in 1..n : \E x \in S : PlaceOf(S, x) = i
    BY <1>1, PlacesAreTaken
  <2>2. QED BY <1>4, <2>1
<1>6. \A x, z \in S : /\ PlaceOf(S, x) \in 1..n
                      /\ x <= z => PlaceOf(S, x) <= PlaceOf(S, z)
                      /\ x < z => PlaceOf(S, x) < PlaceOf(S, z)
  BY <1>1, PlacesGrow
<1>7. s \in [1..n -> S]
  BY <1>4, <1>5
<1>8. ASSUME NEW i \in 1..n, NEW j \in 1..n, i < j PROVE s[i] < s[j]
  <2>0. s[i] \in Nat /\ s[j] \in Nat
    BY <1>5
  <2>1. SUFFICES ASSUME s[j] <= s[i] PROVE FALSE
    BY <2>0
  <2>2. j <= i
    <3>1. /\ s[i] \in S /\ PlaceOf(S, s[i]) = i
          /\ s[j] \in S /\ PlaceOf(S, s[j]) = j
      BY <1>5
    <3>2. PlaceOf(S, s[j]) <= PlaceOf(S, s[i])
      BY ONLY <1>6, <2>1, <3>1
    <3>3. QED BY <3>1, <3>2
  <2>3. QED BY <1>8, <2>2
<1>9. ASSUME NEW x \in S PROVE \E i \in 1..n : s[i] = x
  <2>1. PICK i \in 1..n : i = PlaceOf(S, x)
    BY <1>6
  <2>2. s[i] \in S /\ PlaceOf(S, s[i]) = i
    BY <1>5
  <2>3. ~(s[i] < x) /\ ~(x < s[i])
    <3>1. /\ s[i] < x => PlaceOf(S, s[i]) < PlaceOf(S, x)
          /\ x < s[i] => PlaceOf(S, x) < PlaceOf(S, s[i])
      BY ONLY <1>6, <2>2, x \in S
    <3>2. QED BY ONLY <2>1, <2>2, <3>1, n \in Nat
  <2>4. s[i] \in Nat /\ x \in Nat
    BY <2>2
  <2>5. s[i] = x
    BY ONLY <2>3, <2>4
  <2>6. QED BY <2>5
<1>10. Lists(s, S)
  BY <1>1, <1>7, <1>8, <1>9 DEF Lists
<1>11. QED BY <1>1, <1>2, <1>3, <1>10

LEMMA ReducedIsARational ==
  ASSUME NEW numerator \in Nat, NEW denominator \in Nat \ {0}
  PROVE  Reduced(numerator, denominator) \in Rational
<1>1. PICK n, d : /\ Reduced(numerator, denominator) = [numerator |-> n, denominator |-> d]
                  /\ n = Reduced(numerator, denominator).numerator
                  /\ d = Reduced(numerator, denominator).denominator
  BY DEF Reduced
<1>2. n \in Nat /\ d \in Nat \ {0}
  BY <1>1, ReducedIsRational
<1>3. QED BY <1>1, <1>2 DEF Rational

LEMMA UnitsAreCounted ==
  ASSUME NEW prize \in Rational, NEW d \in Nat
  PROVE  PrizeUnits(prize, d) \in Nat
<1>1. PICK p : p = ParsePrize(prize)
  OBVIOUS
<1>2. prize.numerator \in Nat /\ prize.denominator \in Nat \ {0}
  BY DEF Rational
<1>3. p \in Rational
  BY <1>1, <1>2, ReducedIsARational DEF ParsePrize
<1>4. PICK n \in Nat, k \in Nat \ {0} : n = p.numerator /\ k = p.denominator
  BY <1>3 DEF Rational
<1>5. PICK a \in Nat : a = n * d
  BY <1>4
<1>6. a \div k \in Nat
  BY ONLY a \in Nat, k \in Nat \ {0}
<1>7. QED BY <1>1, <1>4, <1>5, <1>6 DEF PrizeUnits

\* The weight that a list gives to an amount is a count.
LEMMA WeightsAreCounted ==
  ASSUME NEW n \in Nat, NEW list \in [1..n -> ListedTier], NEW d \in Nat, NEW u
  PROVE  WeightByUnits(list, d, u) \in Nat
<1>1. PICK f : f = [i \in DOMAIN list |->
                      IF PrizeUnits(list[i].prize, d) = u THEN list[i].weight ELSE 0]
  OBVIOUS
<1>2. \A i \in 1..n : f[i] \in Nat
  <2>1. ASSUME NEW i \in 1..n PROVE list[i].weight \in Nat
    <3>1. list[i] \in ListedTier
      OBVIOUS
    <3>2. QED BY <3>1 DEF ListedTier
  <2>2. QED BY <1>1, <2>1
<1>3. IsFiniteSet(1..n)
  BY OneToSize
<1>4. SumFunctionOnSet(f, 1..n) \in Int /\ SumFunctionOnSet(f, 1..n) >= 0
  <2>1. \A x \in 1..n : f[x] \in Int /\ f[x] >= 0
    BY <1>2
  <2>2. QED BY ONLY <1>3, <2>1, SumType
<1>5. WeightByUnits(list, d, u) = SumFunctionOnSet(f, 1..n)
  BY <1>1 DEF WeightByUnits
<1>6. QED BY <1>4, <1>5

\* The first places of a listing.
Prefix(s, i) == {s[j] : j \in 1..i}

LEMMA PrefixGrows ==
  ASSUME NEW S \in SUBSET Nat, NEW s, Lists(s, S), NEW m \in Nat, m = Cardinality(S), NEW i \in 1..m
  PROVE  /\ Prefix(s, i) \subseteq S
         /\ s[i] \in Prefix(s, i)
         /\ Prefix(s, i) \ {s[i]} = Prefix(s, i - 1)
<1>1. s \in [1..m -> S] /\ \A j, k \in 1..m : j < k => s[j] < s[k]
  BY DEF Lists
<1>2. \A j \in 1..i : s[j] \in S
  BY <1>1
<1>3. i \in 1..i
  OBVIOUS
<1>4. ASSUME NEW j \in 1..(i - 1) PROVE s[j] # s[i]
  <2>1. j \in 1..m /\ j < i /\ s[j] \in Nat /\ s[i] \in Nat
    <3>1. j \in 1..m /\ j < i
      OBVIOUS
    <3>2. s[j] \in S /\ s[i] \in S
      BY <1>1, <3>1
    <3>3. QED BY <3>1, <3>2
  <2>2. s[j] < s[i]
    BY <1>1, <2>1
  <2>3. QED BY <2>1, <2>2
<1>5. Prefix(s, i) \ {s[i]} \subseteq Prefix(s, i - 1)
  <2>1. ASSUME NEW x \in Prefix(s, i), x # s[i] PROVE x \in Prefix(s, i - 1)
    <3>1. PICK j \in 1..i : x = s[j]
      BY DEF Prefix
    <3>2. j \in 1..(i - 1)
      BY <2>1, <3>1
    <3>3. QED BY <3>1, <3>2 DEF Prefix
  <2>2. QED BY <2>1
<1>6. Prefix(s, i - 1) \subseteq Prefix(s, i) \ {s[i]}
  <2>1. ASSUME NEW x \in Prefix(s, i - 1) PROVE x \in Prefix(s, i) /\ x # s[i]
    <3>1. PICK j \in 1..(i - 1) : x = s[j]
      BY DEF Prefix
    <3>2. j \in 1..i
      OBVIOUS
    <3>3. QED BY <1>4, <3>1, <3>2 DEF Prefix
  <2>2. QED BY <2>1
<1>7. QED BY <1>2, <1>3, <1>5, <1>6 DEF Prefix

\* packTiers leaves ascending prizes, each with its weight and the weight so far.
LEMMA PackIsPacked ==
  ASSUME NEW n \in Nat, NEW list \in [1..n -> ListedTier], NEW d \in Nat,
         NEW tiers, tiers = PackTiers(list, d), tiers # <<>>
  PROVE  Packed(tiers)
<1>1. PICK units : units = {PrizeUnits(list[i].prize, d) : i \in DOMAIN list}
  OBVIOUS
<1>2. PICK weight : weight = [u \in units |-> WeightByUnits(list, d, u)]
  OBVIOUS
<1>3. PICK winning : winning = {u \in units \ {0} : weight[u] > 0}
  OBVIOUS
<1>4. PICK s : s = Sorted(winning)
  OBVIOUS
<1>5. tiers = [i \in DOMAIN s |->
                 [prizeUnits |-> s[i], weight |-> weight[s[i]],
                  cumulativeWeight |-> SumFunctionOnSet(weight, Prefix(s, i))]]
  <2>1. PackTiers(list, d) = [i \in DOMAIN s |->
                 [prizeUnits |-> s[i], weight |-> weight[s[i]],
                  cumulativeWeight |-> SumFunctionOnSet(weight, {s[j] : j \in 1..i})]]
    BY <1>1, <1>2, <1>3, <1>4, Zenon DEF PackTiers
  <2>2. QED BY <2>1 DEF Prefix
<1>6. units \subseteq Nat /\ IsFiniteSet(units)
  <2>1. \A i \in 1..n : PrizeUnits(list[i].prize, d) \in Nat
    <3>1. ASSUME NEW i \in 1..n PROVE list[i].prize \in Rational
      <4>1. list[i] \in ListedTier
        OBVIOUS
      <4>2. QED BY <4>1 DEF ListedTier
    <3>2. QED BY <3>1, UnitsAreCounted
  <2>2. PICK f : f = [i \in 1..n |-> PrizeUnits(list[i].prize, d)]
    OBVIOUS
  <2>3. f \in Surjection(1..n, units)
    BY <1>1, <2>2 DEF Surjection
  <2>4. IsFiniteSet(1..n)
    BY OneToSize
  <2>5. IsFiniteSet(units)
    BY <2>3, <2>4, FS_Surjection
  <2>6. QED BY <1>1, <2>1, <2>5
<1>7. \A u \in units : weight[u] \in Nat
  BY <1>2, WeightsAreCounted
<1>8. /\ winning \in SUBSET Nat /\ winning \in SUBSET units
      /\ \A u \in winning : u # 0 /\ weight[u] \in Nat /\ weight[u] > 0
  BY <1>3, <1>6, <1>7
<1>9. IsFiniteSet(winning)
  BY <1>6, <1>8, FS_Subset
<1>10. PICK m \in Nat : m = Cardinality(winning) /\ Lists(s, winning)
  BY ONLY <1>4, <1>8, <1>9, SortsASet
<1>11. s \in [1..m -> winning] /\ \A i, j \in 1..m : i < j => s[i] < s[j]
  BY <1>10 DEF Lists
<1> DEFINE total(i) == SumFunctionOnSet(weight, Prefix(s, i))
<1>12. /\ DOMAIN tiers = 1..m
       /\ \A i \in 1..m : tiers[i] = [prizeUnits |-> s[i], weight |-> weight[s[i]], cumulativeWeight |-> total(i)]
  BY <1>5, <1>11
<1>13. ASSUME NEW i \in 1..m
       PROVE  /\ total(i) \in Nat
              /\ total(i) = total(i - 1) + weight[s[i]]
  <2>1. /\ Prefix(s, i) \subseteq winning
        /\ s[i] \in Prefix(s, i)
        /\ Prefix(s, i) \ {s[i]} = Prefix(s, i - 1)
    BY ONLY <1>8, <1>10, i \in 1..m, m \in Nat, PrefixGrows
  <2>2. IsFiniteSet(Prefix(s, i))
    <3>1. Prefix(s, i) \in SUBSET winning
      BY <2>1
    <3>2. QED BY <1>9, <3>1, FS_Subset
  <2>3. \A x \in Prefix(s, i) : weight[x] \in Int /\ weight[x] >= 0
    <3>1. ASSUME NEW x \in Prefix(s, i) PROVE weight[x] \in Nat
      BY ONLY <1>8, <2>1, <3>1
    <3>2. QED BY <3>1
  <2>4. total(i) \in Int /\ total(i) >= 0
    BY ONLY <2>2, <2>3, SumType
  <2>5. total(i) = weight[s[i]] + SumFunctionOnSet(weight, Prefix(s, i) \ {s[i]})
    BY ONLY <2>1, <2>2, <2>3, SumSplit
  <2>6. IsFiniteSet(Prefix(s, i - 1)) /\ \A x \in Prefix(s, i - 1) : weight[x] \in Int
    <3>1. Prefix(s, i - 1) \in SUBSET Prefix(s, i)
      BY <2>1
    <3>2. QED BY <2>2, <2>3, <3>1, FS_Subset
  <2>7. total(i - 1) \in Int
    BY ONLY <2>6, SumType
  <2>8. weight[s[i]] \in Int
    BY <2>1, <2>3
  <2> HIDE DEF total
  <2>9. total(i) = weight[s[i]] + total(i - 1)
    BY <2>1, <2>5 DEF total
  <2>10. QED BY <2>4, <2>7, <2>8, <2>9
<1>14. total(0) = 0
  <2>1. Prefix(s, 0) = {}
    BY DEF Prefix
  <2>2. QED BY <2>1, SumEmpty
<1> HIDE DEF total
<1>15. \A i \in 1..m : /\ s[i] \in Nat /\ s[i] > 0
                       /\ weight[s[i]] \in Nat /\ weight[s[i]] > 0
  <2>1. ASSUME NEW i \in 1..m
        PROVE  s[i] \in Nat /\ s[i] # 0 /\ weight[s[i]] \in Nat /\ weight[s[i]] > 0
    <3>1. PICK u \in winning : u = s[i]
      BY <1>11
    <3>2. u \in Nat
      BY <1>8
    <3>3. u # 0 /\ weight[u] \in Nat /\ weight[u] > 0
      BY <1>8
    <3>4. QED BY <3>1, <3>2, <3>3
  <2>2. QED BY <2>1
<1>16. tiers \in Seq(PackedTier)
  <2>1. ASSUME NEW i \in 1..m PROVE tiers[i] \in PackedTier
    <3>1. PICK a \in Nat, b \in Nat, c \in Nat : a = s[i] /\ b = weight[s[i]] /\ c = total(i)
      BY <1>13, <1>15
    <3>2. tiers[i] = [prizeUnits |-> a, weight |-> b, cumulativeWeight |-> c]
      BY <1>12, <3>1
    <3>3. QED BY <3>2 DEF PackedTier
  <2>2. tiers \in [1..m -> PackedTier]
    BY <1>5, <1>11, <1>12, <2>1
  <2>3. QED BY <2>2
<1>17. ASSUME NEW i \in 1..m
       PROVE  /\ tiers[i].prizeUnits > Previous(tiers, i).prizeUnits
              /\ tiers[i].weight > 0
              /\ tiers[i].cumulativeWeight = Previous(tiers, i).cumulativeWeight + tiers[i].weight
  <2>1. /\ tiers[i].prizeUnits = s[i] /\ tiers[i].weight = weight[s[i]]
        /\ tiers[i].cumulativeWeight = total(i)
    BY <1>12
  <2>2. Previous(tiers, i).cumulativeWeight = total(i - 1)
    <3>1. CASE i = 1
      BY <1>14, <3>1 DEF Previous
    <3>2. CASE i # 1
      <4>1. i - 1 \in 1..m
        BY <3>2
      <4>2. QED BY <1>12, <3>2, <4>1 DEF Previous
    <3>3. QED BY <3>1, <3>2
  <2>3. s[i] > Previous(tiers, i).prizeUnits
    <3>1. CASE i = 1
      BY <1>15, <3>1 DEF Previous
    <3>2. CASE i # 1
      <4>1. i - 1 \in 1..m /\ i - 1 < i
        BY <3>2
      <4>2. Previous(tiers, i).prizeUnits = s[i - 1]
        BY <1>12, <3>2, <4>1 DEF Previous
      <4>3. s[i - 1] < s[i] /\ s[i - 1] \in Nat /\ s[i] \in Nat
        BY <1>11, <1>15, <4>1
      <4>4. QED BY <4>2, <4>3
    <3>3. QED BY <3>1, <3>2
  <2>4. weight[s[i]] > 0 /\ total(i) = total(i - 1) + weight[s[i]]
    BY <1>13, <1>15
  <2>5. QED BY <2>1, <2>2, <2>3, <2>4
<1>18. QED BY <1>12, <1>16, <1>17 DEF Packed

-----------------------------------------------------------------------------
(* What compiles of tier lists, and of Stake Engine tables.                *)

\* What compileConfiguration returns.
WellCompiled(c) ==
  /\ c.prizeDenominator \in Nat \ {0} /\ c.missWeight \in Nat
  /\ Packed(c.tiers)
  /\ c.chunks = PackChunks(c.tiers)
  /\ c.stats = DeriveStats(c.tiers, c.missWeight, c.prizeDenominator)
  /\ c.stats.prizeSum < c.prizeDenominator * c.stats.totalWeight

LEMMA CompilesWell ==
  ASSUME NEW list \in Seq(ListedTier), NEW given, NEW c \in CompileConfiguration(list, given)
  PROVE  WellCompiled(c)
<1>1. PICK d : d = IF given # 0 THEN given ELSE CommonDenominator(list)
  OBVIOUS
<1>2. PICK tiers, miss : tiers = PackTiers(list, d) /\ miss = WeightByUnits(list, d, 0)
  OBVIOUS
<1>3. PICK stats : stats = DeriveStats(tiers, miss, d)
  OBVIOUS
<1>4. /\ d \in 1..UINT32_MAX
      /\ tiers # <<>>
      /\ stats.prizeSum < d * stats.totalWeight
      /\ c = [prizeDenominator |-> d, missWeight |-> miss, tiers |-> tiers,
              chunks |-> PackChunks(tiers), stats |-> stats]
  BY <1>1, <1>2, <1>3, Zenon DEF CompileConfiguration
<1>5. d \in Nat \ {0}
  BY <1>4, SlotTableAssumption
<1>6. PICK n \in Nat : list \in [1..n -> ListedTier]
  <2>1. Len(list) \in Nat /\ list \in [1..Len(list) -> ListedTier]
    OBVIOUS
  <2>2. QED BY <2>1
<1>7. miss \in Nat
  BY ONLY <1>2, <1>5, <1>6, n \in Nat, WeightsAreCounted
<1>8. Packed(tiers)
  BY ONLY <1>2, <1>4, <1>5, <1>6, n \in Nat, PackIsPacked
<1>9. QED BY <1>3, <1>4, <1>5, <1>7, <1>8 DEF WellCompiled

\* And compileTitleFile.
WellMade(compiled) ==
  /\ compiled # <<>> /\ \E S : compiled \in Seq(S)
  /\ \A i \in DOMAIN compiled : WellCompiled(compiled[i])

LEMMA TitleIsWellMade ==
  ASSUME NEW configurations \in Seq(BetConfiguration), NEW compiled \in CompileTitle(configurations)
  PROVE  WellMade(compiled)
<1>1. configurations # <<>>
  <2>1. CompileTitle(<<>>) = {}
    BY Zenon DEF CompileTitle
  <2>2. QED BY <2>1
<1> DEFINE of(i) == CompileConfiguration(configurations[i].tierList, configurations[i].prizeDenominator)
<1>2. PICK S : compiled \in [DOMAIN configurations -> S]
  BY <1>1, Zenon DEF CompileTitle
<1>3. \A i \in DOMAIN configurations : compiled[i] \in of(i)
  BY <1>1, Zenon DEF CompileTitle
<1>4. PICK n \in Nat : n # 0 /\ DOMAIN configurations = 1..n
  BY <1>1
<1>5. compiled \in Seq(S) /\ compiled # <<>> /\ DOMAIN compiled = 1..n
  <2>1. compiled \in [1..n -> S]
    BY <1>2, <1>4
  <2>2. QED BY <1>4, <2>1
<1>6. ASSUME NEW i \in 1..n PROVE WellCompiled(compiled[i])
  <2>1. PICK list \in Seq(ListedTier), given \in Nat :
          list = configurations[i].tierList /\ given = configurations[i].prizeDenominator
    <3>1. configurations[i] \in BetConfiguration
      BY <1>4
    <3>2. QED BY <3>1 DEF BetConfiguration
  <2>2. compiled[i] \in CompileConfiguration(list, given)
    BY <1>3, <1>4, <2>1
  <2>3. QED BY <2>2, CompilesWell
<1>7. QED BY <1>5, <1>6, Zenon DEF WellMade

\* What is taken of each member of a finite set makes a finite set.
LEMMA ImageIsFinite ==
  ASSUME NEW D, IsFiniteSet(D), NEW f, DOMAIN f = D, f = [x \in D |-> f[x]]
  PROVE  IsFiniteSet({f[x] : x \in D})
<1>1. PICK T : T = {f[x] : x \in D}
  OBVIOUS
<1>2. f \in Surjection(D, T)
  BY <1>1 DEF Surjection
<1>3. IsFiniteSet(T)
  BY <1>2, FS_Surjection
<1>4. QED BY <1>1, <1>3

\* The payouts of a mode are finitely many, and their weights are counts.
LEMMA SourceIsCounted ==
  ASSUME NEW lookup \in Seq(StakeRow), NEW payouts, payouts = PayoutsOf(lookup)
  PROVE  /\ payouts \in SUBSET Nat /\ IsFiniteSet(payouts)
         /\ DOMAIN SourceWeights(lookup) = payouts
         /\ \A p \in payouts : SourceWeights(lookup)[p] \in Nat
<1>1. PICK n \in Nat : n = Len(lookup) /\ lookup \in [1..n -> StakeRow]
  OBVIOUS
<1>2. \A i \in 1..n : lookup[i].weight \in Nat /\ lookup[i].payoutMultiplier \in Nat
  <2>1. ASSUME NEW i \in 1..n PROVE lookup[i].weight \in Nat /\ lookup[i].payoutMultiplier \in Nat
    <3>1. lookup[i] \in StakeRow
      BY <1>1
    <3>2. QED BY <3>1 DEF StakeRow
  <2>2. QED BY <2>1
<1>3. IsFiniteSet(1..n)
  BY OneToSize
<1>4. PICK D : D = {j \in DOMAIN lookup : lookup[j].weight # 0}
  OBVIOUS
<1>5. D \in SUBSET (1..n) /\ IsFiniteSet(D)
  <2>1. D \in SUBSET (1..n)
    BY <1>1, <1>4
  <2>2. QED BY <1>3, <2>1, FS_Subset
<1>6. PICK f : f = [i \in D |-> lookup[i].payoutMultiplier]
  OBVIOUS
<1>7. payouts = {f[x] : x \in D}
  BY <1>4, <1>6 DEF PayoutsOf
<1>8. IsFiniteSet(payouts)
  <2>1. DOMAIN f = D /\ f = [x \in D |-> f[x]]
    BY <1>6
  <2>2. QED BY ONLY <1>5, <1>7, <2>1, ImageIsFinite
<1>9. payouts \in SUBSET Nat
  BY <1>2, <1>5, <1>6, <1>7
<1>10. ASSUME NEW p \in payouts PROVE SourceWeights(lookup)[p] \in Nat
  <2>1. PICK g : g = [i \in DOMAIN lookup |-> IF lookup[i].payoutMultiplier = p THEN lookup[i].weight ELSE 0]
    OBVIOUS
  <2>2. \A i \in 1..n : g[i] \in Int /\ g[i] >= 0
    BY <1>1, <1>2, <2>1
  <2>3. SumFunctionOnSet(g, 1..n) \in Int /\ SumFunctionOnSet(g, 1..n) >= 0
    BY ONLY <1>3, <2>2, SumType
  <2>4. SourceWeights(lookup)[p] = SumFunctionOnSet(g, 1..n)
    BY <1>1, <2>1 DEF SourceWeights
  <2>5. QED BY <2>3, <2>4
<1>11. DOMAIN SourceWeights(lookup) = payouts
  BY DEF SourceWeights
<1>12. QED BY <1>8, <1>9, <1>10, <1>11

\* A sum over a part is no more than a sum of no smaller terms over the whole.
LEMMA SumOfPartLeq ==
  ASSUME NEW D, IsFiniteSet(D), NEW A \in SUBSET D,
         NEW f, \A x \in A : f[x] \in Int,
         NEW h, \A x \in D : h[x] \in Int /\ (IF x \in A THEN f[x] ELSE 0) <= h[x]
  PROVE  SumFunctionOnSet(f, A) <= SumFunctionOnSet(h, D)
<1>1. PICK g : g = [x \in D |-> IF x \in A THEN f[x] ELSE 0]
  OBVIOUS
<1>2. \A x \in D : g[x] = IF x \in A THEN f[x] ELSE 0
  BY <1>1
<1>3. SumFunctionOnSet(f, A) = SumFunctionOnSet(g, D)
  BY <1>2, SumOfPart
<1>4. \A x \in D : g[x] \in Int /\ h[x] \in Int /\ g[x] <= h[x]
  BY <1>2
<1>5. SumFunctionOnSet(g, D) <= SumFunctionOnSet(h, D)
  BY ONLY <1>4, IsFiniteSet(D), SumLeq
<1>6. QED BY <1>3, <1>5

\* What a payout pays back in the source is no less than its weight, so that rescaling
\* divides by something.
LEMMA PayoutsAddUp ==
  ASSUME NEW payouts, payouts \subseteq Nat, IsFiniteSet(payouts),
         NEW w, \A p \in payouts : w[p] \in Nat,
         NEW winners, winners = payouts \ {0},
         NEW h, \A p \in payouts : h[p] = p * w[p]
  PROVE  /\ SumFunctionOnSet(w, winners) \in Nat
         /\ SumFunctionOnSet(h, payouts) \in Nat
         /\ SumFunctionOnSet(w, winners) <= SumFunctionOnSet(h, payouts)
<1>1. winners \in SUBSET payouts /\ IsFiniteSet(winners)
  <2>1. winners \in SUBSET payouts
    OBVIOUS
  <2>2. QED BY <2>1, FS_Subset
<1>2. ASSUME NEW p \in payouts
      PROVE  h[p] \in Nat /\ (IF p \in winners THEN w[p] ELSE 0) <= h[p]
  <2>1. PICK k \in Nat : k = w[p]
    OBVIOUS
  <2>2. h[p] = p * k /\ p \in Nat
    BY <2>1
  <2>3. (IF p \in winners THEN w[p] ELSE 0) = IF p # 0 THEN k ELSE 0
    BY <2>1
  <2>4. p # 0 => k <= p * k
    BY ONLY <2>2, k \in Nat
  <2>5. p * k \in Nat
    BY ONLY <2>2, k \in Nat
  <2>6. QED BY <2>2, <2>3, <2>4, <2>5
<1>3. \A p \in winners : w[p] \in Int /\ w[p] >= 0
  BY <1>1
<1>4. SumFunctionOnSet(w, winners) \in Int /\ SumFunctionOnSet(w, winners) >= 0
  BY ONLY <1>1, <1>3, SumType
<1>5. \A p \in payouts : h[p] \in Int /\ h[p] >= 0 /\ (IF p \in winners THEN w[p] ELSE 0) <= h[p]
  BY <1>2
<1>6. SumFunctionOnSet(h, payouts) \in Int /\ SumFunctionOnSet(h, payouts) >= 0
  BY ONLY <1>5, IsFiniteSet(payouts), SumType
<1>7. SumFunctionOnSet(w, winners) <= SumFunctionOnSet(h, payouts)
  BY ONLY <1>1, <1>3, <1>5, IsFiniteSet(payouts), SumOfPartLeq
<1>8. QED BY <1>4, <1>6, <1>7

\* Rescaled weights are counts.
LEMMA RescaledIsCounted ==
  ASSUME NEW payouts \in SUBSET Nat, IsFiniteSet(payouts),
         NEW w, \A p \in payouts : w[p] \in Nat,
         SumFunctionOnSet(w, payouts \ {0}) > UINT32_MAX
  PROVE  /\ DOMAIN Rescale(w, payouts) = payouts \cup {0}
         /\ \A p \in payouts \cup {0} : Rescale(w, payouts)[p] \in Nat
<1>1. PICK winners : winners = payouts \ {0}
  OBVIOUS
<1>2. PICK h : h = [p \in payouts |-> p * w[p]]
  OBVIOUS
<1>3. PICK winningWeight, totalWeight, payoutSum, budget :
        /\ winningWeight = SumFunctionOnSet(w, winners)
        /\ totalWeight = SumFunctionOnSet(w, payouts)
        /\ payoutSum = SumFunctionOnSet(h, payouts)
        /\ budget = UINT32_MAX - Cardinality(winners)
  OBVIOUS
<1>4. winners \in SUBSET payouts /\ IsFiniteSet(winners)
  <2>1. winners \in SUBSET payouts
    BY <1>1
  <2>2. QED BY <2>1, FS_Subset
<1>5. /\ winningWeight \in Nat \ {0} /\ payoutSum \in Nat \ {0}
  <2>1. \A p \in payouts : h[p] = p * w[p]
    BY <1>2
  <2>2. /\ winningWeight \in Nat /\ payoutSum \in Nat
        /\ winningWeight <= payoutSum
    BY ONLY <1>1, <1>3, <2>1, payouts \subseteq Nat, IsFiniteSet(payouts),
            \A p \in payouts : w[p] \in Nat, PayoutsAddUp
  <2>3. winningWeight > UINT32_MAX /\ UINT32_MAX \in Nat
    BY <1>1, <1>3, SlotTableAssumption
  <2>4. QED BY ONLY <2>2, <2>3
<1>6. totalWeight \in Nat
  <2>1. \A p \in payouts : w[p] \in Int /\ w[p] >= 0
    OBVIOUS
  <2>2. totalWeight \in Int /\ totalWeight >= 0
    BY ONLY <1>3, <2>1, IsFiniteSet(payouts), SumType
  <2>3. QED BY <2>2
<1>7. budget \in Int
  BY <1>3, <1>4, SlotTableAssumption, FS_CardinalityType
<1>8. PICK scaled : scaled = [p \in winners |-> LET x == (w[p] * budget) \div winningWeight
                                               IN  IF x > 0 THEN x ELSE 1]
  OBVIOUS
<1>9. ASSUME NEW p \in winners PROVE scaled[p] \in Nat /\ p \in Nat /\ p * scaled[p] \in Nat
  <2>1. PICK k \in Nat : k = w[p]
    BY <1>4
  <2>2. PICK y \in Int : y = k * budget
    BY <1>7
  <2>3. PICK x \in Int : x = y \div winningWeight
    BY ONLY <1>5, y \in Int
  <2>4. scaled[p] = IF x > 0 THEN x ELSE 1
    BY <1>8, <2>1, <2>2, <2>3
  <2>5. PICK z \in Nat : z = scaled[p]
    BY <2>4
  <2>6. p \in Nat
    BY <1>4
  <2>7. QED BY <2>5, <2>6
<1>10. PICK g : g = [p \in winners |-> p * scaled[p]]
  OBVIOUS
<1>11. PICK s, t : s = SumFunctionOnSet(scaled, winners) /\ t = SumFunctionOnSet(g, winners)
  OBVIOUS
<1>12. s \in Int /\ t \in Int
  <2>1. \A p \in winners : scaled[p] \in Int /\ g[p] \in Int
    BY <1>9, <1>10
  <2>2. QED BY ONLY <1>4, <1>11, <2>1, SumType
<1>13. PICK miss : miss = RoundedDivide(t * totalWeight, payoutSum) - s
  OBVIOUS
<1>14. miss \in Int
  <2>1. PICK a \in Int : a = t * totalWeight
    BY <1>6, <1>12
  <2>2. PICK b \in Nat \ {0} : b = 2 * payoutSum
    BY <1>5
  <2>3. PICK c \in Int : c = 2 * a + payoutSum
    BY <1>5
  <2>4. c \div b \in Int
    BY ONLY b \in Nat \ {0}, c \in Int
  <2>5. RoundedDivide(t * totalWeight, payoutSum) = c \div b
    BY <2>1, <2>2, <2>3 DEF RoundedDivide
  <2>6. QED BY <1>12, <1>13, <2>4, <2>5
<1>15. Rescale(w, payouts) = [p \in payouts \cup {0} |->
                                IF p # 0 THEN scaled[p] ELSE IF miss > 0 THEN miss ELSE 0]
  <2>1. Rescale(w, payouts) = [p \in payouts \cup {0} |->
          IF p # 0 THEN scaled[p]
          ELSE IF RoundedDivide(t * totalWeight, payoutSum) - s > 0
               THEN RoundedDivide(t * totalWeight, payoutSum) - s ELSE 0]
    BY <1>1, <1>2, <1>3, <1>8, <1>10, <1>11, Zenon DEF Rescale
  <2>2. QED BY <1>13, <2>1, Zenon
<1>16. ASSUME NEW p \in payouts \cup {0} PROVE Rescale(w, payouts)[p] \in Nat
  <2>1. CASE p = 0
    BY <1>14, <1>15, <2>1
  <2>2. CASE p # 0
    <3>1. p \in winners
      BY <1>1, <2>2
    <3>2. QED BY <1>9, <1>15, <2>2, <3>1
  <2>3. QED BY <2>1, <2>2
<1>17. QED BY <1>15, <1>16

\* The tier list of an import is one.
LEMMA TierListOfWeights ==
  ASSUME NEW P \in SUBSET Nat, IsFiniteSet(P), NEW w, DOMAIN w = P, \A p \in P : w[p] \in Nat,
         NEW cost \in Rational, cost.numerator # 0
  PROVE  StakeTierList(w, cost) \in Seq(ListedTier)
<1>1. PICK S : S = {p \in DOMAIN w : w[p] > 0}
  OBVIOUS
<1>2. S \in SUBSET Nat /\ IsFiniteSet(S) /\ S \subseteq P
  <2>1. S \in SUBSET P
    BY <1>1
  <2>2. QED BY <2>1, FS_Subset
<1>3. PICK s : s = Sorted(S)
  OBVIOUS
<1>4. PICK m \in Nat : s \in [1..m -> S]
  <2>1. Lists(s, S) /\ Cardinality(S) \in Nat
    BY ONLY <1>2, <1>3, SortsASet
  <2>2. QED BY <2>1 DEF Lists
<1>5. ASSUME NEW i \in 1..m
      PROVE  [prize |-> PrizeOf(s[i], cost), weight |-> w[s[i]]] \in ListedTier
  <2>1. PICK p \in P : p = s[i]
    BY <1>2, <1>4
  <2>2. w[p] \in Nat /\ p \in Nat
    OBVIOUS
  <2>3. cost.numerator \in Nat \ {0} /\ cost.denominator \in Nat
    BY DEF Rational
  <2>4. PICK a \in Nat, b \in Nat \ {0} : a = p * cost.denominator /\ b = STAKE_PAYOUT_SCALE * cost.numerator
    <3>1. p * cost.denominator \in Nat
      BY ONLY <2>2, <2>3
    <3>2. STAKE_PAYOUT_SCALE * cost.numerator \in Nat \ {0}
      BY ONLY <2>3 DEF STAKE_PAYOUT_SCALE
    <3>3. QED BY <3>1, <3>2
  <2>5. PrizeOf(p, cost) = Reduced(a, b)
    BY <2>4 DEF PrizeOf, FormatPrize
  <2>6. PrizeOf(p, cost) \in Rational
    BY <2>5, ReducedIsARational
  <2>7. PICK r \in Rational : r = PrizeOf(p, cost)
    BY <2>6
  <2>8. [prize |-> r, weight |-> w[p]] \in ListedTier
    BY ONLY <2>2, r \in Rational DEF ListedTier
  <2>9. QED BY <2>1, <2>7, <2>8
<1>6. StakeTierList(w, cost) = [i \in 1..m |-> [prize |-> PrizeOf(s[i], cost), weight |-> w[s[i]]]]
  BY <1>1, <1>3, <1>4 DEF StakeTierList
<1>7. StakeTierList(w, cost) \in [1..m -> ListedTier]
  BY <1>5, <1>6
<1>8. QED BY <1>7

LEMMA ModesConvert ==
  ASSUME NEW lookup \in Seq(StakeRow), NEW cost \in Rational, NEW seedsPerPrize,
         NEW c \in ConvertStakeMode(lookup, cost, seedsPerPrize)
  PROVE  c.tierList \in Seq(ListedTier)
<1>1. PICK payouts, source : payouts = PayoutsOf(lookup) /\ source = SourceWeights(lookup)
  OBVIOUS
<1>2. PICK w : w = IF SumFunctionOnSet(source, payouts \ {0}) > UINT32_MAX THEN Rescale(source, payouts) ELSE source
  OBVIOUS
<1>3. cost.numerator # 0
  BY Zenon DEF ConvertStakeMode
<1>4. PICK books, rescaled : c = [tierList |-> StakeTierList(w, cost), bookIdsByPrize |-> books, rescaled |-> rescaled]
  BY <1>1, <1>2, Zenon DEF ConvertStakeMode
<1>5. /\ payouts \in SUBSET Nat /\ IsFiniteSet(payouts)
      /\ DOMAIN source = payouts
      /\ \A p \in payouts : source[p] \in Nat
  BY ONLY <1>1, lookup \in Seq(StakeRow), SourceIsCounted
<1>6. PICK P \in SUBSET Nat : IsFiniteSet(P) /\ DOMAIN w = P /\ \A p \in P : w[p] \in Nat
  <2>1. CASE SumFunctionOnSet(source, payouts \ {0}) > UINT32_MAX
    <3>1. w = Rescale(source, payouts)
      BY <1>2, <2>1
    <3>2. /\ DOMAIN Rescale(source, payouts) = payouts \cup {0}
          /\ \A p \in payouts \cup {0} : Rescale(source, payouts)[p] \in Nat
      BY ONLY <1>5, <2>1, RescaledIsCounted
    <3>3. IsFiniteSet(payouts \cup {0})
      BY <1>5, FS_AddElement
    <3>4. payouts \cup {0} \in SUBSET Nat
      BY <1>5
    <3>5. QED BY <3>1, <3>2, <3>3, <3>4
  <2>2. CASE ~(SumFunctionOnSet(source, payouts \ {0}) > UINT32_MAX)
    BY <1>2, <1>5, <2>2
  <2>3. QED BY <2>1, <2>2
<1>7. StakeTierList(w, cost) \in Seq(ListedTier)
  BY ONLY <1>3, <1>6, P \in SUBSET Nat, cost \in Rational, TierListOfWeights
<1>8. QED BY <1>4, <1>7

\* An import compiles as a title of tier lists does.
LEMMA ImportIsWellMade ==
  ASSUME NEW modes \in Seq(StakeMode), NEW seedsPerPrize,
         NEW r \in ImportStakeLibrary(modes, seedsPerPrize)
  PROVE  WellMade(r.compiled)
<1> DEFINE conversions(i) == ConvertStakeMode(modes[i].rows, ParsePrize(modes[i].cost), seedsPerPrize)
           conversion(i) == CHOOSE c \in conversions(i) : TRUE
<1>1. PICK title : title = [i \in DOMAIN modes |-> [tierList |-> conversion(i).tierList, prizeDenominator |-> 0]]
  OBVIOUS
<1>2. \A i \in DOMAIN modes : conversions(i) # {}
  BY Zenon DEF ImportStakeLibrary
<1>3. PICK compiled, seeds : compiled \in CompileTitle(title) /\ r = [compiled |-> compiled, seeds |-> seeds]
  BY <1>1, Zenon DEF ImportStakeLibrary
<1>4. PICK n \in Nat : DOMAIN modes = 1..n
  OBVIOUS
<1>5. ASSUME NEW i \in 1..n
      PROVE  conversion(i).tierList \in Seq(ListedTier)
  <2>1. PICK lookup \in Seq(StakeRow), cost \in Rational : lookup = modes[i].rows /\ cost = modes[i].cost
    <3>1. modes[i] \in StakeMode
      BY <1>4
    <3>2. QED BY <3>1 DEF StakeMode
  <2>2. ParsePrize(cost) \in Rational
    <3>1. cost.numerator \in Nat /\ cost.denominator \in Nat \ {0}
      BY DEF Rational
    <3>2. QED BY <3>1, ReducedIsARational DEF ParsePrize
  <2>3. PICK price \in Rational : price = ParsePrize(cost)
    BY <2>2
  <2>4. conversions(i) = ConvertStakeMode(lookup, price, seedsPerPrize)
    BY <2>1, <2>3
  <2>5. conversions(i) # {}
    BY <1>2, <1>4
  <2> HIDE DEF conversions
  <2>6. conversion(i) \in conversions(i)
    BY <2>5
  <2> HIDE DEF conversion
  <2>7. QED BY <2>4, <2>6, ModesConvert
<1>6. title \in Seq(BetConfiguration)
  <2> HIDE DEF conversions, conversion
  <2>1. ASSUME NEW i \in 1..n
        PROVE  [tierList |-> conversion(i).tierList, prizeDenominator |-> 0] \in BetConfiguration
    <3>1. PICK list \in Seq(ListedTier) : list = conversion(i).tierList
      BY <1>5
    <3>2. [tierList |-> list, prizeDenominator |-> 0] \in BetConfiguration
      BY ONLY list \in Seq(ListedTier) DEF BetConfiguration
    <3>3. QED BY <3>1, <3>2
  <2>2. title \in [1..n -> BetConfiguration]
    BY <1>1, <1>4, <2>1
  <2>3. QED BY <2>2
<1>7. WellMade(compiled)
  BY <1>3, <1>6, TitleIsWellMade
<1>8. r.compiled = compiled
  BY <1>3
<1>9. QED BY <1>7, <1>8

-----------------------------------------------------------------------------
(* What the deployer derives of it is what the script figured.             *)

\* What the script sends are arguments of the contract's.
LEMMA InputsAreTyped ==
  ASSUME NEW compiled, WellMade(compiled)
  PROVE  /\ InputsOf(compiled) \in Seq(TableInput)
         /\ DOMAIN InputsOf(compiled) = DOMAIN compiled
         /\ \E n \in Nat \ {0} : DOMAIN compiled = 1..n /\ Len(compiled) = n /\ Len(InputsOf(compiled)) = n
         /\ \A i \in DOMAIN compiled : /\ compiled[i].chunks \in Seq(Seq(TableWord))
                                       /\ InputsOf(compiled)[i] = [prizeDenominator |-> compiled[i].prizeDenominator,
                                                                   missWeight |-> compiled[i].missWeight,
                                                                   chunks |-> compiled[i].chunks]
<1>1. PICK n \in Nat \ {0} : DOMAIN compiled = 1..n /\ Len(compiled) = n
  <2>1. PICK S : compiled \in Seq(S) /\ compiled # <<>>
    BY DEF WellMade
  <2>2. QED BY <2>1
<1>2. PICK inputs : inputs = InputsOf(compiled)
  OBVIOUS
<1>3. inputs = [i \in 1..n |-> [prizeDenominator |-> compiled[i].prizeDenominator,
                                missWeight |-> compiled[i].missWeight, chunks |-> compiled[i].chunks]]
  BY <1>1, <1>2 DEF InputsOf
<1>4. ASSUME NEW i \in 1..n
      PROVE  compiled[i].chunks \in Seq(Seq(TableWord)) /\ inputs[i] \in TableInput
  <2>1. PICK c : c = compiled[i]
    OBVIOUS
  <2>2. WellCompiled(c)
    BY <1>1, <2>1 DEF WellMade
  <2>3. /\ c.prizeDenominator \in Nat /\ c.missWeight \in Nat
        /\ Packed(c.tiers) /\ c.chunks = PackChunks(c.tiers)
    BY <2>2 DEF WellCompiled
  <2>4. c.chunks \in Seq(Seq(TableWord))
    BY ONLY <2>3, PackedChunks
  <2>5. PICK d \in Nat, m \in Nat, seqs \in Seq(Seq(TableWord)) :
          d = c.prizeDenominator /\ m = c.missWeight /\ seqs = c.chunks
    BY <2>3, <2>4
  <2>6. [prizeDenominator |-> d, missWeight |-> m, chunks |-> seqs] \in TableInput
    BY DEF TableInput
  <2>7. QED BY <1>3, <2>1, <2>4, <2>5, <2>6
<1>5. inputs \in [1..n -> TableInput]
  <2>1. \A i \in 1..n : inputs[i] \in TableInput
    BY <1>4
  <2>2. QED BY <1>3, <2>1
<1>6. inputs \in Seq(TableInput) /\ Len(inputs) = n /\ DOMAIN inputs = 1..n
  BY <1>5
<1>7. QED BY <1>1, <1>2, <1>3, <1>4, <1>6

\* The title that the deployer derives quotes what the compiler did.
LEMMA TitleMatches ==
  ASSUME NEW compiled, WellMade(compiled), NEW b, NEW title \in DeriveTitle(InputsOf(compiled), b)
  PROVE  \A i \in DOMAIN title : i \in DOMAIN compiled /\ Quoted(title[i]) = compiled[i].stats
<1>1. PICK inputs : inputs = InputsOf(compiled)
  OBVIOUS
<1>2. DOMAIN inputs = DOMAIN compiled
  BY <1>1, InputsAreTyped
<1>3. /\ title = [i \in DOMAIN inputs |-> CHOOSE c \in DeriveConfiguration(inputs[i], b) : TRUE]
      /\ \A i \in DOMAIN inputs : DeriveConfiguration(inputs[i], b) # {}
  BY <1>1, Zenon DEF DeriveTitle
<1>4. ASSUME NEW i \in DOMAIN title PROVE i \in DOMAIN compiled /\ Quoted(title[i]) = compiled[i].stats
  <2>1. i \in DOMAIN inputs
    BY <1>3
  <2>2. title[i] \in DeriveConfiguration(inputs[i], b)
    BY <1>3, <2>1
  <2>3. PICK k : k = compiled[i]
    OBVIOUS
  <2>4. WellCompiled(k)
    BY <1>2, <2>1, <2>3, Zenon DEF WellMade
  <2>5. /\ k.prizeDenominator \in Nat \ {0} /\ k.missWeight \in Nat /\ Packed(k.tiers)
        /\ k.chunks = PackChunks(k.tiers)
        /\ k.stats = DeriveStats(k.tiers, k.missWeight, k.prizeDenominator)
    BY <2>4 DEF WellCompiled
  <2>6. inputs[i] = [prizeDenominator |-> k.prizeDenominator, missWeight |-> k.missWeight,
                     chunks |-> PackChunks(k.tiers)]
    <3>1. inputs[i] = [prizeDenominator |-> k.prizeDenominator, missWeight |-> k.missWeight,
                       chunks |-> k.chunks]
      BY <1>1, <1>2, <2>1, <2>3, InputsAreTyped
    <3>2. QED BY <2>5, <3>1
  <2>7. \A c \in DeriveConfiguration(inputs[i], b) : Quoted(c) = k.stats
    BY ONLY <2>5, <2>6, PackedTablesComeBack
  <2>8. QED BY <1>2, <2>1, <2>2, <2>3, <2>7
<1>5. QED BY <1>4

-----------------------------------------------------------------------------
\* Where the records of a title are, by the chunks that come before them.
LEMMA RecordsAddUp ==
  ASSUME NEW title, NEW n \in Nat \ {0}, Len(title) = n,
         NEW seqs, Len(seqs) = n,
         \A k \in 1..n : Len(seqs[k]) \in Nat /\ Len(title[k].chunks) = Len(seqs[k]),
         NEW all, NEW o, LaidOut(all, seqs, o)
  PROVE  \A i \in 1..(n + 1) : /\ o[i] \in Nat
                               /\ RecordOffset(title, i) = 1 + 2 * n + 61 * (i - 1) + 26 * o[i]
                               /\ RecordOffset(title, i) <= 1 + 63 * n + 26 * Len(all)
<1> DEFINE bytes == [j \in 1..n |-> RecordBytes(title[j])]
           sum(m) == SumFunctionOnSet(bytes, 1..m)
<1>1. /\ o \in [1..(n + 1) -> Nat] /\ o[1] = 0 /\ o[n + 1] = Len(all)
      /\ \A k \in 1..n : o[k + 1] = o[k] + Len(seqs[k])
  BY DEF LaidOut
<1>2. \A j \in 1..n : bytes[j] \in Int /\ bytes[j] = 61 + 26 * Len(seqs[j])
  <2>1. ASSUME NEW j \in 1..n PROVE bytes[j] \in Int /\ bytes[j] = 61 + 26 * Len(seqs[j])
    <3>1. bytes[j] = RecordBytes(title[j])
      OBVIOUS
    <3>2. PICK l \in Nat : l = Len(seqs[j]) /\ l = Len(title[j].chunks)
      OBVIOUS
    <3> HIDE DEF bytes
    <3>3. RecordBytes(title[j]) = 61 + 26 * l
      BY <3>2 DEF RecordBytes, RECORD_HEAD_BYTES, CHUNK_BYTES
    <3>4. QED BY <3>1, <3>2, <3>3
  <2> HIDE DEF bytes
  <2>2. QED BY <2>1
<1>3. ASSUME NEW i \in 1..(n + 1) PROVE RecordOffset(title, i) = 1 + 2 * n + sum(i - 1)
  <2>1. PICK g : g = [j \in 1..(i - 1) |-> RecordBytes(title[j])]
    OBVIOUS
  <2>2. \A j \in 1..(i - 1) : g[j] = bytes[j]
    BY <2>1
  <2>3. i - 1 \in Nat
    OBVIOUS
  <2>4. IsFiniteSet(1..(i - 1))
    BY ONLY <2>3, OneToSize
  <2>5. SumFunctionOnSet(g, 1..(i - 1)) = SumFunctionOnSet(bytes, 1..(i - 1))
    BY ONLY <2>2, <2>4, SumAgree
  <2>6. RecordOffset(title, i) = 1 + 2 * n + SumFunctionOnSet(g, 1..(i - 1))
    BY <2>1 DEF RecordOffset
  <2>7. QED BY <2>5, <2>6
<1>4. sum(0) = 0
  <2>1. 1..0 = {}
    OBVIOUS
  <2>2. QED BY <2>1, SumEmpty
<1>5. ASSUME NEW m \in 1..n PROVE sum(m) = bytes[m] + sum(m - 1) /\ sum(m - 1) \in Int
  <2>1. m \in Nat /\ m - 1 \in Nat
    OBVIOUS
  <2>2. IsFiniteSet(1..m) /\ IsFiniteSet(1..(m - 1))
    BY ONLY <2>1, OneToSize
  <2>3. \A j \in 1..m : bytes[j] \in Int
    BY <1>2
  <2>4. m \in 1..m /\ (1..m) \ {m} = 1..(m - 1)
    OBVIOUS
  <2>5. \A j \in 1..(m - 1) : bytes[j] \in Int
    <3>1. \A j \in 1..(m - 1) : j \in 1..m
      OBVIOUS
    <3> HIDE DEF bytes
    <3>2. QED BY <2>3, <3>1
  <2> HIDE DEF bytes
  <2>6. SumFunctionOnSet(bytes, 1..m) = bytes[m] + SumFunctionOnSet(bytes, (1..m) \ {m})
    BY ONLY <2>2, <2>3, <2>4, SumSplit
  <2>7. SumFunctionOnSet(bytes, 1..(m - 1)) \in Int
    BY ONLY <2>2, <2>5, SumType
  <2>8. QED BY <2>4, <2>6, <2>7
<1> HIDE DEF sum, bytes
<1> DEFINE OK(i) == sum(i - 1) = 61 * (i - 1) + 26 * o[i] /\ o[i] <= o[n + 1]
           T == {k \in Nat : k <= n /\ ~(sum(k) = 61 * k + 26 * o[k + 1])}
           U == {k \in Nat : k <= n /\ ~(o[n + 1 - k] <= o[n + 1])}
<1>6. T = {}
  <2>1. SUFFICES ASSUME T # {} PROVE FALSE
    OBVIOUS
  <2>2. PICK k \in T : \A m \in T : k <= m
    <3>1. T \subseteq Nat
      OBVIOUS
    <3> HIDE DEF T
    <3>2. QED BY <2>1, <3>1, LeastNumber
  <2>3. k \in Nat /\ k <= n /\ sum(k) # 61 * k + 26 * o[k + 1]
    BY <2>2
  <2>4. k # 0
    BY <1>1, <1>4, <2>3
  <2>5. k - 1 \in Nat /\ k \in 1..n /\ k - 1 \notin T
    BY <2>2, <2>3, <2>4
  <2>6. sum(k - 1) = 61 * (k - 1) + 26 * o[k]
    BY <2>3, <2>5
  <2>7. o[k + 1] = o[k] + Len(seqs[k]) /\ o[k] \in Nat /\ Len(seqs[k]) \in Nat
    BY <1>1, <2>5
  <2>8. sum(k) = 61 + 26 * Len(seqs[k]) + sum(k - 1)
    BY <1>2, <1>5, <2>5
  <2>9. QED BY ONLY <2>3, <2>6, <2>7, <2>8
<1>7. U = {}
  <2>1. SUFFICES ASSUME U # {} PROVE FALSE
    OBVIOUS
  <2>2. PICK k \in U : \A m \in U : k <= m
    <3>1. U \subseteq Nat
      OBVIOUS
    <3> HIDE DEF U
    <3>2. QED BY <2>1, <3>1, LeastNumber
  <2>3. k \in Nat /\ k <= n /\ ~(o[n + 1 - k] <= o[n + 1])
    BY <2>2
  <2>4. o[n + 1] \in Nat
    BY <1>1
  <2>5. k # 0
    BY <2>3, <2>4
  <2>6. k - 1 \in Nat /\ n + 1 - k \in 1..n /\ k - 1 \notin U
    <3>1. k - 1 \in Nat /\ n + 1 - k \in 1..n /\ ~(k <= k - 1)
      BY ONLY <2>3, <2>5, n \in Nat \ {0}
    <3> HIDE DEF U
    <3>2. QED BY <2>2, <3>1
  <2>7. PICK j \in 1..n : j = n + 1 - k
    BY <2>6
  <2>8. o[j + 1] <= o[n + 1]
    <3>1. n + 1 - (k - 1) = j + 1
      BY <2>3, <2>7
    <3>2. QED BY <2>3, <2>6, <3>1
  <2>9. o[j + 1] = o[j] + Len(seqs[j]) /\ o[j] \in Nat /\ Len(seqs[j]) \in Nat
    BY <1>1
  <2>10. ~(o[j] <= o[n + 1])
    BY <2>3, <2>7
  <2>11. QED BY ONLY <2>4, <2>8, <2>9, <2>10
<1>8. ASSUME NEW i \in 1..(n + 1)
      PROVE  /\ o[i] \in Nat
             /\ RecordOffset(title, i) = 1 + 2 * n + 61 * (i - 1) + 26 * o[i]
             /\ RecordOffset(title, i) <= 1 + 63 * n + 26 * Len(all)
  <2>1. o[i] \in Nat /\ Len(all) \in Nat
    BY <1>1
  <2>2. i - 1 \in Nat /\ i - 1 <= n /\ (i - 1) + 1 = i
    OBVIOUS
  <2>3. sum(i - 1) = 61 * (i - 1) + 26 * o[i]
    BY <1>6, <2>2
  <2>4. o[i] <= Len(all)
    <3>1. n + 1 - i \in Nat /\ n + 1 - i <= n /\ n + 1 - (n + 1 - i) = i
      OBVIOUS
    <3>2. n + 1 - i \notin U
      BY <1>7
    <3>3. o[n + 1 - (n + 1 - i)] <= o[n + 1]
      BY <3>1, <3>2
    <3>4. QED BY <1>1, <3>1, <3>3
  <2>5. RecordOffset(title, i) = 1 + 2 * n + 61 * (i - 1) + 26 * o[i]
    BY ONLY <1>3, <2>1, <2>2, <2>3, i \in 1..(n + 1), n \in Nat
  <2>6. i <= n + 1
    OBVIOUS
  <2>7. QED BY ONLY <2>1, <2>4, <2>5, <2>6, i \in 1..(n + 1), n \in Nat
<1>9. QED BY <1>8

\* The configurations that the deployer derives.
DerivedTitle(inputs, b) ==
  [i \in DOMAIN inputs |-> CHOOSE c \in DeriveConfiguration(inputs[i], b) : TRUE]

\* What the clone of a title refuses, the table is too large for.
LEMMA LargeIsExplained ==
  ASSUME NEW compiled, WellMade(compiled), NEW b, NEW inputs, inputs = InputsOf(compiled),
         \A i \in DOMAIN inputs : DeriveConfiguration(inputs[i], b) # {},
         NEW title, title = DerivedTitle(inputs, b),
         ~Encodable(title)
  PROVE  \/ \E i \in DOMAIN compiled : Len(compiled[i].chunks) > MAX_CHUNKS
         \/ 1 + 63 * Len(compiled) + CHUNK_BYTES * Len(ChunksToDeploy(compiled)) > MAX_CLONE_ARGS
<1>1. PICK n \in Nat \ {0} : /\ DOMAIN compiled = 1..n /\ Len(compiled) = n
                             /\ DOMAIN inputs = 1..n
  BY InputsAreTyped
<1>2. PICK seqs : seqs = [i \in DOMAIN compiled |-> compiled[i].chunks]
  OBVIOUS
<1>3. ASSUME NEW i \in 1..n
      PROVE  /\ seqs[i] \in Seq(Seq(TableWord))
             /\ Len(seqs[i]) \in Nat
             /\ Len(title[i].chunks) = Len(seqs[i])
  <2>1. inputs[i] = [prizeDenominator |-> compiled[i].prizeDenominator,
                     missWeight |-> compiled[i].missWeight, chunks |-> compiled[i].chunks]
        /\ compiled[i].chunks \in Seq(Seq(TableWord))
    BY <1>1, InputsAreTyped
  <2>2. PICK s \in Seq(Seq(TableWord)) : s = seqs[i] /\ s = inputs[i].chunks
    BY <1>1, <1>2, <2>1
  <2>3. title[i] \in DeriveConfiguration(inputs[i], b)
    BY <1>1 DEF DerivedTitle
  <2>4. title[i].chunks = Pointed(s)
    <3>1. inputs[i] \in TableInput
      <4>1. inputs \in Seq(TableInput)
        BY InputsAreTyped
      <4>2. QED BY <1>1, <4>1
    <3>2. DerivedFrom(title[i], inputs[i].chunks)
      BY ONLY <2>3, <3>1, Derives
    <3>3. QED BY <2>2, <3>2 DEF DerivedFrom, Figures
  <2>5. Len(Pointed(s)) = Len(s) /\ Len(s) \in Nat
    <3>1. Len(s) \in Nat /\ DOMAIN s = 1..Len(s)
      OBVIOUS
    <3>2. PICK m \in Nat : m = Len(s)
      BY <3>1
    <3>3. PICK X : Pointed(s) \in [1..m -> X]
      <4>1. Pointed(s) = [k \in 1..m |-> Pointed(s)[k]]
        BY <3>1, <3>2 DEF Pointed
      <4>2. Pointed(s) \in [1..m -> {Pointed(s)[k] : k \in 1..m}]
        BY <4>1
      <4>3. QED BY <4>2
    <3>4. Pointed(s) \in Seq(X) /\ Len(Pointed(s)) = m
      BY <3>3
    <3>5. QED BY <3>2, <3>4
  <2>6. QED BY <2>2, <2>4, <2>5
<1>4. seqs \in Seq(Seq(Seq(TableWord))) /\ Len(seqs) = n /\ seqs # <<>>
  <2>1. seqs \in [1..n -> Seq(Seq(TableWord))]
    BY <1>1, <1>2, <1>3
  <2>2. QED BY <2>1
<1>5. PICK all : all = ChunksToDeploy(compiled)
  OBVIOUS
<1>6. PICK o : LaidOut(all, seqs, o)
  <2>1. all = FlattenSeq(seqs)
    BY <1>2, <1>5, Zenon DEF ChunksToDeploy
  <2>2. QED BY ONLY <1>4, <2>1, FlatIsARow
<1>7. Len(title) = n /\ DOMAIN title = 1..n
  <2>1. title = [i \in 1..n |-> title[i]]
    BY <1>1 DEF DerivedTitle
  <2>2. title \in [1..n -> {title[i] : i \in 1..n}]
    BY <2>1
  <2>3. PICK X : title \in [1..n -> X]
    BY <2>2
  <2>4. QED BY <2>3
<1>8. \A i \in 1..(n + 1) : /\ RecordOffset(title, i) \in Int
                            /\ RecordOffset(title, i) <= 1 + 63 * n + 26 * Len(all)
  <2>1. \A k \in 1..n : Len(seqs[k]) \in Nat /\ Len(title[k].chunks) = Len(seqs[k])
    BY <1>3
  <2>2. \A i \in 1..(n + 1) : /\ o[i] \in Nat
                              /\ RecordOffset(title, i) = 1 + 2 * n + 61 * (i - 1) + 26 * o[i]
                              /\ RecordOffset(title, i) <= 1 + 63 * n + 26 * Len(all)
    BY ONLY <1>4, <1>6, <1>7, <2>1, n \in Nat \ {0}, RecordsAddUp
  <2>3. QED BY <2>2
<1>9. Len(all) \in Nat
  BY <1>4, <1>6 DEF LaidOut
<1>10. PICK size \in Nat : size = 1 + 63 * n + 26 * Len(all)
  BY <1>9
<1>11. /\ MAX_CLONE_ARGS \in Nat /\ MAX_RECORD_OFFSET \in Nat /\ MAX_CHUNKS \in Nat
       /\ MAX_CLONE_ARGS <= MAX_RECORD_OFFSET
  BY SlotEngineAssumption
<1>12. size = 1 + 63 * Len(compiled) + CHUNK_BYTES * Len(ChunksToDeploy(compiled))
  BY <1>1, <1>5, <1>10 DEF CHUNK_BYTES
<1>13. CASE \E i \in 1..(n + 1) : ~(RecordOffset(title, i) <= MAX_CLONE_ARGS)
  <2>1. PICK i \in 1..(n + 1) : ~(RecordOffset(title, i) <= MAX_CLONE_ARGS)
    BY <1>13
  <2>2. PICK r \in Int : r = RecordOffset(title, i) /\ r <= size
    BY <1>8, <1>10
  <2>3. size > MAX_CLONE_ARGS
    BY ONLY <1>11, <2>1, <2>2, size \in Nat
  <2>4. QED BY <1>12, <2>3
<1>14. CASE \A i \in 1..(n + 1) : RecordOffset(title, i) <= MAX_CLONE_ARGS
  <2>1. n + 1 \in 1..(n + 1) /\ Len(title) + 1 = n + 1 /\ \A i \in 1..n : i \in 1..(n + 1)
    BY <1>7
  <2>2. \A i \in 1..n : RecordOffset(title, i) <= MAX_RECORD_OFFSET
    <3>1. ASSUME NEW i \in 1..n PROVE RecordOffset(title, i) <= MAX_RECORD_OFFSET
      <4>1. RecordOffset(title, i) \in Int /\ RecordOffset(title, i) <= MAX_CLONE_ARGS
        BY <1>8, <1>14, <2>1
      <4>2. PICK r \in Int : r = RecordOffset(title, i)
        BY <4>1
      <4>3. QED BY ONLY <1>11, <4>1, <4>2
    <3>2. QED BY <3>1
  <2>3. RecordOffset(title, Len(title) + 1) <= MAX_CLONE_ARGS
    BY <1>14, <2>1
  <2>4. PICK i \in 1..n : ~(Len(title[i].chunks) <= MAX_CHUNKS)
    BY <1>7, <2>2, <2>3 DEF Encodable
  <2>5. Len(compiled[i].chunks) > MAX_CHUNKS
    <3>1. Len(title[i].chunks) = Len(seqs[i]) /\ Len(seqs[i]) \in Nat
      BY <1>3
    <3>2. seqs[i] = compiled[i].chunks
      BY <1>1, <1>2
    <3>3. QED BY <1>11, <2>4, <3>1, <3>2
  <2>6. QED BY <1>1, <2>5
<1>15. QED BY <1>13, <1>14

\* The figures of a packed table are integers.
LEMMA StatsAreTyped ==
  ASSUME NEW k, k.prizeDenominator \in Nat \ {0}, k.missWeight \in Nat, Packed(k.tiers),
         k.stats = DeriveStats(k.tiers, k.missWeight, k.prizeDenominator)
  PROVE  k.stats.prizeSum \in Int /\ k.stats.totalWeight \in Int
<1>1. PICK tiers, n : tiers = k.tiers /\ n = Len(tiers)
  OBVIOUS
<1>2. /\ n \in Nat \ {0}
      /\ \A i \in 1..n : tiers[i] \in PackedTier
  <2>1. tiers \in Seq(PackedTier) /\ tiers # <<>>
    BY <1>1 DEF Packed
  <2>2. QED BY <1>1, <2>1
<1>3. PICK top \in PackedTier : top = tiers[n]
  BY <1>2
<1>4. top.prizeUnits \in Nat /\ top.weight \in Nat /\ top.cumulativeWeight \in Nat
  BY DEF PackedTier
<1>5. PICK f : f = [i \in 1..(n - 1) |-> tiers[i].prizeUnits * tiers[i].weight]
  OBVIOUS
<1>6. PICK sum \in Int : sum = SumFunctionOnSet(f, 1..(n - 1))
  <2>1. ASSUME NEW i \in 1..(n - 1) PROVE f[i] \in Int
    <3>1. PICK t \in PackedTier : t = tiers[i]
      BY <1>2
    <3>2. t.prizeUnits \in Nat /\ t.weight \in Nat
      BY DEF PackedTier
    <3>3. t.prizeUnits * t.weight \in Int
      BY <3>2
    <3>4. QED BY <1>5, <3>1, <3>3
  <2>2. n - 1 \in Nat
    BY <1>2
  <2>3. IsFiniteSet(1..(n - 1))
    BY ONLY <2>2, OneToSize
  <2>4. SumFunctionOnSet(f, 1..(n - 1)) \in Int
    BY ONLY <2>1, <2>3, SumType
  <2>5. QED BY <2>4
<1>7. PICK variance : DeriveStats(tiers, k.missWeight, k.prizeDenominator) =
        [totalWeight |-> k.missWeight + top.cumulativeWeight, topPrizeUnits |-> top.prizeUnits,
         topPrizeWeight |-> top.weight, prizeSum |-> sum + top.prizeUnits * top.weight,
         bodyVarianceWad |-> variance]
  BY <1>1, <1>3, <1>5, <1>6, Zenon DEF DeriveStats
<1>8. k.stats.totalWeight = k.missWeight + top.cumulativeWeight
      /\ k.stats.prizeSum = sum + top.prizeUnits * top.weight
  BY <1>1, <1>7
<1>9. PICK m \in Int : m = top.prizeUnits * top.weight
  BY <1>4
<1>10. QED BY <1>4, <1>8, <1>9

LEMMA RefusalIsExplained ==
  ASSUME NEW compiled, WellMade(compiled), NEW b \in RtpBand,
         DeriveTitle(InputsOf(compiled), b) = {}
  PROVE  RefusalExplained(compiled, b)
<1>1. PICK inputs : inputs = InputsOf(compiled)
  OBVIOUS
<1>2. PICK n \in Nat \ {0} : /\ DOMAIN compiled = 1..n /\ Len(compiled) = n
                             /\ DOMAIN inputs = 1..n /\ Len(inputs) = n
  BY <1>1, InputsAreTyped
<1>3. PICK title : title = DerivedTitle(inputs, b)
  OBVIOUS
<1>4. \/ ~(Len(inputs) \in 1..MAX_CONFIGURATIONS)
      \/ \E i \in DOMAIN inputs : DeriveConfiguration(inputs[i], b) = {}
      \/ /\ \A i \in DOMAIN inputs : DeriveConfiguration(inputs[i], b) # {}
         /\ ~Encodable(title)
  <2>1. SUFFICES ASSUME Len(inputs) \in 1..MAX_CONFIGURATIONS,
                        \A i \in DOMAIN inputs : DeriveConfiguration(inputs[i], b) # {},
                        Encodable(title)
                 PROVE  FALSE
    OBVIOUS
  <2>2. DeriveTitle(inputs, b) = {t \in {title} : Encodable(t)}
    BY <1>3, <2>1, Zenon DEF DeriveTitle, DerivedTitle
  <2>3. title \in DeriveTitle(inputs, b)
    BY <2>1, <2>2, Zenon
  <2>4. QED BY <1>1, <2>3
<1>5. CASE ~(Len(inputs) \in 1..MAX_CONFIGURATIONS)
  <2>1. Len(compiled) > MAX_CONFIGURATIONS
    BY <1>2, <1>5, SlotEngineAssumption
  <2>2. QED BY <2>1, Zenon DEF RefusalExplained
<1>6. CASE \E i \in DOMAIN inputs : DeriveConfiguration(inputs[i], b) = {}
  <2>1. PICK i \in 1..n : DeriveConfiguration(inputs[i], b) = {}
    BY <1>2, <1>6
  <2>2. PICK k : k = compiled[i]
    OBVIOUS
  <2>3. WellCompiled(k)
    BY <1>2, <2>2, Zenon DEF WellMade
  <2>4. /\ k.prizeDenominator \in Nat \ {0} /\ k.missWeight \in Nat /\ Packed(k.tiers)
        /\ k.chunks = PackChunks(k.tiers)
        /\ k.stats = DeriveStats(k.tiers, k.missWeight, k.prizeDenominator)
        /\ k.stats.prizeSum < k.prizeDenominator * k.stats.totalWeight
    BY <2>3 DEF WellCompiled
  <2>5. inputs[i] = [prizeDenominator |-> k.prizeDenominator, missWeight |-> k.missWeight,
                     chunks |-> PackChunks(k.tiers)]
    <3>1. inputs[i] = [prizeDenominator |-> k.prizeDenominator, missWeight |-> k.missWeight,
                       chunks |-> k.chunks]
      BY <1>1, <1>2, <2>2, InputsAreTyped
    <3>2. QED BY <2>4, <3>1
  <2>6. \/ ~(k.stats.prizeSum * WAD >= b.minRtpWad * (k.prizeDenominator * k.stats.totalWeight))
        \/ ~(k.stats.prizeSum * WAD <= b.maxRtpWad * (k.prizeDenominator * k.stats.totalWeight))
        \/ ~(k.stats.totalWeight <= UINT64_MAX)
    BY ONLY <2>1, <2>4, <2>5, PackedTablesComeBack
  <2>7. k.stats.prizeSum \in Int /\ k.stats.totalWeight \in Int
    BY ONLY <2>4, StatsAreTyped
  <2>8. PICK sum \in Int, den \in Int, total \in Int :
          /\ sum = k.stats.prizeSum * WAD
          /\ den = k.prizeDenominator * k.stats.totalWeight
          /\ total = k.stats.totalWeight
    <3>1. k.stats.prizeSum * WAD \in Int
      <4>1. WAD \in Int
        BY SlotTableAssumption
      <4>2. QED BY ONLY <2>7, <4>1
    <3>2. k.prizeDenominator * k.stats.totalWeight \in Int
      BY ONLY <2>4, <2>7
    <3>3. QED BY <2>7, <3>1, <3>2
  <2>9. PICK low \in Int, high \in Int : low = b.minRtpWad * den /\ high = b.maxRtpWad * den
    <3>1. b.minRtpWad \in Int /\ b.maxRtpWad \in Int
      BY DEF RtpBand
    <3>2. b.minRtpWad * den \in Int /\ b.maxRtpWad * den \in Int
      BY ONLY <3>1, den \in Int
    <3>3. QED BY <3>2
  <2>10. sum < low \/ sum > high \/ total > UINT64_MAX
    <3>1. UINT64_MAX \in Int
      BY SlotTableAssumption
    <3>2. ~(sum >= low) \/ ~(sum <= high) \/ ~(total <= UINT64_MAX)
      BY <2>6, <2>8, <2>9
    <3>3. QED BY ONLY <3>1, <3>2, sum \in Int, low \in Int, high \in Int, total \in Int
  <2>11. \/ k.stats.prizeSum * WAD < b.minRtpWad * (k.prizeDenominator * k.stats.totalWeight)
         \/ k.stats.prizeSum * WAD > b.maxRtpWad * (k.prizeDenominator * k.stats.totalWeight)
         \/ k.stats.totalWeight > UINT64_MAX
    BY <2>8, <2>9, <2>10
  <2>12. i \in DOMAIN compiled
    BY <1>2
  <2>13. QED BY <2>2, <2>11, <2>12, Zenon DEF RefusalExplained
<1>7. CASE /\ \A i \in DOMAIN inputs : DeriveConfiguration(inputs[i], b) # {}
           /\ ~Encodable(title)
  <2>1. \/ \E i \in DOMAIN compiled : Len(compiled[i].chunks) > MAX_CHUNKS
        \/ 1 + 63 * Len(compiled) + CHUNK_BYTES * Len(ChunksToDeploy(compiled)) > MAX_CLONE_ARGS
    <3>1. \A i \in DOMAIN inputs : DeriveConfiguration(inputs[i], b) # {}
      BY <1>7
    <3>2. ~Encodable(title)
      BY <1>7
    <3>3. QED BY ONLY WellMade(compiled), <1>1, <1>3, <3>1, <3>2, LargeIsExplained
  <2>2. QED BY <2>1, Zenon DEF RefusalExplained
<1>8. QED BY <1>4, <1>5, <1>6, <1>7

-----------------------------------------------------------------------------
(* The script, among the calls of anybody else.                            *)

ScriptFields == {"state", "definition", "compiled", "seeds", "sent", "title", "band"}

\* What holds of the script at every step of its own and of everybody else's.
ScriptInv ==
  /\ band \in RtpBand /\ script.band \in RtpBand
  /\ DOMAIN script = ScriptFields /\ script.sent \in Nat
  /\ script.state \in {"idle", "chunks", "reading", "deployed", "refused"}
  /\ IF script.state = "idle" THEN script.compiled = <<>> ELSE WellMade(script.compiled)
  /\ script.state = "reading" => script.title \in DeriveTitle(InputsOf(script.compiled), script.band)
  /\ script.state \in {"reading", "deployed"} => script.title \in titles
  /\ script.state = "refused" => RefusalExplained(script.compiled, script.band)

\* Whatever compiles is well made.
LEMMA CompiledIsWellMade ==
  ASSUME NEW definition \in Definition, NEW c \in Compiled(definition)
  PROVE  WellMade(c.compiled)
<1>1. CASE definition.kind = "tier lists"
  <2>1. PICK configurations \in Seq(BetConfiguration) : configurations = definition.betConfigurations
    BY <1>1 DEF Definition
  <2>2. Compiled(definition) =
          {[compiled |-> k, seeds |-> <<>>] : k \in CompileTitle(definition.betConfigurations)}
    BY <1>1, Zenon DEF Compiled
  <2>3. PICK compiled \in CompileTitle(configurations) : c = [compiled |-> compiled, seeds |-> <<>>]
    BY <2>1, <2>2
  <2>4. c.compiled = compiled
    BY <2>3
  <2>5. QED BY <2>3, <2>4, TitleIsWellMade
<1>2. CASE definition.kind # "tier lists"
  <2>1. PICK modes \in Seq(StakeMode) : modes = definition.modes
    BY <1>2 DEF Definition
  <2>2. c \in ImportStakeLibrary(modes, definition.seedsPerPrize)
    BY <1>2, <2>1 DEF Compiled
  <2>3. QED BY <2>2, ImportIsWellMade
<1>3. QED BY <1>1, <1>2

LEMMA ScriptStarts == band \in RtpBand /\ DeployerInit => ScriptInv
<1> SUFFICES ASSUME band \in RtpBand, DeployerInit PROVE ScriptInv
  OBVIOUS
<1>1. script = NoScript
  BY DEF DeployerInit
<1>2. /\ script.state = "idle" /\ script.compiled = <<>> /\ script.sent = 0
      /\ script.band = [minRtpWad |-> 0, maxRtpWad |-> 0]
      /\ DOMAIN script = ScriptFields
  BY <1>1 DEF NoScript, ScriptFields
<1>3. script.band \in RtpBand
  BY <1>2, SlotTableAssumption DEF RtpBand
<1>4. QED BY <1>2, <1>3 DEF ScriptInv

LEMMA CompileKeeps ==
  ASSUME ScriptInv, NEW definition \in Definition, Compile(definition)
  PROVE  ScriptInv'
<1>1. PICK c \in Compiled(definition) :
        script' = [script EXCEPT !.state = "chunks", !.definition = <<definition>>,
                                 !.compiled = c.compiled, !.seeds = c.seeds]
  BY DEF Compile
<1>2. DOMAIN script = ScriptFields /\ script.sent \in Nat /\ script.band \in RtpBand /\ band \in RtpBand
  BY DEF ScriptInv
<1>3. /\ script'.state = "chunks" /\ script'.compiled = c.compiled
      /\ script'.sent = script.sent /\ script'.band = script.band
      /\ DOMAIN script' = ScriptFields
  BY <1>1, <1>2 DEF ScriptFields
<1>4. WellMade(c.compiled)
  BY CompiledIsWellMade
<1>5. band' = band
  BY DEF Compile
<1>6. QED BY <1>2, <1>3, <1>4, <1>5 DEF ScriptInv

LEMMA SendChunkKeeps ==
  ASSUME ScriptInv, SendChunk
  PROVE  ScriptInv'
<1>1. DOMAIN script = ScriptFields /\ script.sent \in Nat /\ script.band \in RtpBand /\ band \in RtpBand
  BY DEF ScriptInv
<1>2. /\ script.state = "chunks"
      /\ script' = [script EXCEPT !.sent = @ + 1]
      /\ band' = band
  BY DEF SendChunk, DeployChunk
<1>3. /\ script'.state = "chunks" /\ script'.compiled = script.compiled
      /\ script'.sent = script.sent + 1 /\ script'.band = script.band
      /\ DOMAIN script' = ScriptFields
  BY <1>1, <1>2 DEF ScriptFields
<1>4. WellMade(script.compiled)
  BY <1>2 DEF ScriptInv
<1>5. QED BY <1>1, <1>2, <1>3, <1>4 DEF ScriptInv

LEMMA SendTitleKeeps ==
  ASSUME ScriptInv, SendTitle
  PROVE  ScriptInv'
<1>1. DOMAIN script = ScriptFields /\ script.sent \in Nat /\ script.band \in RtpBand /\ band \in RtpBand
  BY DEF ScriptInv
<1>2. PICK derived : derived = DeriveTitle(InputsOf(script.compiled), band)
  OBVIOUS
<1>3. /\ script.state = "chunks"
      /\ titles' = titles \cup derived
      /\ band' = band
      /\ script' = [script EXCEPT !.state = IF derived = {} THEN "refused" ELSE "reading",
                                  !.title = IF derived = {} THEN <<>> ELSE CHOOSE t \in derived : TRUE,
                                  !.band = band]
  BY <1>2 DEF SendTitle, DeployTitle
<1>4. WellMade(script.compiled)
  BY <1>3 DEF ScriptInv
<1>5. /\ script'.compiled = script.compiled /\ script'.sent = script.sent /\ script'.band = band
      /\ script'.state = IF derived = {} THEN "refused" ELSE "reading"
      /\ script'.title = IF derived = {} THEN <<>> ELSE CHOOSE t \in derived : TRUE
      /\ DOMAIN script' = ScriptFields
  BY <1>1, <1>3 DEF ScriptFields
<1>6. CASE derived = {}
  <2>1. script'.state = "refused"
    BY <1>5, <1>6
  <2>2. RefusalExplained(script.compiled, band)
    BY <1>1, <1>2, <1>4, <1>6, RefusalIsExplained
  <2>3. RefusalExplained(script'.compiled, script'.band)
    BY <1>5, <2>2
  <2>4. QED BY <1>1, <1>3, <1>4, <1>5, <2>1, <2>3, Zenon DEF ScriptInv
<1>7. CASE derived # {}
  <2>1. script'.state = "reading" /\ script'.title \in derived
    BY <1>5, <1>7
  <2>2. script'.title \in titles'
    BY <1>3, <2>1
  <2>3. script'.title \in DeriveTitle(InputsOf(script'.compiled), script'.band)
    BY <1>2, <1>5, <2>1
  <2>4. QED BY <1>1, <1>3, <1>4, <1>5, <2>1, <2>2, <2>3 DEF ScriptInv
<1>8. QED BY <1>6, <1>7

LEMMA ReadBackKeeps ==
  ASSUME ScriptInv, ReadBack
  PROVE  ScriptInv'
<1>1. DOMAIN script = ScriptFields /\ script.sent \in Nat /\ script.band \in RtpBand /\ band \in RtpBand
  BY DEF ScriptInv
<1>2. /\ script.state = "reading" /\ band' = band /\ titles' = titles
  BY DEF ReadBack
<1>3. /\ WellMade(script.compiled)
      /\ script.title \in DeriveTitle(InputsOf(script.compiled), script.band)
      /\ script.title \in titles
  BY <1>2 DEF ScriptInv
<1>4. \A i \in DOMAIN script.title : Quoted(script.title[i]) = script.compiled[i].stats
  BY <1>3, TitleMatches
<1>5. script' = [script EXCEPT !.state = "deployed"]
  BY <1>4, Zenon DEF ReadBack
<1>6. /\ script'.state = "deployed" /\ script'.compiled = script.compiled
      /\ script'.sent = script.sent /\ script'.band = script.band /\ script'.title = script.title
      /\ DOMAIN script' = ScriptFields
  BY <1>1, <1>5 DEF ScriptFields
<1>7. QED BY <1>1, <1>2, <1>3, <1>6 DEF ScriptInv

\* The calls of others only add titles, and move the band.
LEMMA OthersKeep ==
  ASSUME ScriptInv, (ContractNext /\ UNCHANGED script) \/ UNCHANGED deployerVars
  PROVE  ScriptInv'
<1>1. script' = script
  BY DEF deployerVars
<1>2. band \in RtpBand
  BY DEF ScriptInv
<1>3. band' \in RtpBand /\ titles \subseteq titles'
  <2>1. CASE UNCHANGED deployerVars
    BY <1>2, <2>1 DEF deployerVars
  <2>2. CASE ContractNext
    <3>1. CASE \E b \in [minRtpWad : Nat, maxRtpWad : Nat] : SetRtpBand(b)
      BY <3>1 DEF SetRtpBand, RtpBand
    <3>2. CASE \E words \in Seq(TableWord) : DeployChunk(words)
      BY <1>2, <3>2 DEF DeployChunk
    <3>3. CASE \E inputs \in Seq(TableInput) : DeployTitle(inputs)
      BY <1>2, <3>3 DEF DeployTitle
    <3>4. QED BY <2>2, <3>1, <3>2, <3>3, Zenon DEF ContractNext
  <2>3. QED BY <2>1, <2>2
<1>4. QED BY <1>1, <1>3 DEF ScriptInv

LEMMA ScriptStays == ScriptInv /\ [AuthorNext]_deployerVars => ScriptInv'
<1> SUFFICES ASSUME ScriptInv, [AuthorNext]_deployerVars PROVE ScriptInv'
  OBVIOUS
<1>1. CASE \E definition \in Definition : Compile(definition)
  BY <1>1, CompileKeeps
<1>2. CASE SendChunk
  BY <1>2, SendChunkKeeps
<1>3. CASE SendTitle
  BY <1>3, SendTitleKeeps
<1>4. CASE ReadBack
  BY <1>4, ReadBackKeeps
<1>5. CASE (ContractNext /\ UNCHANGED script) \/ UNCHANGED deployerVars
  BY <1>5, OthersKeep
<1>6. QED BY <1>1, <1>2, <1>3, <1>4, <1>5, Zenon DEF AuthorNext

LEMMA ScriptInvHolds == AuthorSpec => []ScriptInv
<1>1. band \in RtpBand /\ DeployerInit => ScriptInv
  BY ScriptStarts
<1>2. ScriptInv /\ [AuthorNext]_deployerVars => ScriptInv'
  BY ScriptStays
<1>3. QED BY <1>1, <1>2, PTL DEF AuthorSpec

LEMMA ScriptSendsTables == ScriptInv => InputsOf(script.compiled) \in Seq(TableInput)
<1> SUFFICES ASSUME ScriptInv PROVE InputsOf(script.compiled) \in Seq(TableInput)
  OBVIOUS
<1>1. CASE script.state = "idle"
  <2>1. script.compiled = <<>>
    BY <1>1 DEF ScriptInv
  <2>2. InputsOf(script.compiled) = <<>>
    BY <2>1 DEF InputsOf
  <2>3. QED BY <2>2
<1>2. CASE script.state # "idle"
  <2>1. WellMade(script.compiled)
    BY <1>2 DEF ScriptInv
  <2>2. QED BY <2>1, InputsAreTyped
<1>3. QED BY <1>1, <1>2

\* Whatever an author writes, tier lists or an import of any size, and whatever others
\* deploy and the owner sets meanwhile.
THEOREM ScriptAlwaysDelivers == AuthorSpec => []ScriptDelivers
<1>1. ASSUME ScriptInv PROVE ScriptDelivers
  <2>1. InputsOf(script.compiled) \in Seq(TableInput)
    BY <1>1, ScriptSendsTables
  <2>2. \A i \in DOMAIN script.compiled : Packed(script.compiled[i].tiers)
    <3>1. CASE script.state = "idle"
      BY <1>1, <3>1 DEF ScriptInv
    <3>2. CASE script.state # "idle"
      BY <1>1, <3>2 DEF ScriptInv, WellMade, WellCompiled
    <3>3. QED BY <3>1, <3>2
  <2>3. /\ script.state # "differs"
        /\ script.state = "refused" => RefusalExplained(script.compiled, script.band)
        /\ script.state = "deployed" => script.title \in titles
    BY <1>1 DEF ScriptInv
  <2>4. QED BY <2>1, <2>2, <2>3, Zenon DEF ScriptDelivers
<1>2. QED BY <1>1, ScriptInvHolds, PTL

\* With an author at work, the contract is still the contract by itself.
THEOREM AuthorKeepsTheContract == AuthorSpec => ContractSpec
<1>1. DeployerInit => chunks = {} /\ titles = {}
  BY DEF DeployerInit
<1>2. ASSUME ScriptInv, [AuthorNext]_deployerVars PROVE [ContractNext]_contractVars
  <2>1. CASE \E definition \in Definition : Compile(definition)
    BY <2>1 DEF Compile, contractVars
  <2>2. CASE SendChunk \/ SendTitle
    <3>1. InputsOf(script.compiled) \in Seq(TableInput) /\ script.sent \in Nat
      BY <1>2, ScriptSendsTables DEF ScriptInv
    <3>2. QED BY <2>2, <3>1, ScriptCallsTheContract
  <2>3. CASE ReadBack
    BY <2>3 DEF ReadBack, contractVars
  <2>4. CASE ContractNext
    BY <2>4
  <2>5. CASE UNCHANGED deployerVars
    BY <2>5 DEF deployerVars, contractVars
  <2>6. QED BY <1>2, <2>1, <2>2, <2>3, <2>4, <2>5, Zenon DEF AuthorNext
<1>3. QED BY <1>1, <1>2, ScriptInvHolds, PTL DEF AuthorSpec, ContractSpec

=============================================================================
