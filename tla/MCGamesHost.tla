---------------------------- MODULE MCGamesHost ----------------------------
(***************************************************************************)
(* GamesHost in its worlds: Klabak alone, with a word per tier boundary   *)
(* and cabinet; two games and two rounds on one queue; a title of tier     *)
(* lists, an import and strangers' titles, on their own and played; rounds *)
(* while the node is set up; and rounds of two nodes.                      *)
(***************************************************************************)
EXTENDS GamesHost

CONSTANTS PlayerFunds, VaultFunds

\* A word whose candidate number i is c, after i rejected ones.
WordWith(i, c) ==
  [candidate |-> [j \in 0..(DRAW_ATTEMPTS - 1) |-> IF j < i THEN DRAW_LIMIT ELSE c],
   lastResort |-> 999999]

MCRandomness ==
  {WordWith(0, 0), WordWith(0, 499999), WordWith(1, 500000), WordWith(2, 780000),
   WordWith(7, 2000000 - 30000), WordWith(3, DRAW_LIMIT - 1), WordWith(8, 0)}

MCInitialBalance ==
  [a \in Players \cup {Host, Vault} |->
     IF a = Host THEN 0 ELSE IF a = Vault THEN VaultFunds ELSE PlayerFunds]
MCInitialSupply == Cardinality(Players) * PlayerFunds + VaultFunds

Bet(klabak, wager, bytes, value) ==
  [klabak |-> klabak, wager |-> wager, data |-> [bytes |-> bytes, value |-> value]]
Prize(numerator, denominator, weight) ==
  [prize |-> [numerator |-> numerator, denominator |-> denominator], weight |-> weight]
List(tierList, prizeDenominator) == [tierList |-> tierList, prizeDenominator |-> prizeDenominator]
Lists(betConfigurations) == [kind |-> "tier lists", betConfigurations |-> betConfigurations]
Row(id, weight, payout) == [id |-> id, weight |-> weight, payoutMultiplier |-> payout]
Mode(rows, numerator, denominator) ==
  [rows |-> rows, cost |-> [numerator |-> numerator, denominator |-> denominator]]
Import(modes, seedsPerPrize) ==
  [kind |-> "stake", modes |-> modes, seedsPerPrize |-> seedsPerPrize]

Band(low, high) == [minRtpWad |-> low, maxRtpWad |-> high]

\* Three prizes of two chunks, one of them twice, with misses; and a bonus.
Base == List(<<Prize(0, 1, 5), Prize(50, 100, 2), Prize(3, 1, 1), Prize(1, 2, 1), Prize(1, 1, 2)>>, 0)
Bonus == List(<<Prize(1, 3, 3), Prize(2, 1, 1)>>, 0)
NoMisses == List(<<Prize(9, 10, 4)>>, 10)

MCDefinitions ==
  {Lists(<<Base, Bonus>>), Lists(<<NoMisses>>), Lists(<<Bonus, Base, Bonus>>),
   \* refused: the total passes 64 bits; three chunks; or does not compile
   Lists(<<List(<<Prize(0, 1, 60), Prize(9, 1, 6)>>, 0)>>),
   Lists(<<List(<<Prize(0, 1, 9), Prize(1, 1, 1), Prize(2, 1, 1), Prize(3, 1, 1), Prize(4, 1, 1),
                  Prize(5, 1, 1)>>, 0)>>),
   Lists(<<List(<<Prize(2, 1, 3)>>, 0)>>), Lists(<<List(<<Prize(1, 3, 1)>>, 2)>>)}

\* Imports: as they are, at a cost of 2 and of 3/2, rescaled with misses, and
\* rescaled without any, so that misses are made or would be negative.
MCImports ==
  {Import(<<Mode(<<Row("1", 4, 0), Row("2", 2, 150), Row("3", 1, 0), Row("4", 1, 150)>>, 1, 1)>>, 2),
   Import(<<Mode(<<Row("1", 9, 0), Row("2", 2, 150), Row("3", 0, 900), Row("4", 3, 300)>>, 2, 1),
            Mode(<<Row("1", 2, 50), Row("2", 2, 100)>>, 15, 10)>>, 3),
   Import(<<Mode(<<Row("1", 30, 0), Row("2", 20, 50), Row("3", 9, 150), Row("4", 1, 200)>>, 1, 1)>>, 2),
   Import(<<Mode(<<Row("1", 29, 50), Row("2", 1, 100)>>, 1, 1)>>, 1),
   Import(<<Mode(<<Row("1", 30, 50), Row("2", 7, 60)>>, 1, 1)>>, 4),
   Import(<<Mode(<<Row("1", 3, 0)>>, 1, 1)>>, 2)}

MCForeignChunks ==
  {<<[prizeUnits |-> 1, cumulativeWeight |-> 2], [prizeUnits |-> 2, cumulativeWeight |-> 3]>>,
   <<[prizeUnits |-> 3, cumulativeWeight |-> 4]>>,
   <<[prizeUnits |-> 2, cumulativeWeight |-> 1]>>,
   <<[prizeUnits |-> 4, cumulativeWeight |-> 5], [prizeUnits |-> 4, cumulativeWeight |-> 6]>>}
MCForeignInputs ==
  {[prizeDenominator |-> d, missWeight |-> m] : d \in {0, 2}, m \in {0, 6}}

Wide == Band(100, 990)
Local == [from |-> 0, fulfillers |-> {5}, others |-> {}, setUp |-> FALSE]
KlabakWorld ==
  [bets |-> {Bet(TRUE, w, 32, c) : w \in {1, 7}, c \in 0..3} \cup {Bet(TRUE, 1, 1, 0)},
   sessions |-> 1, definitions |-> {}, bands |-> {Wide}, foreign |-> {}, inputs |-> {}, titles |-> 0] @@ Local
QueueWorld ==
  [bets |-> {Bet(TRUE, 7, 32, 0), Bet(FALSE, 3, 0, 0)},
   sessions |-> 2, definitions |-> {Lists(<<Base, Bonus>>)}, bands |-> {Wide}, foreign |-> {}, inputs |-> {}, titles |-> 0] @@ Local
TitleWorld ==
  [bets |-> {Bet(FALSE, 3, 1, v) : v \in 0..2} \cup {Bet(FALSE, 1, 1, 0), Bet(FALSE, 3, 2, 0)},
   sessions |-> 1, definitions |-> MCDefinitions \cup MCImports, bands |-> {Wide}, foreign |-> {}, inputs |-> {}, titles |-> 0] @@ Local
AuthorWorld ==
  [bets |-> {Bet(FALSE, 3, 0, 0)}, sessions |-> 0, definitions |-> MCDefinitions \cup MCImports,
   bands |-> {Wide, Band(850, 980), Band(500, 600)},
   foreign |-> {<<[prizeUnits |-> 3, cumulativeWeight |-> 4]>>}, inputs |-> {}, titles |-> 0] @@ Local
ForeignWorld ==
  [bets |-> {Bet(FALSE, 3, 0, 0)}, sessions |-> 0, definitions |-> {},
   bands |-> {Wide}, foreign |-> MCForeignChunks, inputs |-> MCForeignInputs, titles |-> 1] @@ Local

\* A title of one prize, for what matters here is who fulfills what.
SetUpWorld ==
  [QueueWorld EXCEPT !.bets = {Bet(FALSE, 3, 0, 0)}, !.definitions = {Lists(<<NoMisses>>)}, !.setUp = TRUE]
VerifyWorld ==
  [SetUpWorld EXCEPT !.setUp = FALSE, !.from = 2, !.fulfillers = {5, 7}, !.others = {7}]

\* One bet large enough for whole numbers not to matter.
MCVarianceWorlds ==
  {[KlabakWorld EXCEPT !.bets = {Bet(TRUE, 100, 32, c) : c \in 0..2}]}

MCWorlds == {KlabakWorld, QueueWorld, TitleWorld, AuthorWorld, ForeignWorld, SetUpWorld, VerifyWorld}

\* The hashes: the node's key 5 finds no point for sequence number 4, nor at the first
\* attempt for number 3; the other node's key 7 none for number 3.
MCTryHashToPoint(key, alpha, n) ==
  IF (key = 5 /\ alpha.sequence = 4) \/ (key = 5 /\ alpha.sequence = 3 /\ n = 0)
       \/ (key = 7 /\ alpha.sequence = 3) THEN NoPoint
  ELSE 1 + ((11 * key + 17 * alpha.sequence + 29 * alpha.fulfiller + 7 * n) % (Q - 1))
MCChallenge(h, gamma, u, v) == (3 * h + 5 * gamma + 7 * u * u + 11 * v) % C_LIMIT
MCNonce(x, h) == 1 + ((x * 13 + h * 5) % (Q - 1))
MCAlphas == [consumer : {"host"}, sequence : 1..4, fulfiller : {5, 7}]

=============================================================================
