---------------------------- MODULE SessionRisk -----------------------------
(***************************************************************************)
(* What a casino session promises, without saying how: a session opens     *)
(* with two caps, closes once, and in between the player's net position    *)
(* (what the session paid the player less what it took) stays between the  *)
(* two.  While it is open the player cannot be ahead.  This is the promise *)
(* behind quoteCaps (simulator/contracts/ICasinoGameV2.sol) that the       *)
(* house's risk accounting and the player's bet limits both rely on.       *)
(***************************************************************************)
EXTENDS Integers

CONSTANTS Sessions

VARIABLES status, caps, net

Bounds == [maxEscrowStake : Nat, maxReservedProfit : Nat]

Init ==
  /\ status = [i \in Sessions |-> "new"]
  /\ caps = [i \in Sessions |-> [maxEscrowStake |-> 0, maxReservedProfit |-> 0]]
  /\ net = [i \in Sessions |-> 0]

\* The positions a session may be left in, with the caps c.
Position(i, c) ==
  \/ /\ status' = [status EXCEPT ![i] = "open"]
     /\ \E x \in -c.maxEscrowStake..0 : net' = [net EXCEPT ![i] = x]
  \/ /\ status' = [status EXCEPT ![i] = "closed"]
     /\ \E x \in -c.maxEscrowStake..c.maxReservedProfit : net' = [net EXCEPT ![i] = x]

\* A session opens; it may settle at once.
Open(i) ==
  /\ status[i] = "new"
  /\ caps'[i] \in Bounds
  /\ caps' = [caps EXCEPT ![i] = caps'[i]]
  /\ Position(i, caps'[i])

\* An open session moves or closes under the caps it was opened with.
Advance(i) ==
  /\ status[i] = "open"
  /\ UNCHANGED caps
  /\ Position(i, caps[i])

Next == \E i \in Sessions : Open(i) \/ Advance(i)

Spec == Init /\ [][Next]_<<status, caps, net>>

=============================================================================
