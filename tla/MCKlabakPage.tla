---------------------------- MODULE MCKlabakPage ----------------------------
(***************************************************************************)
(* KlabakPage with demo words for a slip, a prize and a word whose         *)
(* candidates are all rejected, a history that is cut after one line, and  *)
(* a charm on the shelf from an earlier visit.                             *)
(***************************************************************************)
EXTENDS KlabakView

\* A word whose accepted candidates are c.
DemoWord(c) == [candidate |-> [i \in 0..7 |-> IF i = 0 THEN CandidateLimit ELSE c], fold |-> 0]

MCDemoWords == {DemoWord(0), DemoWord(1600000), DemoWord(CandidateLimit)}

MCStoredShelf == [charm \in Charms |-> IF charm = <<2, 1>> THEN 3 ELSE 0]

=============================================================================
