--------------------------- MODULE MCGovernedCall ---------------------------
(* Calls of one run: c1 and c2 of two workers, or c1 and c3 one after the  *)
(* other.  Row 1 is the run's own budget; row 2, where there is one, is a  *)
(* named budget shared with other runs.  c1 and c2 have the same payload   *)
(* and cursor, so they are recorded at the same node.                      *)
EXTENDS GovernedCall, TLC

CONSTANTS c1, c2, c3, w1, w2, tokens

Tokens(n) == [m \in {tokens} |-> n]
MCOwner == [i \in Ids |-> IF i = c2 THEN w2 ELSE w1]
MCPlan == [i \in Ids |->
  [keys |-> Keys, wins |-> {}, est |-> Tokens(1)]]
MCNodeOf == [i \in Ids |-> IF i = c3 THEN c3 ELSE c1]
MCMeterOf == [k \in Keys |-> tokens]
MCLimit == [k \in Keys |-> k]
MCSpan == << >>
MCActuals == {Tokens(1), Tokens(2)}
=============================================================================
