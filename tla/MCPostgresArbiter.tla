-------------------------- MODULE MCPostgresArbiter --------------------------
(* Finite instances of PostgresArbiter: two connections, two reservations, *)
(* the budget rows of a team (1) and of a run in it (2), and one window.   *)
EXTENDS PostgresArbiter, TLC

CONSTANTS s1, s2, c1, c2, tokens

MCMeterOf == [r \in 1 .. 3 |-> tokens]
MCLimit == <<2, 1, 1>>
MCSpan == (3 :> 2)

Estimate(n) == [m \in {tokens} |-> n]
Ask(keys, wins, base) ==
  [keys |-> keys, wins |-> wins, est |-> Estimate(1), base |-> base]

(* A call of the nested run under the window, one of the team under the    *)
(* window, and one of the run that brings a token recorded in the team's   *)
(* tree.  The first shares row 2 with the last and the window with the     *)
(* other, each of which has room for one of the two.                       *)
MCRequests == {Ask({1, 2}, {3}, <<0, 0>>), Ask({1}, {3}, <<0, 0>>), Ask({1, 2}, {}, <<1, 0>>)}
MCCharges == {Estimate(2)}

Symmetry == Permutations(Sessions) \cup Permutations(Ids)
=============================================================================
