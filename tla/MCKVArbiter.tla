----------------------------- MODULE MCKVArbiter -----------------------------
(* Finite instances of KVArbiter: a team scope (row 1) and a run scope     *)
(* nested in it (row 2), both counting tokens, and one sliding window.     *)
EXTENDS KVArbiter, TLC

CONSTANTS c1, c2, c3, tokens, minute

MCMeterOf == [r \in {1, 2, minute} |-> tokens]
MCLimit == (1 :> 3) @@ (2 :> 2) @@ (minute :> 2)
MCSpan == (minute :> 2)

Estimate(n) == [m \in {tokens} |-> n]
Ask(keys, wins, n, base) ==
  [keys |-> keys, wins |-> wins, est |-> Estimate(n), base |-> base]
Base(a, b) == <<a, b>>

(* Row 2 is never given a baseline: ChargedExactlyOnce applies to it.      *)
(* A call of the nested run, one of the team, one under the window only,   *)
(* and one that found a recorded token in the team's tree.                 *)
MCRequests ==
  {Ask({1, 2}, {minute}, 1, Base(0, 0)), Ask({1}, {}, 2, Base(0, 0)),
   Ask({1}, {minute}, 1, Base(1, 0))}
MCCharges == {Estimate(n) : n \in 0 .. 2}

Symmetry == Permutations(Ids)
=============================================================================
