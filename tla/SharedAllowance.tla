--------------------------- MODULE SharedAllowance ---------------------------
(***************************************************************************)
(* What an exact arbiter promises the calls that share its limits, with no *)
(* clock, tombstone, window or retry: a call holds its estimate, may lapse *)
(* once, and ends at most once, either paying its bill into every budget   *)
(* row it runs under or giving its estimate back.  Whatever is granted     *)
(* leaves every row it claims within its limit at that instant.            *)
(***************************************************************************)
EXTENDS Totals

CONSTANTS Ids, Keys, MeterOf, Limit

VARIABLES
  status,   \* call -> "none", "held", "lapsed", "settled" or "released"
  claim,    \* call -> the rows and estimates it was granted
  bill,     \* call -> what it paid, by meter
  spent     \* row -> what has been spent of it

vars == <<status, claim, bill, spent>>

Init ==
  /\ \A i \in Ids : status[i] = "none"
  /\ \A k \in Keys : spent[k] = 0

HeldOf(k) ==
  Total({i \in Ids : status[i] = "held" /\ k \in claim[i].keys},
        [i \in Ids |-> claim[i].est[MeterOf[k]]])

(* Spending learnt from outside the arbiter only adds. *)
Rise == \A k \in Keys : spent'[k] >= spent[k]

Learn == Rise /\ UNCHANGED <<status, claim, bill>>

Grant(i) ==
  /\ status[i] = "none"
  /\ status' = [status EXCEPT ![i] = "held"]
  /\ claim' = [claim EXCEPT ![i] = claim'[i]]
  /\ Rise
  /\ \A k \in claim'[i].keys : spent'[k] + HeldOf(k)' <= Limit[k]
  /\ UNCHANGED bill

(* Time takes capacity back from any number of calls at once. *)
Lapse ==
  /\ \A i \in Ids : status'[i] # status[i] => status[i] = "held" /\ status'[i] = "lapsed"
  /\ UNCHANGED <<claim, bill, spent>>

Pay(i) ==
  /\ status[i] \in {"held", "lapsed"}
  /\ status' = [status EXCEPT ![i] = "settled"]
  /\ bill' = [bill EXCEPT ![i] = bill'[i]]
  /\ spent' = [k \in Keys |-> IF k \in claim[i].keys THEN spent[k] + bill'[i][MeterOf[k]]
                                                    ELSE spent[k]]
  /\ UNCHANGED claim

GiveBack(i) ==
  /\ status[i] \in {"held", "lapsed"}
  /\ status' = [status EXCEPT ![i] = "released"]
  /\ UNCHANGED <<claim, bill, spent>>

Next ==
  \/ Learn
  \/ Lapse
  \/ \E i \in Ids : Grant(i) \/ Pay(i) \/ GiveBack(i)

Spec == Init /\ [][Next]_vars

=============================================================================
