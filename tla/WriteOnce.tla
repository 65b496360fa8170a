------------------------------ MODULE WriteOnce ------------------------------
(***************************************************************************)
(* What a slot node promises to the processes that bind it: it takes one   *)
(* value for ever, whoever proposes that value may be told so, and nobody  *)
(* who proposes it is ever told that it lost.                              *)
(*                                                                         *)
(* Approval decisions and team bindings are both built this way: a node    *)
(* whose identity does not contain the value, and whose result names it.   *)
(***************************************************************************)
CONSTANTS
  Proposers,   \* calls that may be under way at a time
  Values,      \* what can be bound
  Unbound      \* no member of Values: the slot is not stored

VARIABLES
  value,       \* what the slot is bound to
  proposal,    \* what each proposer's call wants to bind
  answer       \* what each proposer's call was told

vars == <<value, proposal, answer>>

Init ==
  /\ value = Unbound
  /\ proposal \in [Proposers -> Values]
  /\ answer = [p \in Proposers |-> "none"]

(* A call begins, after an earlier one of the same proposer ended or died. *)
Propose(p, v) ==
  /\ proposal' = [proposal EXCEPT ![p] = v]
  /\ answer' = [answer EXCEPT ![p] = "none"]
  /\ UNCHANGED value

Bind(p) ==
  /\ value = Unbound
  /\ value' = proposal[p]
  /\ UNCHANGED <<proposal, answer>>

Accept(p) ==
  /\ value = proposal[p]
  /\ answer' = [answer EXCEPT ![p] = "accepted"]
  /\ UNCHANGED <<value, proposal>>

Refuse(p) ==
  /\ value \notin {Unbound, proposal[p]}
  /\ answer' = [answer EXCEPT ![p] = "refused"]
  /\ UNCHANGED <<value, proposal>>

Next == \E p \in Proposers :
  \/ \E v \in Values : Propose(p, v)
  \/ Bind(p)
  \/ Accept(p)
  \/ Refuse(p)

Spec == Init /\ [][Next]_vars
=============================================================================
