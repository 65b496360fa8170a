---------------------------- MODULE SerialStore ----------------------------
(***************************************************************************)
(* What a transactional store promises its callers: every call takes       *)
(* effect at instants of its own, between its beginning and its end, on    *)
(* the whole store at once.  A call that returns took effect at least      *)
(* once; one that fails for want of an answer may have taken effect or     *)
(* not, and one that was tried again may have done so each time.           *)
(***************************************************************************)
EXTENDS StoreNodes

CONSTANTS
  Clients,
  Operations,  \* the operations clients call
  MaxEffects   \* how often one call may take effect

VARIABLES
  store,    \* node -> its record
  doing,    \* client -> the operation it called
  effects,  \* client -> how often its call took effect
  saw,      \* client -> what the last of these effects was
  reply     \* client -> how its last call ended

vars == <<store, doing, effects, saw, reply>>

Init ==
  /\ store = Empty
  /\ doing = [c \in Clients |-> NoOperation]
  /\ effects = [c \in Clients |-> 0]
  /\ saw = [c \in Clients |-> "none"]
  /\ reply = [c \in Clients |-> "none"]

Call(c, o) ==
  /\ doing[c] = NoOperation
  /\ doing' = [doing EXCEPT ![c] = o]
  /\ effects' = [effects EXCEPT ![c] = 0]
  /\ saw' = [saw EXCEPT ![c] = "none"]
  /\ reply' = [reply EXCEPT ![c] = "none"]
  /\ UNCHANGED store

Effect(c) ==
  /\ doing[c] # NoOperation /\ effects[c] < MaxEffects
  /\ store' = After(store, doing[c])
  /\ effects' = [effects EXCEPT ![c] = @ + 1]
  /\ saw' = [saw EXCEPT ![c] = IF Refused(store, doing[c]) THEN "refused" ELSE "done"]
  /\ UNCHANGED <<doing, reply>>

Return(c) ==
  /\ doing[c] # NoOperation
  /\ doing' = [doing EXCEPT ![c] = NoOperation]
  /\ \E how \in {saw[c], "error"} \ {"none"} : reply' = [reply EXCEPT ![c] = how]
  /\ UNCHANGED <<store, effects, saw>>

Next == \E c \in Clients : (\E o \in Operations : Call(c, o)) \/ Effect(c) \/ Return(c)

Spec == Init /\ [][Next]_vars
=============================================================================
