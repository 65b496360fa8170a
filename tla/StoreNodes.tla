----------------------------- MODULE StoreNodes -----------------------------
(***************************************************************************)
(* The node operations of the transactional stores, as functions of what   *)
(* their transaction reads: storing a node, patching its metadata and      *)
(* dropping nodes.                                                         *)
(***************************************************************************)
EXTENDS Naturals, FiniteSets, Sequences, Functions

CONSTANTS
  Nodes,    \* node ids
  Parent,   \* node -> its parent, or itself
  Results,  \* results
  Keys,     \* metadata keys, each with one value
  Absent,   \* no node
  NoteRepeats  \* whether a result is noted each time it comes, or once

NoOperation == [do |-> "none"]

IsStore(store) ==
  /\ DOMAIN store = Nodes
  /\ \A n \in Nodes : store[n] # Absent =>
       store[n] \in [result : Results, rivals : Seq(Results), meta : SUBSET Keys]

(* The constants and the operations called fit together.                   *)
ConstantsFit(operations) ==
  /\ Parent \in [Nodes -> Nodes]
  /\ Absent \notin [result : Results, rivals : Seq(Results), meta : SUBSET Keys]
  /\ \A o \in operations :
       \/ o.do = "put" /\ o.node \in Nodes /\ o.arg \in Results
       \/ o.do = "meta" /\ o.node \in Nodes /\ o.arg \in Keys
       \/ o.do = "drop" /\ o.nodes \subseteq Nodes

Empty == [n \in Nodes |-> Absent]
Has(store, n) == store[n] # Absent

(* The records an operation reads, in order; it refuses when the first of  *)
(* them is missing, unless that is the new root itself.                    *)
Reads(o) ==
  IF o.do = "put" /\ Parent[o.node] # o.node THEN <<Parent[o.node], o.node>>
  ELSE IF o.do \in {"put", "meta"} THEN <<o.node>>
  ELSE <<>>
Needed(o) ==
  IF o.do = "put" THEN {Parent[o.node]} \ {o.node}
  ELSE IF o.do = "meta" THEN {o.node} ELSE {}
Refused(store, o) == \E n \in Needed(o) : ~Has(store, n)

(* A result that differs from the stored one is noted beside it ...        *)
AddRivalAlways(old, r) == IF r = old.result THEN old ELSE [old EXCEPT !.rivals = Append(@, r)]

(* ... or, by the stores that look for it, once.                           *)
AddRivalOnce(old, r) ==
  IF r = old.result \/ r \in Range(old.rivals) THEN old
  ELSE [old EXCEPT !.rivals = Append(@, r)]

AddRival(old, r) == IF NoteRepeats THEN AddRivalAlways(old, r) ELSE AddRivalOnce(old, r)

(* What the operation makes of node n, given what it read.                 *)
NewValue(store, o, n) ==
  IF o.do = "drop" THEN Absent
  ELSE IF o.do = "meta" THEN [store[n] EXCEPT !.meta = @ \cup {o.arg}]
  ELSE IF Has(store, n) THEN AddRival(store[n], o.arg)
  ELSE [result |-> o.arg, rivals |-> <<>>, meta |-> {}]

(* The records it writes: a node that is there already is left alone.      *)
Writes(store, o) ==
  IF o.do = "drop" THEN o.nodes
  ELSE IF o.do = "put" /\ NewValue(store, o, o.node) = store[o.node] THEN {}
  ELSE {o.node}

(* The store after the operation, which read `seen` of it.                 *)
Written(store, seen, o) ==
  [n \in Nodes |-> IF n \in Writes(seen, o) THEN NewValue(seen, o, n) ELSE store[n]]

After(store, o) == IF Refused(store, o) THEN store ELSE Written(store, store, o)
=============================================================================
