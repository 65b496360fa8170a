----------------------------- MODULE HashRopeLog -----------------------------
(***************************************************************************)
(* HashRopeStore: the nodes in memory, and a log of what was done to them  *)
(* that is to give the same nodes when it is opened again.  An operation   *)
(* changes the nodes first and is then written to the log, which fails     *)
(* when its metadata cannot be encoded (json.dumps of a lone surrogate,    *)
(* which the validation of a node lets through, has no UTF-8).  Offline    *)
(* collection writes the log anew.                                         *)
(***************************************************************************)
EXTENDS Naturals, Sequences, SequencesExt, FiniteSets

CONSTANTS
  Order,        \* node ids as they are walked: a parent before its children
  Parent,       \* node -> its parent, a root -> itself
  Results,      \* "none" among them
  Labels,       \* values of a metadata key
  Unencodable,  \* those that have no UTF-8
  MaxLog,       \* bound: records in the log
  MaxRivals,    \* bound: rival results of a node
  Absent        \* no node
VARIABLES
  nodes,     \* node -> its result, rival results and metadata, or Absent
  children,  \* the index: node -> ids
  log
vars == <<nodes, children, log>>

Nodes == ToSet(Order)
IsRoot(n) == Parent[n] = n
Meta == [label : Labels \cup {"none"}, pruned : BOOLEAN]
Fresh(r, l) == [result |-> r, rivals |-> <<>>, meta |-> [label |-> l, pruned |-> FALSE]]

TypeOK ==
  /\ \A n \in Nodes : nodes[n] # Absent =>
       nodes[n] \in [result : Results, rivals : Seq(Results \ {"none"}), meta : Meta]
  /\ children \in [Nodes -> SUBSET Nodes]
  /\ Len(log) <= MaxLog

-----------------------------------------------------------------------------
(* Records, and what they do to the nodes when they are applied.           *)
PutRecord(n, v) == [op |-> "put", id |-> n, value |-> v]
MetaRecord(n, patch) == [op |-> "meta", id |-> n, value |-> patch]

Unreadable == <<>>
Empty == [n \in Nodes |-> Absent]
Has(store, n) == store[n] # Absent
HasParent(store, n) == IsRoot(n) \/ Has(store, Parent[n])

NotesRival(old, v) == v.result \notin {"none", old.result}

WithRival(old, v) ==
  IF NotesRival(old, v) THEN [old EXCEPT !.rivals = Append(@, v.result)] ELSE old

(* Metadata: the label of a patch replaces the old, or the node is pruned. *)
Patched(meta, patch) ==
  IF patch = "pruned" THEN [meta EXCEPT !.pruned = TRUE] ELSE [meta EXCEPT !.label = patch]

Apply(store, r) ==
  IF r.op = "put"
  THEN [store EXCEPT ![r.id] = IF Has(store, r.id) THEN WithRival(@, r.value) ELSE r.value]
  ELSE [store EXCEPT ![r.id].meta = Patched(@, r.value)]
Applies(store, r) == IF r.op = "put" THEN HasParent(store, r.id) ELSE Has(store, r.id)

Replay(data) ==
  FoldLeft(LAMBDA store, r :
             IF store = Unreadable \/ ~Applies(store, r) THEN Unreadable ELSE Apply(store, r),
           Empty, data)

Reindexed(store) == [p \in Nodes |-> {n \in Nodes : Has(store, n) /\ ~IsRoot(n) /\ Parent[n] = p}]

-----------------------------------------------------------------------------
(* _append: a record with metadata that has no UTF-8 raises.               *)
Encodes(r) ==
  LET l == IF r.op = "put" THEN r.value.meta.label ELSE r.value IN l \notin Unencodable
Logged(r) == IF Encodes(r) THEN Append(log, r) ELSE log

(* A put that changes nothing is not logged.                               *)
LogsPut(n, v) == ~Has(nodes, n) \/ NotesRival(nodes[n], v)

PutNode(n, v) ==
  /\ HasParent(nodes, n) /\ Len(log) < MaxLog
  /\ Has(nodes, n) /\ NotesRival(nodes[n], v) => Len(nodes[n].rivals) < MaxRivals
  /\ nodes' = Apply(nodes, PutRecord(n, v))
  /\ children' = IF Has(nodes, n) \/ IsRoot(n) THEN children
                 ELSE [children EXCEPT ![Parent[n]] = @ \cup {n}]
  /\ log' = IF LogsPut(n, v) THEN Logged(PutRecord(n, v)) ELSE log

UpdateMeta(n, patch) ==
  /\ Has(nodes, n) /\ Len(log) < MaxLog
  /\ nodes' = Apply(nodes, MetaRecord(n, patch))
  /\ log' = Logged(MetaRecord(n, patch))
  /\ UNCHANGED children

-----------------------------------------------------------------------------
(* gc: the trees of pruned nodes, as they are walked by the index.         *)
InTree[i \in 1 .. Len(Order)] ==
  LET n == Order[i]
      At(p) == CHOOSE j \in 1 .. Len(Order) : Order[j] = p
  IN {n} \cup (IF IsRoot(n) THEN {} ELSE InTree[At(Parent[n])])
AndAbove(n) == InTree[CHOOSE i \in 1 .. Len(Order) : Order[i] = n]
Below(s) == {n \in Nodes : Has(nodes, n) /\ AndAbove(n) \cap s # {}}
Marked == {n \in Nodes : Has(nodes, n) /\ nodes[n].meta.pruned}

(* _rewrite_log: the nodes from the roots down; one that has no UTF-8 ends *)
(* it with an error, after the log was emptied.                            *)
Walked(store) == SelectSeq(Order, LAMBDA n : Has(store, n))

Rewritten(store) ==
  LET records == [i \in DOMAIN Walked(store) |-> PutRecord(Walked(store)[i], store[Walked(store)[i]])]
      bad == {i \in DOMAIN records : ~Encodes(records[i])}
  IN IF bad = {} THEN records
     ELSE SubSeq(records, 1, (CHOOSE i \in bad : \A j \in bad : i <= j) - 1)

DropPruned ==
  LET left == [n \in Nodes |-> IF n \in Below(Marked) THEN Absent ELSE nodes[n]] IN
  /\ nodes' = left /\ children' = Reindexed(left) /\ log' = Rewritten(left)

Compact == log' = Rewritten(nodes) /\ UNCHANGED <<nodes, children>>

Init == nodes = Empty /\ children = [n \in Nodes |-> {}] /\ log = <<>>
Next ==
  \/ \E n \in Nodes, r \in Results, l \in Unencodable \cup {"none"} : PutNode(n, Fresh(r, l))
  \/ \E n \in Nodes, patch \in Labels \cup {"pruned"} : UpdateMeta(n, patch)
  \/ DropPruned
  \/ Compact
Spec == Init /\ [][Next]_vars

-----------------------------------------------------------------------------
(* What is opened from to_bytes() is the store it was taken from: every    *)
(* node, result, rival and label, in whatever order they were put, patched *)
(* and collected.                                                          *)
ReopensTheSame == Replay(log) = nodes

(* A log that was cut short at a record still opens (_replay): no record   *)
(* comes before what it needs, not even in a log that was written anew.    *)
EveryPrefixOpens == \A i \in 0 .. Len(log) : Replay(SubSeq(log, 1, i)) # Unreadable

(* children(), by which trees are walked, sealed and dropped, answers with *)
(* the nodes that are stored, no more and no fewer.                        *)
IndexAgrees == children = Reindexed(nodes)
=============================================================================
