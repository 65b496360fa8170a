--------------------------- MODULE SubtreeTransfer ---------------------------
(***************************************************************************)
(* Sealing, publishing, exporting and importing a subtree.  The source has *)
(* a writer at all times; the file may be cut short by a crash or edited;  *)
(* the import may die between any two nodes and is run again.              *)
(*                                                                         *)
(* A tree is a function from node ids to results or Absent: an id stands   *)
(* for the identity it hashes, and a result for its digest.  A seal chains *)
(* ids and result digests in walk order, which the ids determine, so it is *)
(* equal exactly for equal trees; metadata is not sealed and is left out.  *)
(***************************************************************************)
EXTENDS Naturals, FiniteSets, Sequences, SequencesExt

CONSTANTS
  Nodes,       \* node ids
  Parent,      \* node -> its parent, or itself
  Results,     \* results, of which one may stand for no result
  Absent,      \* no node
  MaxExports,  \* bound: exports started
  MaxEdits,    \* bound: edits of the file
  MaxSeals,    \* bound: seals published
  MaxImports   \* bound: imports started

VARIABLES
  src, tgt,    \* the two stores
  export,      \* the export at work
  file,        \* the exported file
  import,      \* the import at work
  custody,     \* seals in the custody log, in sequence
  accepted,    \* the manifests that an import has reported (history)
  exports, edits, imports

vars == <<src, tgt, export, file, import, custody, accepted, exports, edits, imports>>

Trees == [Nodes -> Results \cup {Absent}]
Empty == [n \in Nodes |-> Absent]
In(t) == {n \in Nodes : t[n] # Absent}
Up(n) == {n, Parent[n], Parent[Parent[n]]}
Subtree(t, root) == [n \in Nodes |-> IF root \in Up(n) THEN t[n] ELSE Absent]
Closed(t) == \A n \in In(t) : Parent[n] \in In(t)
Roots == {n \in Nodes : Parent[n] = n}

NoExport == [at |-> "idle", root |-> CHOOSE n \in Roots : TRUE, base |-> Empty, seal |-> Empty]
NoFile == [is |-> "none", root |-> CHOOSE n \in Roots : TRUE, nodes |-> Empty, seal |-> Empty]
NoImport == [at |-> "idle", root |-> CHOOSE n \in Roots : TRUE, nodes |-> Empty, seal |-> Empty]

TypeOK ==
  /\ src \in Trees /\ tgt \in Trees
  /\ export \in [at : {"idle", "sealing", "sealed"}, root : Nodes, base : Trees, seal : Trees]
  /\ file \in [is : {"none", "partial", "whole"}, root : Nodes, nodes : Trees, seal : Trees]
  /\ import \in [at : {"idle", "writing"}, root : Nodes, nodes : Trees, seal : Trees]
  /\ custody \in Seq([root : Nodes, seal : Trees])
  /\ accepted \subseteq [root : Nodes, seal : Trees, nodes : Trees]
  /\ exports \in 0 .. MaxExports /\ edits \in 0 .. MaxEdits /\ imports \in 0 .. MaxImports

Init ==
  /\ src = Empty /\ tgt = Empty
  /\ export = NoExport /\ file = NoFile /\ import = NoImport
  /\ custody = <<>> /\ accepted = {}
  /\ exports = 0 /\ edits = 0 /\ imports = 0

-----------------------------------------------------------------------------
(* put, by runs that write to either store; imports are offline.           *)
Puttable(t, n) == t[n] = Absent /\ (n \in Roots \/ Parent[n] \in In(t))
WriteSource(n, x) ==
  /\ Puttable(src, n)
  /\ src' = [src EXCEPT ![n] = x]
  /\ UNCHANGED <<tgt, export, file, import, custody, accepted, exports, edits, imports>>
WriteTarget(n, x) ==
  /\ import.at = "idle"
  /\ Puttable(tgt, n)
  /\ tgt' = [tgt EXCEPT ![n] = x]
  /\ UNCHANGED <<src, export, file, import, custody, accepted, exports, edits, imports>>

(* A walk reads node by node while others are stored: what was there when  *)
(* it began, with any of what has come since, parents first.               *)
Walks(base, now, root) ==
  {w \in Trees : /\ In(Subtree(base, root)) \subseteq In(w)
                 /\ \A n \in In(w) : /\ w[n] = now[n] /\ root \in Up(n)
                                     /\ n = root \/ Parent[n] \in In(w)}

(* pollard seal and SQLiteSealSink.publish, which appends.                 *)
Publish(root) ==
  /\ root \in In(src) /\ Len(custody) < MaxSeals
  /\ custody' = Append(custody, [root |-> root, seal |-> Subtree(src, root)])
  /\ UNCHANGED <<src, tgt, export, file, import, accepted, exports, edits, imports>>

(* export_subtree seals, walks again, and writes what it walked.           *)
StartExport(root) ==
  /\ export.at = "idle" /\ exports < MaxExports /\ exports' = exports + 1
  /\ root \in In(src)
  /\ export' = [at |-> "sealing", root |-> root, base |-> src, seal |-> Empty]
  /\ UNCHANGED <<src, tgt, file, import, custody, accepted, edits, imports>>
SealExport ==
  /\ export.at = "sealing"
  /\ \E w \in Walks(export.base, src, export.root) :
       export' = [export EXCEPT !.at = "sealed", !.seal = w, !.base = src]
  /\ UNCHANGED <<src, tgt, file, import, custody, accepted, exports, edits, imports>>
WriteExport ==
  /\ export.at = "sealed"
  /\ \E w \in Walks(export.base, src, export.root), whole \in BOOLEAN :
       file' = [is |-> IF whole THEN "whole" ELSE "partial",
                root |-> export.root, nodes |-> w, seal |-> export.seal]
  /\ export' = NoExport
  /\ UNCHANGED <<src, tgt, import, custody, accepted, exports, edits, imports>>

(* The file is edited: a result, a missing record, or the whole of it made *)
(* to agree with its edited records again.                                 *)
Edit(n, x) ==
  /\ file.is = "whole" /\ edits < MaxEdits /\ edits' = edits + 1
  /\ LET nodes == [file.nodes EXCEPT ![n] = x] IN
     \E seal \in {file.seal, nodes} :
       file' = [file EXCEPT !.nodes = nodes, !.seal = seal]
  /\ UNCHANGED <<src, tgt, export, import, custody, accepted, exports, imports>>

-----------------------------------------------------------------------------
(* import_subtree.  _parse_manifest and _ManifestStore: the records are    *)
(* the subtree of the root, and its seal is the one given.                 *)
WellFormed ==
  /\ file.is = "whole"
  /\ file.root \in In(file.nodes)
  /\ \A n \in In(file.nodes) \ {file.root} : n \notin Roots /\ Parent[n] \in In(file.nodes)
(* A mutant: only the ids are compared.                                    *)
IdsMatch == In(file.seal) = In(file.nodes)

Verified == file.seal = file.nodes

Attached == file.root \in Roots \/ Parent[file.root] \in In(tgt)

Compatible == \A n \in In(file.nodes) \cap In(tgt) : tgt[n] = file.nodes[n]

StartImport ==
  /\ import.at = "idle" /\ imports < MaxImports /\ imports' = imports + 1
  /\ WellFormed /\ Verified /\ Attached /\ Compatible
  /\ import' = [at |-> "writing", root |-> file.root, nodes |-> file.nodes,
                 seal |-> file.seal]
  /\ UNCHANGED <<src, tgt, export, file, custody, accepted, exports, edits>>

(* Nodes are put in walk order: after their parents.                       *)
Missing == In(import.nodes) \ In(tgt)
InOrder(n) == n = import.root \/ Parent[n] \in In(tgt)

ImportNode(n) ==
  /\ import.at = "writing" /\ n \in Missing /\ InOrder(n)
  /\ tgt' = [tgt EXCEPT ![n] = import.nodes[n]]
  /\ UNCHANGED <<src, export, file, import, custody, accepted, exports, edits, imports>>

Finish ==
  /\ import.at = "writing" /\ Missing = {}
  /\ import' = NoImport
  /\ accepted' = accepted \cup
       {[root |-> import.root, seal |-> import.seal, nodes |-> Subtree(tgt, import.root)]}
  /\ UNCHANGED <<src, tgt, export, file, custody, exports, edits, imports>>

Crash ==
  /\ \/ import.at # "idle" /\ import' = NoImport /\ UNCHANGED export
     \/ export.at # "idle" /\ export' = NoExport /\ UNCHANGED import
  /\ UNCHANGED <<src, tgt, file, custody, accepted, exports, edits, imports>>

Next ==
  \/ \E n \in Nodes, x \in Results : WriteSource(n, x) \/ WriteTarget(n, x)
  \/ \E n \in Nodes : Publish(n) \/ StartExport(n) \/ ImportNode(n)
  \/ \E n \in Nodes, x \in Results \cup {Absent} : Edit(n, x)
  \/ SealExport \/ WriteExport \/ StartImport \/ Finish \/ Crash

Spec == Init /\ [][Next]_vars

-----------------------------------------------------------------------------
(* A manifest that was taken and carries a seal that was published for its *)
(* root has brought the published results, whoever edited the file and whatever     *)
(* half of it was already there ("Keep an exported seal digest in an       *)
(* independently controlled record", data-governance.md).                  *)
PublishedIsWhatArrives ==
  \A a \in accepted, i \in 1 .. Len(custody) :
    (a.root = custody[i].root /\ a.seal = custody[i].seal) =>
      \A n \in In(custody[i].seal) : a.nodes[n] = src[n]

(* What a finished import reports is in the store: each of its nodes, with *)
(* its result, also when an earlier one died half-way and runs have        *)
(* written in between (import_subtree).                                    *)
ReportedIsStored ==
  \A a \in accepted : \A n \in In(a.seal) : a.nodes[n] = a.seal[n]

(* The target is a forest at every instant, also between two puts and      *)
(* after a crash: a later import can always build on it.                   *)
TargetClosed == Closed(tgt)
=============================================================================
