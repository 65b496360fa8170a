----------------------------- MODULE SQLiteNodes -----------------------------
(***************************************************************************)
(* The nodes of a SQLite file: opening and migrating it, interning long    *)
(* strings into blobs, reading them back, and offline garbage collection.  *)
(*                                                                         *)
(* A payload is one leaf: a short value, a long string, or an object that  *)
(* a caller happens to have written like a reference to a blob.  Such an   *)
(* object is stored as it is, and a row of blob_literals says that it is   *)
(* no reference.  Digests do not collide: a text stands for its digest.    *)
(***************************************************************************)
EXTENDS Naturals, FiniteSets

CONSTANTS
  Nodes,         \* node ids
  Parent,        \* node -> its parent, or itself for a root
  Leaf,          \* node -> [is |-> "short", "long" or "looks", text |-> a text]
  Texts,         \* the long strings
  Procs,         \* processes with a connection
  OpensOverlap,  \* whether one process may open the file while another does
  MaxOpens       \* bound: how often the file is opened

VARIABLES
  version,    \* schema_version in kv, 0 if missing
  stored,     \* the rows of nodes
  interned,   \* of them, those whose leaf is a reference
  literals,   \* the rows of blob_literals
  blobs,      \* the rows of blobs
  pruned,     \* the nodes marked in their metadata
  conn,       \* process -> its connection
  snap,       \* process -> the rows its migration or collection has read
  interns,    \* process -> intern_payloads
  opens       \* how often the file was opened

tables == <<version, stored, interned, literals, blobs, pruned>>
vars == <<tables, conn, snap, interns, opens>>

TypeOK ==
  /\ version \in 0 .. 3
  /\ stored \subseteq Nodes /\ interned \subseteq stored /\ pruned \subseteq stored
  /\ literals \subseteq stored
  /\ blobs \subseteq Texts
  /\ conn \in [Procs -> {"closed", "versioned", "scanned", "open", "reading", "sweeping"}]
  /\ snap \in [Procs -> SUBSET (Nodes \cup Texts)]
  /\ interns \in [Procs -> BOOLEAN]
  /\ opens \in 0 .. MaxOpens

(* A new file, or one of schema version 1, which knew no interning.        *)
Roots == {n \in Nodes : Parent[n] = n}
Init ==
  /\ version \in {0, 1}
  /\ stored \in IF version = 0 THEN {{}} ELSE SUBSET Roots
  /\ interned = {} /\ literals = {} /\ blobs = {} /\ pruned = {}
  /\ conn = [p \in Procs |-> "closed"]
  /\ snap = [p \in Procs |-> {}]
  /\ interns = [p \in Procs |-> TRUE]
  /\ opens = 0

-----------------------------------------------------------------------------
(* What a row reads as (_rehydrate_payload).                               *)
LooksLikeReference(n) == n \in interned \/ Leaf[n].is = "looks"
Broken == [is |-> "missing", text |-> "missing"]
Read(n) ==
  IF ~LooksLikeReference(n) THEN Leaf[n]
  ELSE IF n \in literals THEN [is |-> "looks", text |-> Leaf[n].text]
  ELSE IF Leaf[n].text \in blobs THEN [is |-> "long", text |-> Leaf[n].text]
  ELSE Broken

-----------------------------------------------------------------------------
(* Opening.  The tables are created, then the version is read, then, if it *)
(* is old, the nodes; only the writes that follow are a transaction.       *)
Alone(p) == \A q \in Procs \ {p} : conn[q] = "closed"
Quiet(p) == \A q \in Procs \ {p} : conn[q] \notin {"versioned", "scanned"}

ReadVersion(p) ==
  /\ conn[p] = "closed" /\ opens < MaxOpens
  /\ OpensOverlap \/ Quiet(p)
  /\ \A q \in Procs : conn[q] # "sweeping"
  /\ opens' = opens + 1
  /\ \E intern \in BOOLEAN : interns' = [interns EXCEPT ![p] = intern]
  /\ conn' = [conn EXCEPT ![p] = IF version = 3 THEN "open" ELSE "versioned"]
  /\ UNCHANGED <<tables, snap>>

(* _migrate_blob_literals: whatever looks like a reference was none.       *)
ScanNodes(p) ==
  /\ conn[p] = "versioned"
  /\ snap' = [snap EXCEPT ![p] = {n \in stored : LooksLikeReference(n)}]
  /\ conn' = [conn EXCEPT ![p] = "scanned"]
  /\ UNCHANGED <<tables, interns, opens>>

Migrate(p) ==
  /\ conn[p] = "scanned"
  /\ literals' = literals \cup snap[p]
  /\ version' = 3
  /\ conn' = [conn EXCEPT ![p] = "open"]
  /\ snap' = [snap EXCEPT ![p] = {}]
  /\ UNCHANGED <<stored, interned, blobs, pruned, interns, opens>>

(* Query-only replay takes only files of the current version.              *)
OpenReadOnly(p) ==
  /\ conn[p] = "closed" /\ opens < MaxOpens
  /\ version = 3
  /\ \A q \in Procs : conn[q] # "sweeping"
  /\ opens' = opens + 1
  /\ conn' = [conn EXCEPT ![p] = "reading"]
  /\ UNCHANGED <<tables, snap, interns>>

(* close, or the process dies: open transactions are rolled back.          *)
Close(p) ==
  /\ conn[p] # "closed"
  /\ conn' = [conn EXCEPT ![p] = "closed"]
  /\ snap' = [snap EXCEPT ![p] = {}]
  /\ UNCHANGED <<tables, interns, opens>>

-----------------------------------------------------------------------------
(* put: one transaction.  A node that is there already stays as it is.     *)
Interns(p, n) == interns[p] /\ Leaf[n].is = "long"

IsLiteral(n) == Leaf[n].is = "looks"

Put(p, n) ==
  /\ conn[p] = "open"
  /\ n \notin stored
  /\ Parent[n] = n \/ Parent[n] \in stored
  /\ stored' = stored \cup {n}
  /\ interned' = IF Interns(p, n) THEN interned \cup {n} ELSE interned
  /\ blobs' = IF Interns(p, n) THEN blobs \cup {Leaf[n].text} ELSE blobs
  /\ literals' = IF IsLiteral(n) THEN literals \cup {n} ELSE literals
  /\ UNCHANGED <<version, pruned, conn, snap, interns, opens>>

MarkPruned(p, n) ==
  /\ conn[p] = "open" /\ n \in stored
  /\ pruned' = pruned \cup {n}
  /\ UNCHANGED <<version, stored, interned, literals, blobs, conn, snap, interns, opens>>

-----------------------------------------------------------------------------
(* gc seals every root first, and so fails where a node does not read as   *)
(* its id says; it is offline by contract.                                 *)
Sealable == \A n \in stored : Read(n) = Leaf[n]
Below(S) == {n \in stored : n \in S \/ Parent[n] \in S}

(* Chains are at most three nodes long here.                               *)
Dropped == Below(Below(pruned))

LiteralsLeft == literals \ Dropped

DropPruned(p) ==
  /\ conn[p] = "open" /\ Alone(p) /\ Sealable
  /\ literals' = LiteralsLeft
  /\ stored' = stored \ Dropped
  /\ interned' = interned \ Dropped
  /\ pruned' = pruned \ Dropped
  /\ UNCHANGED <<version, blobs, conn, snap, interns, opens>>

(* compact reads what is referenced and what is stored, and deletes the    *)
(* difference in a transaction of its own.                                 *)
Referenced == {Leaf[n].text : n \in {m \in stored : LooksLikeReference(m) /\ m \notin literals}}

FindUnused(p) ==
  /\ conn[p] = "open" /\ Alone(p) /\ Sealable
  /\ snap' = [snap EXCEPT ![p] = blobs \ Referenced]
  /\ conn' = [conn EXCEPT ![p] = "sweeping"]
  /\ UNCHANGED <<tables, interns, opens>>

DeleteUnused(p) ==
  /\ conn[p] = "sweeping"
  /\ blobs' = blobs \ snap[p]
  /\ conn' = [conn EXCEPT ![p] = "open"]
  /\ snap' = [snap EXCEPT ![p] = {}]
  /\ UNCHANGED <<version, stored, interned, literals, pruned, interns, opens>>

Next == \E p \in Procs :
  \/ ReadVersion(p) \/ ScanNodes(p) \/ Migrate(p) \/ OpenReadOnly(p) \/ Close(p)
  \/ \E n \in Nodes : Put(p, n) \/ MarkPruned(p, n)
  \/ DropPruned(p) \/ FindUnused(p) \/ DeleteUnused(p)

Spec == Init /\ [][Next]_vars

-----------------------------------------------------------------------------
(* "Interning changes only the storage encoding.  Callers receive the      *)
(* original payload" (README.md), whoever interned it, after migration and *)
(* whatever was collected (SQLiteStore.put, _get_optional): to any process *)
(* that has the migrated file open.                                        *)
CallersReceivePayloads == version = 3 => \A n \in stored : Read(n) = Leaf[n]

(* Collection leaves trees: no node outlives its parent (gc).              *)
NoOrphans == \A n \in stored : Parent[n] \in stored

(* What is collected is what was marked and what is below it; a node that  *)
(* nobody gave up is there for ever.                                       *)
OnlyPrunedGoes ==
  \A n \in stored : n \notin stored' =>
    n \in pruned \/ Parent[n] \in pruned \/ Parent[Parent[n]] \in pruned
=============================================================================
