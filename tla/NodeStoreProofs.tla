--------------------------- MODULE NodeStoreProofs ---------------------------
(***************************************************************************)
(* Proofs about the stores that keep nodes in a server, for any clients,   *)
(* nodes and operations: that their transactions make each call take       *)
(* effect on the whole store at an instant of its own.                     *)
(*                                                                         *)
(* What a PostgreSQL transaction has found stays so until it ends (Sound), *)
(* for it holds the row, or nothing but garbage collection, which runs     *)
(* alone, removes what it saw.  Redis vouches for what a client has read   *)
(* while the revision it watches stands, Neo4j's lock excludes all others, *)
(* and a MongoDB transaction that has changed the coordinator has the      *)
(* store as it is for its snapshot.                                        *)
(*                                                                         *)
(* And that whoever has such a store open, of those that open, create or   *)
(* migrate it at once, has it whole.                                       *)
(***************************************************************************)
EXTENDS PostgresNodes, TLAPS

-----------------------------------------------------------------------------
(* Opening a namespace of MongoDB or Neo4j.  Schema record, coordinator,   *)
(* index and constraints are never removed: what a process has found there *)
(* is still there when it uses it.                                         *)
CONSTANTS Processes, Creators, Snapshot, MaxRevision
VARIABLES revision, version, physical, first
Opening == INSTANCE NamespaceOpening

OpeningAllowed == MaxRevision \in Nat /\ MaxRevision >= 1 /\ Snapshot \in BOOLEAN

(* The first thing found there is there.                                   *)
FoundStands(p) ==
  /\ first[p] # "unread" => pc[p] \in Opening!Logical \cup Opening!Physical
  /\ first[p] = "there" => IF pc[p] \in Opening!Logical THEN version ELSE physical

OpeningInv ==
  /\ Opening!TypeOK
  /\ version <=> revision > 0
  /\ \A p \in Processes :
       /\ FoundStands(p)
       /\ pc[p] \in {"final", "open"} => version
       /\ pc[p] = "open" => physical

(* With a snapshot, a store is there only when its index is.               *)
SnapshotInv ==
  /\ version => physical
  /\ \A p \in Processes :
       /\ pc[p] \in {"created", "init", "merge"} => physical
       /\ pc[p] # "partial" /\ first[p] = "unread"

LEMMA OpeningTypes ==
  ASSUME OpeningAllowed, OpeningInv
  PROVE  /\ revision \in Nat /\ first \in [Processes -> {"unread", "there", "not there"}]
         /\ pc \in [Processes -> {"look", "init", "ensure", "created", "final",
                                 "closed", "create", "merge", "open", "missing", "partial"}]
<1>1. revision \in 0 .. MaxRevision /\ first \in [Processes -> {"unread", "there", "not there"}]
  BY DEF OpeningInv, Opening!TypeOK
<1>2. revision \in Nat
  <2>1. MaxRevision \in Nat
    BY DEF OpeningAllowed
  <2>2. revision \in 0 .. MaxRevision
    BY <1>1
  <2> QED
    BY <2>1, <2>2
<1>3. Opening!Logical \cup Opening!Physical \cup
        {"closed", "create", "merge", "open", "missing", "partial"}
      = {"look", "init", "ensure", "created", "final",
         "closed", "create", "merge", "open", "missing", "partial"}
  BY DEF Opening!Logical, Opening!Physical
<1> QED
  BY <1>1, <1>2, <1>3 DEF OpeningInv, Opening!TypeOK

LEMMA Concluded ==
  ASSUME OpeningInv, NEW p \in Processes, NEW one \in {"there", "not there"},
         pc[p] \in Opening!Logical \cup Opening!Physical,
         one = "there" => IF pc[p] \in Opening!Logical THEN version ELSE physical,
         Opening!Conclude(p, one, Opening!SecondOf(p, one))
  PROVE  OpeningInv'
<1> DEFINE two == Opening!SecondOf(p, one)
           to == Opening!Leads(p, IF one # two THEN "partial" ELSE IF one = "there" THEN "existing" ELSE "fresh")
<1>1. pc' = [pc EXCEPT ![p] = to] /\ first' = [first EXCEPT ![p] = "unread"]
      /\ UNCHANGED <<version, revision, physical>>
  BY DEF Opening!Conclude, Opening!Goto
<1>2. to \in {"partial", "final", "init", "open", "ensure", "missing", "create", "merge"}
      /\ (to \in {"ensure", "create", "init", "merge"} => p \in Creators)
  BY DEF Opening!Leads, Opening!Logical, Opening!Physical, OpeningInv, Opening!TypeOK
<1>3. to = "final" => version
  BY DEF Opening!Leads, Opening!Logical, Opening!Physical
<1>4. to = "open" => physical /\ version
  BY DEF Opening!Leads, Opening!Logical, Opening!Physical, OpeningInv
<1> HIDE DEF to
<1>5. Opening!TypeOK'
  BY <1>1, <1>2 DEF OpeningInv, Opening!TypeOK, Opening!Logical, Opening!Physical
<1>6. \A q \in Processes : FoundStands(q)'
  BY <1>1 DEF OpeningInv, Opening!TypeOK, FoundStands
<1> QED
  BY <1>1, <1>3, <1>4, <1>5, <1>6 DEF OpeningInv, Opening!TypeOK

LEMMA OpeningStep ==
  ASSUME OpeningAllowed, OpeningInv, [Opening!Next]_(Opening!vars)
  PROVE  OpeningInv'
<1>1. ASSUME NEW p \in Processes, Opening!LookAtOnce(p) PROVE OpeningInv'
  <2>1. Opening!FirstOf(p) \in {"there", "not there"}
        /\ (Opening!FirstOf(p) = "there" => IF pc[p] \in Opening!Logical THEN version ELSE physical)
    BY DEF Opening!FirstOf, Opening!There
  <2> QED
    BY <1>1, <2>1, Concluded DEF Opening!LookAtOnce
<1>2. ASSUME NEW p \in Processes, Opening!LookSecond(p) PROVE OpeningInv'
  <2>1. first[p] \in {"there", "not there"}
        /\ (first[p] = "there" => IF pc[p] \in Opening!Logical THEN version ELSE physical)
    BY <1>2 DEF Opening!LookSecond, OpeningInv, Opening!TypeOK, FoundStands
  <2> QED
    BY <1>2, <2>1, Concluded DEF Opening!LookSecond
<1>3. ASSUME NEW p \in Processes, Opening!LookFirst(p) PROVE OpeningInv'
  <2>1. Opening!FirstOf(p) \in {"there", "not there"}
        /\ (Opening!FirstOf(p) = "there" => IF pc[p] \in Opening!Logical THEN version ELSE physical)
    BY DEF Opening!FirstOf, Opening!There
  <2> QED
    BY <1>3, <2>1 DEF Opening!LookFirst, OpeningInv, Opening!TypeOK, FoundStands
<1>4. ASSUME NEW p \in Processes, Opening!Start(p) \/ Opening!Close(p) PROVE OpeningInv'
  <2>1. PICK to \in {"look", "closed"} : pc' = [pc EXCEPT ![p] = to]
    BY <1>4 DEF Opening!Start, Opening!Close, Opening!Goto
  <2>2. UNCHANGED <<version, revision, physical>> /\ (first' = first \/ first' = [first EXCEPT ![p] = "unread"])
        /\ first'[p] = "unread"
    BY <1>4 DEF Opening!Start, Opening!Close, OpeningInv, Opening!TypeOK, FoundStands, Opening!Logical, Opening!Physical
  <2> QED
    BY <2>1, <2>2, OpeningTypes DEF OpeningInv, Opening!TypeOK, FoundStands, Opening!Logical, Opening!Physical
<1>5. ASSUME NEW p \in Processes, Opening!Create(p) PROVE OpeningInv'
  <2>1. physical' /\ physical' \in BOOLEAN
    BY <1>5, Zenon DEF Opening!Create
  <2>2. pc[p] = "create" /\ pc' = [pc EXCEPT ![p] = "created"] /\ UNCHANGED <<version, revision, first>>
    BY <1>5 DEF Opening!Create, Opening!Goto
  <2> QED
    BY <2>1, <2>2, OpeningTypes DEF OpeningInv, Opening!TypeOK, FoundStands, Opening!Logical, Opening!Physical
<1>6. ASSUME NEW p \in Processes, Opening!Merge(p) PROVE OpeningInv'
  <2>1. CASE Opening!Conflict
    <3>1. pc[p] = "merge" /\ pc' = [pc EXCEPT ![p] = "init"] /\ UNCHANGED <<version, revision, physical, first>>
      BY <1>6, <2>1 DEF Opening!Merge, Opening!Goto
    <3> QED
      BY <3>1, OpeningTypes DEF OpeningInv, Opening!TypeOK, FoundStands, Opening!Logical, Opening!Physical
  <2>2. CASE ~Opening!Conflict
    <3>1. version' /\ version' \in BOOLEAN
      BY <1>6, <2>2, Zenon DEF Opening!Merge
    <3>2. pc[p] = "merge" /\ pc' = [pc EXCEPT ![p] = "final"] /\ UNCHANGED <<physical, first>>
      BY <1>6, <2>2 DEF Opening!Merge, Opening!Goto
    <3>3. revision' = 1 \/ (revision' = revision /\ revision # 0)
      BY <1>6, <2>2 DEF Opening!Merge, Opening!FirstRevision
    <3>4. revision' \in 0 .. MaxRevision /\ revision' > 0
      <4>1. revision \in Nat /\ revision \in 0 .. MaxRevision
        BY OpeningTypes DEF OpeningInv, Opening!TypeOK
      <4> QED
        BY <3>3, <4>1 DEF OpeningAllowed
    <3> QED
      BY <3>1, <3>2, <3>4, OpeningTypes DEF OpeningInv, Opening!TypeOK, FoundStands, Opening!Logical, Opening!Physical
  <2> QED
    BY <2>1, <2>2
<1>7. ASSUME NEW p \in Processes, Opening!Write(p) PROVE OpeningInv'
  <2>1. version /\ revision' \in 0 .. MaxRevision /\ revision' > 0 /\ UNCHANGED <<version, physical, pc, first>>
    <3>1. pc[p] = "open" /\ revision \in 1 .. MaxRevision - 1 /\ revision' = revision + 1
          /\ UNCHANGED <<version, physical, pc, first>>
      BY <1>7 DEF Opening!Write
    <3>2. version
      BY <3>1 DEF OpeningInv
    <3> QED
      BY <3>1, <3>2 DEF OpeningAllowed
  <2> QED
    BY <2>1 DEF OpeningInv, Opening!TypeOK, FoundStands
<1>8. CASE UNCHANGED Opening!vars
  BY <1>8 DEF Opening!vars, OpeningInv, Opening!TypeOK, FoundStands
<1> QED
  BY <1>1, <1>2, <1>3, <1>4, <1>5, <1>6, <1>7, <1>8 DEF Opening!Next

LEMMA OpeningInductive == ASSUME OpeningAllowed PROVE Opening!Spec => []OpeningInv
<1>1. Opening!Init => OpeningInv
  <2> SUFFICES ASSUME Opening!Init PROVE OpeningInv
    OBVIOUS
  <2>1. ~version /\ ~physical /\ version \in BOOLEAN /\ physical \in BOOLEAN
    BY Zenon DEF Opening!Init
  <2>2. revision = 0 /\ pc = [p \in Processes |-> "closed"] /\ first = [p \in Processes |-> "unread"]
    BY DEF Opening!Init
  <2> QED
    BY <2>1, <2>2 DEF OpeningAllowed, OpeningInv, Opening!TypeOK, FoundStands
<1>2. OpeningInv /\ [Opening!Next]_(Opening!vars) => OpeningInv'
  BY OpeningStep
<1> QED
  BY <1>1, <1>2, PTL DEF Opening!Spec

(* A store that is open is complete (open_mongodb_namespace and            *)
(* open_neo4j_namespace).                                                  *)
THEOREM OpenNamespacesComplete == ASSUME OpeningAllowed PROVE Opening!Spec => []Opening!OpenIsComplete
<1>1. OpeningInv => Opening!OpenIsComplete
  BY DEF OpeningInv, Opening!OpenIsComplete
<1> QED
  BY <1>1, OpeningInductive, PTL

(* Opening a store never sets its revision back.                           *)
THEOREM RevisionsGrow == ASSUME OpeningAllowed PROVE Opening!Spec => [][Opening!RevisionGrows]_(Opening!vars)
<1>1. OpeningInv /\ [Opening!Next]_(Opening!vars) => [Opening!RevisionGrows]_(Opening!vars)
  <2> SUFFICES ASSUME OpeningInv, Opening!Next PROVE revision' >= revision
    BY DEF Opening!RevisionGrows
  <2>1. revision \in Nat
    BY OpeningTypes
  <2>2. ASSUME NEW p \in Processes, Opening!Merge(p) PROVE revision' >= revision
    BY <2>1, <2>2 DEF Opening!Merge, Opening!Conflict, Opening!FirstRevision
  <2>3. ASSUME NEW p \in Processes, Opening!Write(p) PROVE revision' >= revision
    BY <2>1, <2>3 DEF Opening!Write
  <2>4. ASSUME NEW p \in Processes, revision' = revision PROVE revision' >= revision
    BY <2>1, <2>4
  <2> QED
    BY <2>2, <2>3, <2>4 DEF Opening!Next, Opening!Start, Opening!LookAtOnce, Opening!LookFirst, Opening!LookSecond,
                            Opening!Conclude, Opening!Create, Opening!Close
<1> QED
  BY <1>1, OpeningInductive, PTL DEF Opening!Spec

(* Under a snapshot every verdict is of one moment, and no store is there  *)
(* in part.                                                                *)
LEMMA SnapshotStep ==
  ASSUME OpeningAllowed, Snapshot, OpeningInv, SnapshotInv, [Opening!Next]_(Opening!vars)
  PROVE  SnapshotInv'
<1>1. ASSUME NEW p \in Processes, Opening!LookAtOnce(p) PROVE SnapshotInv'
  <2> DEFINE one == Opening!FirstOf(p)
             two == Opening!SecondOf(p, one)
             to == Opening!Leads(p, IF one # two THEN "partial" ELSE IF one = "there" THEN "existing" ELSE "fresh")
  <2>1. one = two
    <3>1. version <=> revision > 0
      BY DEF OpeningInv
    <3>2. CASE pc[p] \in Opening!Logical
      <4>1. pc[p] \notin Opening!Physical
        BY <3>2 DEF Opening!Logical, Opening!Physical
      <4>2. one = Opening!There(version)
        BY <3>2 DEF Opening!FirstOf
      <4> QED
        BY <3>1, <4>1, <4>2 DEF Opening!SecondOf, Opening!There
    <3>3. CASE pc[p] \in Opening!Physical
      <4>1. pc[p] \notin Opening!Logical
        BY <3>3 DEF Opening!Logical, Opening!Physical
      <4> QED
        BY <3>3, <4>1 DEF Opening!FirstOf, Opening!SecondOf
    <3> QED
      BY <1>1, <3>2, <3>3 DEF Opening!LookAtOnce
  <2>2. to # "partial"
    BY <1>1, <2>1 DEF Opening!LookAtOnce, Opening!Leads, Opening!FirstOf, Opening!There, Opening!Logical,
                      Opening!Physical, OpeningInv, SnapshotInv
  <2>3. to \in {"created", "init", "merge"} => physical
    BY <1>1, <2>1 DEF Opening!LookAtOnce, Opening!Leads, Opening!FirstOf, Opening!There, Opening!Logical,
                      Opening!Physical, SnapshotInv
  <2>4. pc' = [pc EXCEPT ![p] = to] /\ first' = [first EXCEPT ![p] = "unread"]
        /\ UNCHANGED <<version, revision, physical>>
    BY <1>1 DEF Opening!LookAtOnce, Opening!Conclude, Opening!Goto
  <2> HIDE DEF to
  <2> QED
    BY OpeningTypes, <2>2, <2>3, <2>4 DEF SnapshotInv
<1>2. ASSUME NEW p \in Processes, Opening!LookFirst(p) \/ Opening!LookSecond(p) PROVE FALSE
  BY <1>2 DEF Opening!LookFirst, Opening!LookSecond, SnapshotInv
<1>3. ASSUME NEW p \in Processes, Opening!Start(p) \/ Opening!Write(p) \/ Opening!Close(p)
      PROVE  SnapshotInv'
  <2>1. UNCHANGED <<version, physical>> /\ (first' = first \/ first' = [first EXCEPT ![p] = "unread"])
        /\ (pc' = pc \/ pc' = [pc EXCEPT ![p] = "look"] \/ pc' = [pc EXCEPT ![p] = "closed"])
    BY <1>3 DEF Opening!Start, Opening!Write, Opening!Close, Opening!Goto
  <2> QED
    BY <2>1, OpeningTypes DEF SnapshotInv
<1>4. ASSUME NEW p \in Processes, Opening!Create(p) PROVE SnapshotInv'
  <2>1. physical'
    BY <1>4, Zenon DEF Opening!Create
  <2>2. pc' = [pc EXCEPT ![p] = "created"] /\ UNCHANGED <<version, first>>
    BY <1>4 DEF Opening!Create, Opening!Goto
  <2> QED
    BY <2>1, <2>2, OpeningTypes DEF SnapshotInv
<1>5. ASSUME NEW p \in Processes, Opening!Merge(p) PROVE SnapshotInv'
  <2>1. physical /\ UNCHANGED <<physical, first>>
    BY <1>5 DEF Opening!Merge, SnapshotInv
  <2>2. pc' = [pc EXCEPT ![p] = "init"] \/ pc' = [pc EXCEPT ![p] = "final"]
    BY <1>5 DEF Opening!Merge, Opening!Goto
  <2> QED
    BY <2>1, <2>2, OpeningTypes DEF SnapshotInv
<1>6. CASE UNCHANGED Opening!vars
  BY <1>6 DEF Opening!vars, SnapshotInv
<1> QED
  BY <1>1, <1>2, <1>3, <1>4, <1>5, <1>6 DEF Opening!Next

(* MongoDB, whose classification reads one snapshot, refuses no store that *)
(* is new or complete (_classify_mongodb_namespace).                       *)
THEOREM SnapshotsOpen == ASSUME OpeningAllowed, Snapshot PROVE Opening!Spec => []Opening!OpeningSucceeds
<1>1. Opening!Init => SnapshotInv
  BY DEF Opening!Init, SnapshotInv
<1>2. OpeningInv /\ SnapshotInv /\ [Opening!Next]_(Opening!vars) => SnapshotInv'
  BY SnapshotStep
<1>3. SnapshotInv => Opening!OpeningSucceeds
  BY DEF SnapshotInv, Opening!OpeningSucceeds
<1> QED
  BY <1>1, <1>2, <1>3, OpeningInductive, PTL DEF Opening!Spec

-----------------------------------------------------------------------------
(* The schema of a PostgreSQL database.  Only who holds the advisory lock  *)
(* changes it, so what a transaction has read of it is so when it ends.    *)
CONSTANTS Procs, MaxReserved, MaxCrashes
VARIABLES lock, db, reserved, working, want, result, crashes
Opened == INSTANCE PostgresSchema

SchemaAllowed == Nobody \notin Procs /\ MaxReserved \in Nat /\ MaxCrashes \in Nat

SchemaInv ==
  /\ Opened!TypeOK
  /\ \A p \in Procs :
       /\ pc[p] = "read" => seen[p] = db
       /\ pc[p] = "open" => db = Opened!Current
       /\ result[p] # "failed"

LEMMA SchemaTypes ==
  ASSUME SchemaAllowed, SchemaInv
  PROVE  /\ reserved \in Nat /\ crashes \in Nat /\ db \in Opened!Found
         /\ pc \in [Procs -> {"closed", "waiting", "locked", "read", "open"}]
         /\ want \in [Procs -> {"open", "migrate", "reconnect"}] /\ seen \in [Procs -> Opened!Found]
         /\ result \in [Procs -> {"none", "done", "refused", "failed"}]
         /\ \A p \in Procs : lock = p <=> pc[p] \in {"locked", "read"}
<1>1. reserved \in 0 .. MaxReserved /\ crashes \in 0 .. MaxCrashes
  BY DEF SchemaInv, Opened!TypeOK
<1>2. MaxReserved \in Nat /\ MaxCrashes \in Nat
  BY DEF SchemaAllowed
<1>3. reserved \in Nat /\ crashes \in Nat
  BY <1>1, <1>2
<1> QED
  BY <1>3 DEF SchemaInv, Opened!TypeOK

(* A step of one process that leaves the database as it is.                *)
LEMMA Kept ==
  ASSUME SchemaAllowed, SchemaInv, UNCHANGED <<db, working, reserved>>, NEW p \in Procs,
         UNCHANGED crashes \/ crashes' \in 0 .. MaxCrashes,
         NEW place \in {"closed", "waiting", "locked", "read"}, pc' = [pc EXCEPT ![p] = place],
         want' \in [Procs -> {"open", "migrate", "reconnect"}],
         result' = result \/ result' = [result EXCEPT ![p] = "none"],
         seen' = seen \/ seen' = [seen EXCEPT ![p] = db],
         place = "read" => seen'[p] = db,
         place \in {"locked", "read"} => lock' = p /\ lock \in {p, Nobody},
         place \in {"closed", "waiting"} => lock' = IF lock = p THEN Nobody ELSE lock
  PROVE  SchemaInv'
<1>1. /\ pc' \in [Procs -> {"closed", "waiting", "locked", "read", "open"}]
      /\ seen' \in [Procs -> Opened!Found] /\ result' \in [Procs -> {"none", "done", "refused", "failed"}]
  BY SchemaTypes
<1>2. /\ lock' \in Procs \cup {Nobody}
      /\ \A q \in Procs : lock' = q <=> pc'[q] \in {"locked", "read"}
  <2>1. lock \in Procs \cup {Nobody} /\ Nobody \notin Procs
    BY DEF SchemaAllowed, SchemaInv, Opened!TypeOK
  <2>2. CASE place \in {"locked", "read"}
    <3>1. \A q \in Procs \ {p} : pc'[q] \notin {"locked", "read"}
      BY <2>1, <2>2, SchemaTypes
    <3> QED
      BY <2>2, <3>1, SchemaTypes
  <2>3. CASE place \in {"closed", "waiting"}
    <3>1. \A q \in Procs \ {p} : lock' = q <=> lock = q
      BY <2>1, <2>3
    <3>2. lock' # p
      BY <2>1, <2>3
    <3> QED
      BY <2>1, <2>3, <3>1, <3>2, SchemaTypes
  <2> QED
    BY <2>2, <2>3
<1>3. crashes' \in 0 .. MaxCrashes
  BY DEF SchemaInv, Opened!TypeOK
<1>4. Opened!TypeOK'
  BY <1>1, <1>2, <1>3 DEF SchemaInv, Opened!TypeOK
<1> QED
  BY <1>4, SchemaTypes DEF SchemaInv

(* The one transaction that may have changed the schema since a process    *)
(* read it would have held the lock.                                       *)
LEMMA Committed ==
  ASSUME SchemaAllowed, SchemaInv, NEW p \in Procs, Opened!Commit(p)
  PROVE  /\ seen[p] = db /\ lock = p
         /\ db' = IF Opened!Accepts(p) THEN Opened!Current ELSE db
         /\ SchemaInv'
<1>1. seen[p] = db /\ lock = p /\ lock' = Nobody
  BY SchemaTypes DEF SchemaInv, Opened!Commit
<1>2. db' = IF Opened!Accepts(p) THEN Opened!Current ELSE db
  BY <1>1 DEF Opened!Commit, Opened!Accepts, Opened!IsCurrent
<1>3. PICK to \in {"open", "closed"} :
        /\ pc' = [pc EXCEPT ![p] = to]
        /\ to = "open" => Opened!Accepts(p)
  BY <1>1 DEF Opened!Commit
<1>4. PICK how \in {"done", "refused"} : result' = [result EXCEPT ![p] = how]
  BY <1>1 DEF Opened!Commit
<1>5. UNCHANGED <<reserved, working, want, seen, crashes>>
  BY DEF Opened!Commit
<1>6. db' \in Opened!Found
  BY <1>2, SchemaTypes DEF Opened!Found
<1>7. \A q \in Procs : pc[q] \in {"locked", "read"} => q = p
  BY <1>1, SchemaTypes
<1>8. Opened!TypeOK'
  BY <1>1, <1>3, <1>4, <1>5, <1>6, <1>7, SchemaTypes DEF SchemaAllowed, SchemaInv, Opened!TypeOK
<1>9. \A q \in Procs : pc'[q] # "read"
  BY <1>3, <1>7, SchemaTypes
<1>10. \A q \in Procs : pc'[q] = "open" => db' = Opened!Current
  BY <1>2, <1>3, SchemaTypes DEF SchemaInv
<1>11. \A q \in Procs : result'[q] # "failed"
  BY <1>4, SchemaTypes DEF SchemaInv
<1> QED
  BY <1>1, <1>2, <1>8, <1>9, <1>10, <1>11 DEF SchemaInv

LEMMA SchemaStep ==
  ASSUME SchemaAllowed, SchemaInv, [Opened!Next]_(Opened!vars)
  PROVE  SchemaInv'
<1>1. ASSUME NEW p \in Procs, NEW what \in {"open", "migrate", "reconnect"}, Opened!Begin(p, what)
      PROVE  SchemaInv'
  <2>1. lock # p
    BY <1>1, SchemaTypes DEF Opened!Begin
  <2> QED
    BY <1>1, <2>1, Kept, SchemaTypes DEF Opened!Begin
<1>2. ASSUME NEW p \in Procs, Opened!LockSchema(p) PROVE SchemaInv'
  BY <1>2, Kept, SchemaTypes DEF Opened!LockSchema, Opened!TakeLock
<1>3. ASSUME NEW p \in Procs, Opened!ReadSchema(p) PROVE SchemaInv'
  <2>1. lock = p /\ seen'[p] = db
    BY <1>3, SchemaTypes DEF Opened!ReadSchema
  <2> QED
    BY <1>3, <2>1, Kept, SchemaTypes DEF Opened!ReadSchema
<1>4. ASSUME NEW p \in Procs, Opened!Commit(p) PROVE SchemaInv'
  BY <1>4, Committed
<1>5. ASSUME NEW p \in Procs, Opened!Close(p) PROVE SchemaInv'
  <2>1. crashes' \in 0 .. MaxCrashes
    BY <1>5, SchemaTypes DEF Opened!Close, SchemaAllowed
  <2> QED
    BY <1>5, <2>1, Kept, SchemaTypes DEF Opened!Close
<1>6. CASE Opened!LegacyWork
  <2>1. reserved' \in 0 .. MaxReserved
    BY <1>6, SchemaTypes DEF Opened!LegacyWork, Opened!LegacyReserve, Opened!LegacyResolve, SchemaAllowed, SchemaInv,
                             Opened!TypeOK
  <2> QED
    BY <1>6, <2>1 DEF Opened!LegacyWork, SchemaInv, Opened!TypeOK
<1>7. CASE Opened!StopWorkers
  <2>1. working' \in BOOLEAN
    BY <1>7, Zenon DEF Opened!StopWorkers
  <2> QED
    BY <1>7, <2>1 DEF Opened!StopWorkers, SchemaInv, Opened!TypeOK
<1>8. CASE Opened!Restore
  <2>1. crashes' \in 0 .. MaxCrashes
    BY <1>8, SchemaTypes DEF Opened!Restore, SchemaAllowed
  <2>2. /\ pc' \in [Procs -> {"waiting", "closed"}] /\ want' \in [Procs -> {"open", "migrate", "reconnect"}]
        /\ lock' = Nobody /\ db' \in Opened!Found /\ reserved' = 0 /\ UNCHANGED <<working, seen, result>>
    BY <1>8, SchemaTypes DEF Opened!Restore
  <2> QED
    BY <2>1, <2>2, SchemaTypes DEF SchemaAllowed, SchemaInv, Opened!TypeOK
<1>9. CASE UNCHANGED Opened!vars
  BY <1>9 DEF Opened!vars, SchemaInv, Opened!TypeOK
<1> QED
  BY <1>1, <1>2, <1>3, <1>4, <1>5, <1>6, <1>7, <1>8, <1>9 DEF Opened!Next

LEMMA SchemaInductive == ASSUME SchemaAllowed PROVE Opened!Spec => []SchemaInv
<1>1. Opened!Init => SchemaInv
  <2> SUFFICES ASSUME Opened!Init PROVE SchemaInv
    OBVIOUS
  <2>1. working \in BOOLEAN
    BY Zenon DEF Opened!Init
  <2>2. Opened!TypeOK
    BY <2>1 DEF SchemaAllowed, Opened!Init, Opened!TypeOK
  <2> QED
    BY <2>2 DEF Opened!Init, SchemaInv
<1>2. SchemaInv /\ [Opened!Next]_(Opened!vars) => SchemaInv'
  BY SchemaStep
<1> QED
  BY <1>1, <1>2, PTL DEF Opened!Spec

(* Whoever has the store open has it at the current schema                 *)
(* (PostgresStore._initialize, reconnect, migrate).                        *)
THEOREM OpenSchemasCurrent == ASSUME SchemaAllowed PROVE Opened!Spec => []Opened!OpenIsCurrent
<1>1. SchemaInv => Opened!OpenIsCurrent
  BY DEF SchemaInv, Opened!OpenIsCurrent
<1> QED
  BY <1>1, SchemaInductive, PTL

(* Of several who create or migrate it at once none fails (_initialize).   *)
THEOREM SchemasNeverCollide == ASSUME SchemaAllowed PROVE Opened!Spec => []Opened!NobodyFails
<1>1. SchemaInv => Opened!NobodyFails
  BY DEF SchemaInv, Opened!NobodyFails
<1> QED
  BY <1>1, SchemaInductive, PTL

(* A migration waits for the reservations of the legacy release (migrate). *)
THEOREM MigrationsDrained ==
  ASSUME SchemaAllowed PROVE Opened!Spec => [][Opened!ReservationsResolved]_(Opened!vars)
<1>1. SchemaInv /\ [Opened!Next]_(Opened!vars) => [Opened!ReservationsResolved]_(Opened!vars)
  <2> SUFFICES ASSUME SchemaInv, Opened!Next, db = Opened!Legacy, db' = Opened!Current, crashes' = crashes
               PROVE  reserved = 0
    BY DEF Opened!ReservationsResolved
  <2>1. db # db'
    BY DEF Opened!Legacy, Opened!Current, Opened!Schema
  <2>2. crashes + 1 # crashes
    BY SchemaTypes
  <2>3. PICK p \in Procs : Opened!Commit(p)
    BY <2>1, <2>2 DEF Opened!Next, Opened!Begin, Opened!LockSchema, Opened!ReadSchema, Opened!Close,
                      Opened!LegacyWork, Opened!StopWorkers, Opened!Restore
  <2>4. Opened!Accepts(p) /\ seen[p] = Opened!Legacy
    BY <2>1, <2>3, Committed
  <2> QED
    BY <2>4 DEF Opened!Accepts, Opened!Creates, Opened!Upgrades, Opened!IsCurrent, Opened!Drained,
                Opened!Legacy, Opened!Current, Opened!Schema
<1> QED
  BY <1>1, SchemaInductive, PTL DEF Opened!Spec

-----------------------------------------------------------------------------
(* What operations are and make of a store.                                *)
LEMMA Kinds ==
  ASSUME ConstantsFit(Operations), NEW o \in Operations
  PROVE  /\ o # NoOperation
         /\ o.do \in {"put", "meta", "drop"}
         /\ o.do \in {"put", "meta"} => o.node \in Nodes
         /\ o.do = "put" => Parent[o.node] \in Nodes
BY DEF ConstantsFit, NoOperation

(* An operation that read the row it changes writes as if it had read all. *)
LEMMA SameWritten ==
  ASSUME NEW store, NEW read, NEW o,
         o.do = "drop" \/ read[o.node] = store[o.node]
  PROVE  Written(store, read, o) = Written(store, store, o)
<1>1. CASE o.do = "drop"
  BY <1>1 DEF Written, Writes, NewValue
<1>2. CASE o.do # "drop" /\ read[o.node] = store[o.node]
  <2>1. Writes(read, o) = Writes(store, o) /\ Writes(store, o) \subseteq {o.node}
    BY <1>2 DEF Writes, NewValue, Has
  <2>2. NewValue(read, o, o.node) = NewValue(store, o, o.node)
    BY <1>2 DEF NewValue, Has
  <2> QED
    BY <2>1, <2>2 DEF Written
<1> QED
  BY <1>1, <1>2

Node == [result : Results, rivals : Seq(Results), meta : SUBSET Keys]

(* A put or a patch changes its own row alone and removes none.            *)
LEMMA WrittenKeeps ==
  ASSUME ConstantsFit(Operations), NEW store, IsStore(store), NEW o \in Operations,
         o.do = "meta" => Has(store, o.node)
  PROVE  /\ IsStore(Written(store, store, o))
         /\ o.do \in {"put", "meta"} =>
              /\ \A n \in Nodes \ {o.node} : Written(store, store, o)[n] = store[n]
              /\ \A n \in Nodes : Has(store, n) => Has(Written(store, store, o), n)
         /\ \A n \in Nodes : Has(Written(store, store, o), n) =>
              Has(store, n) \/ (o.do = "put" /\ n = o.node)
<1> DEFINE new == NewValue(store, o, o.node)
           w == Written(store, store, o)
<1>1. CASE o.do = "drop"
  BY <1>1 DEF Written, Writes, NewValue, IsStore, Has
<1>2. CASE o.do \in {"put", "meta"}
  <2>1. o.node \in Nodes /\ (o.do = "put" => o.arg \in Results) /\ (o.do = "meta" => o.arg \in Keys)
    BY <1>2, Kinds DEF ConstantsFit
  <2>2. Has(store, o.node) => store[o.node] \in Node
    BY <2>1 DEF IsStore, Has, Node
  <2>3. ASSUME NEW old \in Node, NEW r \in Results PROVE AddRival(old, r) \in Node
    <3>1. [old EXCEPT !.rivals = Append(@, r)] \in Node
      <4>1. old.rivals \in Seq(Results) /\ Append(old.rivals, r) \in Seq(Results)
        BY DEF Node
      <4> QED
        BY <4>1 DEF Node
    <3> QED
      BY <3>1 DEF AddRival, AddRivalAlways, AddRivalOnce
  <2>4. new \in Node
    <3>1. CASE o.do = "put"
      <4>1. [result |-> o.arg, rivals |-> <<>>, meta |-> {}] \in Node
        BY <2>1, <3>1 DEF Node
      <4> QED
        BY <2>1, <2>2, <2>3, <3>1, <4>1 DEF NewValue
    <3>2. CASE o.do = "meta"
      <4>1. store[o.node] \in Node
        BY <2>2, <3>2
      <4>2. [store[o.node] EXCEPT !.meta = @ \cup {o.arg}] \in Node
        BY <2>1, <3>2, <4>1 DEF Node
      <4> QED
        BY <3>2, <4>2 DEF NewValue
    <3> QED
      BY <1>2, <3>1, <3>2
  <2>5. new # Absent
    BY <2>4 DEF Node, ConstantsFit
  <2>6. w[o.node] \in {store[o.node], new} /\ \A n \in Nodes \ {o.node} : w[n] = store[n]
    BY <1>2, <2>1 DEF Written, Writes
  <2>7. DOMAIN w = Nodes
    BY DEF Written
  <2>8. o.do = "meta" => Has(store, o.node)
    OBVIOUS
  <2> HIDE DEF new, w
  <2>9. IsStore(w)
    BY <2>2, <2>4, <2>6, <2>7 DEF IsStore, Node
  <2>10. \A n \in Nodes : Has(store, n) => Has(w, n)
    BY <2>5, <2>6 DEF Has
  <2>11. \A n \in Nodes : Has(w, n) => Has(store, n) \/ (o.do = "put" /\ n = o.node)
    BY <1>2, <2>6, <2>8 DEF Has
  <2> QED
    BY <1>2, <2>6, <2>9, <2>10, <2>11 DEF w
<1> QED
  BY <1>1, <1>2, Kinds

-----------------------------------------------------------------------------
(* PostgreSQL.                                                             *)
LEMMA Payloads ==
  ASSUME Allowed
  PROVE  /\ ConstantsFit(Operations)
         /\ \A n \in Nodes : /\ Interned[n] \in Seq(Strings)
                             /\ \A i \in 1 .. Len(Interned[n]) : Interned[n][i] \in Strings
BY DEF Allowed

Writing == {"blobs", "existing", "commit"}
Puts(c) == op[c].do = "put"

(* Where a call is tells what it is and what it has done.                  *)
Placed(c) ==
  /\ pc[c] = "idle" => op[c] = NoOperation
  /\ pc[c] \in {"parent", "blobs"} => Puts(c)
  /\ pc[c] = "existing" => op[c].do \in {"put", "meta"}
  /\ pc[c] \in {"existing", "commit"} => left[c] = <<>>
  /\ pc[c] \in InTransaction => effects[c] = 0
  /\ pc[c] = "answer" => saw[c] \in {"done", "refused"}

(* What a transaction has found is still so: the parent of a node it puts, *)
(* a node it is to change, and what it read of a row it holds.             *)
Finds(c) ==
  /\ pc[c] \in Writing /\ Puts(c) => ~Refused(kv, op[c])
  /\ pc[c] = "existing" /\ Puts(c) => Has(kv, op[c].node)
  /\ pc[c] = "commit" /\ op[c].do \in {"put", "meta"} =>
       owner[op[c].node] = c /\ seen[c][op[c].node] = kv[op[c].node]
  /\ pc[c] = "commit" /\ op[c].do = "meta" => Has(kv, op[c].node)

(* The strings of a payload a put has been through are interned, or its    *)
(* own to intern; and the rows it holds are such strings, or the node it   *)
(* is about to commit.                                                     *)
Through(c) == Len(Interned[op[c].node]) - Len(left[c])
Walks(c) == pc[c] \in InTransaction /\ Puts(c) =>
  /\ Through(c) \in Nat
  /\ \A i \in 1 .. Len(left[c]) : left[c][i] = Interned[op[c].node][Through(c) + i]
  /\ \A i \in 1 .. Through(c) :
       Interned[op[c].node][i] \in blobs \/ owner[Interned[op[c].node][i]] = c
Holds(c) ==
  /\ \A n \in Nodes : owner[n] = c => pc[c] = "commit"
  /\ \A s \in Strings : owner[s] = c =>
       /\ pc[c] \in Writing /\ Puts(c) /\ s \notin blobs
       /\ \E i \in 1 .. Through(c) : Interned[op[c].node][i] = s

Sound(c) == Placed(c) /\ Finds(c) /\ Walks(c) /\ Holds(c)

(* While nodes are collected no other call is under way.                   *)
Alone == \A c, d \in Clients : op[c].do = "drop" /\ c # d => op[d] = NoOperation

IInv == TypeOK /\ Alone /\ PayloadsWhole /\ \A c \in Clients : Sound(c)

-----------------------------------------------------------------------------
(* The steps.  A client's step leaves the others where they are, and their *)
(* rows to them.                                                           *)
OthersStand(c) == \A d \in Clients \ {c} :
  /\ pc'[d] = pc[d] /\ op'[d] = op[d] /\ left'[d] = left[d] /\ seen'[d] = seen[d]
  /\ effects'[d] = effects[d] /\ saw'[d] = saw[d]
  /\ \A row \in Nodes \cup Strings : owner'[row] = d <=> owner[row] = d

Acts(c) == Step(c) \/ Break(c) \/ Abort(c) \/ \E o \in Operations : Call(c, o)

Taken(c, row) ==
  /\ owner' \in [Nodes \cup Strings -> Clients \cup {Nobody, Orphan}]
  /\ owner'[row] = c
  /\ \A d \in Clients, r \in Nodes \cup Strings :
       owner'[r] = d <=> owner[r] = d \/ (d = c /\ r = row)
GivenUp(c) ==
  /\ owner' \in [Nodes \cup Strings -> Clients \cup {Nobody, Orphan}]
  /\ \A d \in Clients, r \in Nodes \cup Strings : owner'[r] = d <=> owner[r] = d /\ d # c

Ends(c) == owner' = Ended(c)

LEMMA RowTaken ==
  ASSUME Allowed, TypeOK, NEW c \in Clients, NEW row, row \in Nodes \cup Strings, Take(c, row)
  PROVE  Taken(c, row)
BY DEF Taken, Allowed, TypeOK, Take, MayTake

LEMMA RowsEnded ==
  ASSUME Allowed, TypeOK, NEW c \in Clients, Ends(c)
  PROVE  GivenUp(c)
BY DEF GivenUp, Ends, Allowed, TypeOK, Ended

LEMMA Rows ==
  ASSUME Allowed, TypeOK, NEW c \in Clients
  PROVE  /\ \A row \in Nodes \cup Strings : Take(c, row) =>
              /\ owner' \in [Nodes \cup Strings -> Clients \cup {Nobody, Orphan}]
              /\ owner'[row] = c
              /\ \A d \in Clients, r \in Nodes \cup Strings :
                   owner'[r] = d <=> owner[r] = d \/ (d = c /\ r = row)
         /\ owner' = Ended(c) =>
              /\ owner' \in [Nodes \cup Strings -> Clients \cup {Nobody, Orphan}]
              /\ \A d \in Clients, r \in Nodes \cup Strings : owner'[r] = d <=> owner[r] = d /\ d # c
<1>1. ASSUME NEW row \in Nodes \cup Strings, Take(c, row)
      PROVE  /\ owner' \in [Nodes \cup Strings -> Clients \cup {Nobody, Orphan}]
             /\ owner'[row] = c
             /\ \A d \in Clients, r \in Nodes \cup Strings :
                   owner'[r] = d <=> owner[r] = d \/ (d = c /\ r = row)
  BY <1>1, RowTaken DEF Taken
<1>2. ASSUME owner' = Ended(c)
      PROVE  /\ owner' \in [Nodes \cup Strings -> Clients \cup {Nobody, Orphan}]
             /\ \A d \in Clients, r \in Nodes \cup Strings : owner'[r] = d <=> owner[r] = d /\ d # c
  BY <1>2, RowsEnded DEF GivenUp, Ends
<1> QED
  BY <1>1, <1>2

(* The rows operations are about.                                          *)
LEMMA Targets ==
  ASSUME Allowed, TypeOK, NEW c \in Clients
  PROVE  /\ op[c] \in Operations \/ (op[c] = NoOperation /\ pc[c] = "idle")
         /\ op[c] # NoOperation => op[c] \in Operations
         /\ op[c].do = "drop" => op[c] # NoOperation
         /\ op[c].do \in {"put", "meta"} => op[c].node \in Nodes
         /\ left[c] # <<>> =>
              Head(left[c]) \in Strings /\ Tail(left[c]) \in Seq(Strings)
              /\ Len(Tail(left[c])) = Len(left[c]) - 1 /\ Len(left[c]) > 0
              /\ Head(left[c]) = left[c][1]
              /\ \A i \in 1 .. Len(left[c]) - 1 : Tail(left[c])[i] = left[c][i + 1]
<1>1. op[c] \in Operations \/ (op[c] = NoOperation /\ pc[c] = "idle")
  BY DEF TypeOK
<1>2. op[c].do = "drop" => op[c] # NoOperation
  BY DEF NoOperation
<1>3. op[c].do \in {"put", "meta"} => op[c].node \in Nodes
  BY <1>1, Kinds, Payloads DEF NoOperation
<1>4. left[c] \in Seq(Strings)
  BY DEF TypeOK
<1>5. left[c] # <<>> =>
        Head(left[c]) \in Strings /\ Tail(left[c]) \in Seq(Strings)
        /\ Len(Tail(left[c])) = Len(left[c]) - 1 /\ Len(left[c]) > 0
        /\ Head(left[c]) = left[c][1]
        /\ \A i \in 1 .. Len(left[c]) - 1 : Tail(left[c])[i] = left[c][i + 1]
  <2> DEFINE s == left[c]
  <2>1. s \in Seq(Strings)
    BY <1>4
  <2> HIDE DEF s
  <2>2. s # <<>> =>
        Head(s) \in Strings /\ Tail(s) \in Seq(Strings)
        /\ Len(Tail(s)) = Len(s) - 1 /\ Len(s) > 0
        /\ Head(s) = s[1]
        /\ \A i \in 1 .. Len(s) - 1 : Tail(s)[i] = s[i + 1]
    BY <2>1
  <2> QED
    BY <2>2 DEF s
<1> QED
  BY <1>1, <1>2, <1>3, <1>5

LEMMA OthersKept ==
  ASSUME Allowed, TypeOK, NEW c \in Clients, Placed(c), Acts(c)
  PROVE  OthersStand(c)
<1> USE DEF TypeOK, OthersStand, Goto, Took, history
<1>1. ASSUME NEW o \in Operations, Call(c, o) PROVE OthersStand(c)
  BY <1>1 DEF Call
<1>2. CASE CheckParent(c)
  BY <1>2 DEF CheckParent
<1>3. CASE Intern(c)
  <2>1. left[c] # <<>> /\ \/ Take(c, Head(left[c]))
                          \/ UNCHANGED owner
    BY <1>3 DEF Intern
  <2>2. \A d \in Clients \ {c}, row \in Nodes \cup Strings : owner'[row] = d <=> owner[row] = d
    BY <2>1, Targets, Rows
  <2> QED
    BY <1>3, <2>2 DEF Intern
<1>4. CASE InsertNode(c)
  <2>1. op[c].node \in Nodes
    BY <1>4, Targets DEF InsertNode, Placed, Puts
  <2>2. \A d \in Clients \ {c}, row \in Nodes \cup Strings : owner'[row] = d <=> owner[row] = d
    BY <1>4, <2>1, Rows DEF InsertNode
  <2> QED
    BY <1>4, <2>2 DEF InsertNode
<1>5. CASE LockExisting(c)
  <2>1. op[c].node \in Nodes
    BY <1>5, Targets DEF LockExisting, Placed
  <2>2. \A d \in Clients \ {c}, row \in Nodes \cup Strings : owner'[row] = d <=> owner[row] = d
    BY <1>5, <2>1, Rows DEF LockExisting, SelectRow
  <2> QED
    BY <1>5, <2>2 DEF LockExisting
<1>6. CASE Commit(c)
  <2>1. \A d \in Clients \ {c}, row \in Nodes \cup Strings : owner'[row] = d <=> owner[row] = d
    BY <1>6, Rows DEF Commit
  <2> QED
    BY <1>6, <2>1 DEF Commit
<1>7. CASE Return(c)
  BY <1>7 DEF Return
<1>8. CASE Break(c)
  <2>1. \A d \in Clients \ {c}, row \in Nodes \cup Strings : owner'[row] = d <=> owner[row] = d
    BY <1>8 DEF Break, Allowed
  <2> QED
    BY <1>8, <2>1 DEF Break
<1>9. CASE Abort(c)
  <2>1. \A d \in Clients \ {c}, row \in Nodes \cup Strings : owner'[row] = d <=> owner[row] = d
    BY <1>9, Rows DEF Abort
  <2> QED
    BY <1>9, <2>1 DEF Abort
<1> QED
  BY <1>1, <1>2, <1>3, <1>4, <1>5, <1>6, <1>7, <1>8, <1>9 DEF Acts, Step

(* What a commit makes of the store.                                       *)
LEMMA Commits ==
  ASSUME Allowed, IInv, NEW c \in Clients, Commit(c)
  PROVE  /\ kv' = Written(kv, kv, op[c]) /\ ~Refused(kv, op[c]) /\ op[c] \in Operations
         /\ op[c].do \in {"put", "meta"} => owner[op[c].node] = c
         /\ op[c].do = "meta" => Has(kv, op[c].node)
         /\ IsStore(kv)
<1>1. Sound(c) /\ TypeOK /\ pc[c] = "commit"
  BY DEF IInv, Commit
<1>2. op[c] \in Operations
  BY <1>1, Targets
<1>3. op[c].do = "drop" \/ seen[c][op[c].node] = kv[op[c].node]
  BY <1>1, <1>2, Kinds, Payloads DEF Sound, Finds
<1>4. kv' = Written(kv, kv, op[c])
  BY <1>3, SameWritten DEF Commit
<1>5. ~Refused(kv, op[c])
  <2>1. CASE op[c].do = "put"
    BY <1>1, <2>1 DEF Sound, Finds, Writing, Puts
  <2>2. CASE op[c].do = "meta"
    BY <1>1, <2>2 DEF Sound, Finds, Refused, Needed
  <2>3. CASE op[c].do = "drop"
    BY <2>3 DEF Refused, Needed
  <2> QED
    BY <1>2, <2>1, <2>2, <2>3, Kinds, Payloads
<1> QED
  BY <1>1, <1>2, <1>4, <1>5 DEF Sound, Finds, TypeOK

(* Whatever one client does, the others are as sound as before.            *)
LEMMA OthersSound ==
  ASSUME Allowed, IInv, NEW c \in Clients, Acts(c), NEW d \in Clients \ {c}
  PROVE  Sound(d)'
<1>1. TypeOK /\ Sound(c) /\ Sound(d)
  BY DEF IInv
<1>2. OthersStand(c)
  BY <1>1, OthersKept DEF Sound
<1>3. Placed(d)'
  BY <1>1, <1>2 DEF OthersStand, Sound, Placed, Puts
<1>4. op[d].do \in {"put", "meta"} => op[d].node \in Nodes /\ op[d] \in Operations
  BY <1>1, Targets DEF NoOperation
<1>5. op[d].do = "put" => /\ Parent[op[d].node] \in Nodes
                          /\ \A i \in 1 .. Len(Interned[op[d].node]) : Interned[op[d].node][i] \in Strings
  BY <1>4, Kinds, Payloads
<1>6. CASE UNCHANGED <<kv, blobs>>
  <2>1. Finds(d)'
    BY <1>1, <1>2, <1>4, <1>6 DEF OthersStand, Sound, Finds, Puts
  <2>2. Walks(d)'
    <3> SUFFICES ASSUME pc'[d] \in InTransaction, op'[d].do = "put" PROVE Walks(d)'
      BY DEF Walks, Puts
    <3>1. Through(d)' = Through(d) /\ Through(d) \in Nat /\ pc[d] \in InTransaction /\ Puts(d)
      BY <1>1, <1>2 DEF OthersStand, Through, Sound, Walks, Puts
    <3>2. left[d] \in Seq(Strings) /\ Through(d) + Len(left[d]) = Len(Interned[op[d].node])
      BY <1>1, <1>4, <3>1, Kinds, Payloads DEF Through, TypeOK, Puts
    <3>3. \A i \in 1 .. Through(d) : Interned[op[d].node][i] \in Strings
      BY <1>5, <3>1, <3>2 DEF Puts
    <3>4. op'[d] = op[d] /\ left'[d] = left[d] /\ Walks(d)
          /\ \A row \in Nodes \cup Strings : owner'[row] = d <=> owner[row] = d
      BY <1>1, <1>2 DEF OthersStand, Sound
    <3>5. \A i \in 1 .. Through(d) :
            Interned[op[d].node][i] \in blobs' \/ owner'[Interned[op[d].node][i]] = d
      BY <1>6, <3>1, <3>3, <3>4 DEF Walks
    <3>6. \A i \in 1 .. Len(left'[d]) : left'[d][i] = Interned[op[d].node][Through(d) + i]
      BY <3>1, <3>4 DEF Walks
    <3> QED
      BY <3>1, <3>4, <3>5, <3>6 DEF Walks
  <2>3. Holds(d)'
    <3>1. Through(d)' = Through(d)
      BY <1>2 DEF OthersStand, Through
    <3> QED
      BY <1>1, <1>2, <1>6, <3>1 DEF OthersStand, Sound, Holds, Puts
  <2> QED
    BY <1>3, <2>1, <2>2, <2>3 DEF Sound
<1>7. CASE Commit(c)
  <2>1. /\ kv' = Written(kv, kv, op[c]) /\ op[c] \in Operations
        /\ op[c].do \in {"put", "meta"} => owner[op[c].node] = c
        /\ op[c].do = "meta" => Has(kv, op[c].node)
        /\ IsStore(kv) /\ blobs' = blobs \cup (Mine(c) \cap Strings)
    BY <1>7, Commits DEF Commit
  <2>2. CASE op[c].do = "drop"
    <3>1. op[d] = NoOperation
      BY <2>2 DEF IInv, Alone
    <3>2. pc[d] = "idle"
      BY <1>1, <3>1, Targets, Kinds, Payloads
    <3>3. \A row \in Nodes \cup Strings : owner[row] # d
      BY <1>1, <3>2 DEF TypeOK, InTransaction
    <3> QED
      BY <1>2, <1>3, <3>2, <3>3 DEF OthersStand, Sound, Finds, Walks, Holds, Writing, InTransaction
  <2>3. CASE op[c].do \in {"put", "meta"}
    <3>1. /\ \A n \in Nodes \ {op[c].node} : kv'[n] = kv[n]
          /\ \A n \in Nodes : Has(kv, n) => Has(kv', n)
      BY <2>1, <2>3, WrittenKeeps, Payloads
    <3>2. Needed(op[d]) \subseteq Nodes
      BY <1>4, <1>5 DEF Needed
    <3>3. ~Refused(kv, op[d]) => ~Refused(kv', op[d])
      BY <3>1, <3>2 DEF Refused
    <3>4. Finds(d)'
      BY <1>1, <1>2, <1>4, <2>1, <2>3, <3>1, <3>3 DEF OthersStand, Sound, Finds, Puts
    <3>5. Walks(d)'
      <4> SUFFICES ASSUME pc'[d] \in InTransaction, op'[d].do = "put" PROVE Walks(d)'
        BY DEF Walks, Puts
      <4>1. Through(d)' = Through(d) /\ Through(d) \in Nat /\ pc[d] \in InTransaction /\ Puts(d)
        BY <1>1, <1>2 DEF OthersStand, Through, Sound, Walks, Puts
      <4>2. left[d] \in Seq(Strings) /\ Through(d) + Len(left[d]) = Len(Interned[op[d].node])
        BY <1>1, <1>4, <4>1, Kinds, Payloads DEF Through, TypeOK, Puts
      <4>3. \A i \in 1 .. Through(d) : Interned[op[d].node][i] \in Strings
        BY <1>5, <4>1, <4>2 DEF Puts
      <4>4. op'[d] = op[d] /\ left'[d] = left[d] /\ blobs \subseteq blobs'
        BY <1>2, <2>1 DEF OthersStand
      <4>5. \A i \in 1 .. Through(d) :
              Interned[op[d].node][i] \in blobs \/ owner'[Interned[op[d].node][i]] = d
        BY <1>1, <1>2, <4>1, <4>3 DEF OthersStand, Sound, Walks
      <4> QED
        BY <1>1, <4>1, <4>4, <4>5 DEF Sound, Walks, Puts
    <3>6. Holds(d)'
      <4>1. Through(d)' = Through(d)
        BY <1>2 DEF OthersStand, Through
      <4>2. \A s \in Strings : owner[s] = d => s \notin blobs'
        BY <1>1, <2>1 DEF Sound, Holds, Mine
      <4> QED
        BY <1>1, <1>2, <4>1, <4>2 DEF OthersStand, Sound, Holds, Puts
    <3> QED
      BY <1>3, <3>4, <3>5, <3>6 DEF Sound
  <2> QED
    BY <2>1, <2>2, <2>3, Kinds, Payloads
<1>8. UNCHANGED <<kv, blobs>> \/ Commit(c)
  BY DEF Acts, Step, Call, CheckParent, Intern, InsertNode, LockExisting, Return, Break, Abort
<1> QED
  BY <1>6, <1>7, <1>8

(* Its own soundness each step keeps.                                      *)
LEMMA CallSound ==
  ASSUME Allowed, IInv, NEW c \in Clients, NEW o \in Operations, Call(c, o)
  PROVE  Sound(c)' /\ TypeOK'
<1> USE DEF Goto
<1>1. TypeOK /\ pc[c] = "idle" /\ \A row \in Nodes \cup Strings : owner[row] # c
  BY DEF IInv, Call, TypeOK, InTransaction
<1>2. /\ op'[c] = o /\ pc'[c] = First(o) /\ effects'[c] = 0
      /\ left'[c] = (IF o.do = "put" THEN Interned[o.node] ELSE <<>>)
      /\ UNCHANGED <<kv, blobs, owner, seen>>
  BY <1>1 DEF Call, TypeOK, InOrder
<1>3. o # NoOperation /\ o.do \in {"put", "meta", "drop"}
  BY Kinds, Payloads
<1>4. First(o) \in InTransaction
  BY DEF First, InTransaction
<1>5. Placed(c)'
  BY <1>2, <1>3, <1>4 DEF Placed, Puts, First, InTransaction
<1>6. Finds(c)'
  BY <1>2, <1>3 DEF Finds, Puts, First, Writing, Refused, Needed
<1>7. Walks(c)'
  <2> SUFFICES ASSUME o.do = "put" PROVE Walks(c)'
    BY <1>2 DEF Walks, Puts
  <2>1. Interned[o.node] \in Seq(Strings) /\ left'[c] = Interned[o.node]
    BY <1>2, Kinds, Payloads
  <2>2. Through(c)' = 0
    BY <1>2, <2>1 DEF Through
  <2> QED
    BY <1>2, <2>1, <2>2 DEF Walks, Puts
<1>8. Holds(c)'
  BY <1>1, <1>2 DEF Holds
<1>9. TypeOK'
  <2>1. (IF o.do = "put" THEN Interned[o.node] ELSE <<>>) \in Seq(Strings)
    BY Kinds, Payloads
  <2>2. calls' \in 0 .. MaxCalls
    BY <1>1 DEF Call, TypeOK, Allowed
  <2>3. /\ op' \in [Clients -> Operations \cup {NoOperation}] /\ left' \in [Clients -> Seq(Strings)]
        /\ pc' \in [Clients -> InTransaction \cup {"idle", "answer", "broken"}]
    BY <1>1, <1>4, <2>1 DEF Call, TypeOK, InOrder
  <2>4. /\ reply' \in [Clients -> {"none", "done", "refused", "error"}]
        /\ effects' \in [Clients -> 0 .. 1] /\ saw' \in [Clients -> {"none", "done", "refused"}]
    BY <1>1 DEF Call, TypeOK
  <2>5. \A d \in Clients : op'[d] \in Operations \/ (op'[d] = NoOperation /\ pc'[d] = "idle")
    BY <1>1 DEF Call, TypeOK
  <2>6. \A d \in Clients : pc'[d] \notin InTransaction => \A row \in DOMAIN owner' : owner'[row] # d
    BY <1>1, <1>2, <1>4 DEF Call, TypeOK
  <2> QED
    BY <1>1, <1>2, <2>2, <2>3, <2>4, <2>5, <2>6 DEF TypeOK
<1> QED
  BY <1>5, <1>6, <1>7, <1>8, <1>9 DEF Sound

LEMMA CheckParentSound ==
  ASSUME Allowed, IInv, NEW c \in Clients, CheckParent(c)
  PROVE  Sound(c)' /\ TypeOK'
<1> USE DEF Goto, Took
<1>1. /\ TypeOK /\ Sound(c) /\ pc[c] = "parent" /\ Puts(c) /\ effects[c] = 0
      /\ \A row \in Nodes \cup Strings : owner[row] # c
  BY DEF IInv, CheckParent, Sound, Placed, Holds, InTransaction, Writing
<1>2. UNCHANGED <<kv, blobs, owner, op, left, seen, reply, calls>>
  BY DEF CheckParent
<1>3. CASE Refused(kv, op[c])
  <2>1. /\ pc' = [pc EXCEPT ![c] = "answer"] /\ effects' = [effects EXCEPT ![c] = 1]
        /\ saw' = [saw EXCEPT ![c] = "refused"]
    BY <1>1, <1>3 DEF CheckParent
  <2>2. TypeOK'
    BY <1>1, <1>2, <2>1 DEF TypeOK, InTransaction
  <2>3. Sound(c)'
    BY <1>1, <1>2, <2>1 DEF TypeOK, Sound, Placed, Finds, Walks, Holds, Writing, InTransaction
  <2> QED
    BY <2>2, <2>3
<1>4. CASE ~Refused(kv, op[c])
  <2>1. pc' = [pc EXCEPT ![c] = "blobs"] /\ UNCHANGED <<effects, saw>>
    BY <1>4 DEF CheckParent
  <2>2. TypeOK'
    BY <1>1, <1>2, <2>1 DEF TypeOK, InTransaction
  <2>3. Placed(c)' /\ Finds(c)' /\ Holds(c)'
    BY <1>1, <1>2, <1>4, <2>1 DEF TypeOK, Placed, Finds, Holds, Puts, InTransaction
  <2>4. Walks(c)'
    <3>1. Through(c)' = Through(c)
      BY <1>2 DEF Through
    <3> QED
      BY <1>1, <1>2, <3>1 DEF Sound, Walks, Puts, InTransaction
  <2> QED
    BY <2>2, <2>3, <2>4 DEF Sound
<1> QED
  BY <1>3, <1>4

LEMMA InternSound ==
  ASSUME Allowed, IInv, NEW c \in Clients, Intern(c)
  PROVE  Sound(c)' /\ TypeOK'
<1>1. /\ TypeOK /\ Sound(c) /\ pc[c] = "blobs" /\ Puts(c) /\ left[c] # <<>>
      /\ op[c] \in Operations /\ Interned[op[c].node] \in Seq(Strings)
  <2>1. TypeOK /\ Sound(c) /\ pc[c] = "blobs" /\ Puts(c) /\ left[c] # <<>>
    BY DEF IInv, Intern, Sound, Placed
  <2> QED
    BY <2>1, Targets, Kinds, Payloads DEF Puts
<1>2. /\ UNCHANGED <<kv, blobs, pc, op, seen, reply, effects, saw, calls>>
      /\ left' = [left EXCEPT ![c] = Tail(@)]
  BY DEF Intern, history
<1>3. /\ Head(left[c]) \in Strings /\ Tail(left[c]) \in Seq(Strings)
      /\ Len(Tail(left[c])) = Len(left[c]) - 1 /\ Len(left[c]) \in Nat \ {0}
      /\ Head(left[c]) = left[c][1] /\ left'[c] = Tail(left[c])
      /\ \A i \in 1 .. Len(left[c]) - 1 : Tail(left[c])[i] = left[c][i + 1]
  <2>1. left[c] \in Seq(Strings) /\ left'[c] = Tail(left[c])
    BY <1>1, <1>2 DEF TypeOK
  <2> QED
    BY <1>1, <2>1, Targets
<1>4. /\ owner' \in [Nodes \cup Strings -> Clients \cup {Nobody, Orphan}]
      /\ Head(left[c]) \in blobs \/ owner'[Head(left[c])] = c
      /\ \A r \in Nodes \cup Strings :
           owner'[r] = c <=> owner[r] = c \/ (r = Head(left[c]) /\ r \notin blobs)
      /\ \A d \in Clients \ {c}, r \in Nodes \cup Strings : owner'[r] = d <=> owner[r] = d
  <2>1. CASE Head(left[c]) \in blobs
    <3>1. UNCHANGED owner
      BY <2>1 DEF Intern
    <3> QED
      BY <1>1, <2>1, <3>1 DEF TypeOK
  <2>2. CASE Head(left[c]) \notin blobs
    <3>1. Take(c, Head(left[c])) /\ Head(left[c]) \in Nodes \cup Strings
      BY <1>3, <2>2 DEF Intern
    <3>2. /\ owner' \in [Nodes \cup Strings -> Clients \cup {Nobody, Orphan}]
          /\ owner'[Head(left[c])] = c
          /\ \A d \in Clients, r \in Nodes \cup Strings :
               owner'[r] = d <=> owner[r] = d \/ (d = c /\ r = Head(left[c]))
      <4>1. Taken(c, Head(left[c]))
        BY <1>1, <3>1, RowTaken
      <4> QED
        BY <4>1 DEF Taken
    <3>3. \A r \in Nodes \cup Strings : r = Head(left[c]) => r \notin blobs
      BY <2>2
    <3> QED
      BY <3>2, <3>3
  <2> QED
    BY <2>1, <2>2
<1>5. /\ Through(c)' = Through(c) + 1 /\ Through(c) \in Nat
      /\ Interned[op[c].node][Through(c) + 1] = Head(left[c])
      /\ Through(c) + Len(left[c]) = Len(Interned[op[c].node])
  <2>1. /\ Through(c) \in Nat
        /\ \A i \in 1 .. Len(left[c]) : left[c][i] = Interned[op[c].node][Through(c) + i]
    BY <1>1 DEF Sound, Walks, InTransaction
  <2>2. Len(Interned[op[c].node]) \in Nat /\ Len(left[c]) \in Nat
    BY <1>1, <1>3
  <2>3. left[c][1] = Interned[op[c].node][Through(c) + 1]
    BY <1>3, <2>1
  <2>4. Through(c) = Len(Interned[op[c].node]) - Len(left[c])
    BY DEF Through
  <2>5. Through(c)' = Len(Interned[op[c].node]) - (Len(left[c]) - 1)
    BY <1>2, <1>3 DEF Through
  <2>6. Through(c)' = Through(c) + 1 /\ Through(c) + Len(left[c]) = Len(Interned[op[c].node])
    BY <2>2, <2>4, <2>5
  <2> QED
    BY <1>3, <2>1, <2>3, <2>6
<1>6. TypeOK'
  <2>1. left' \in [Clients -> Seq(Strings)]
    BY <1>1, <1>2, <1>3 DEF TypeOK
  <2>2. \A d \in Clients : pc[d] \notin InTransaction => \A row \in Nodes \cup Strings : owner[row] # d
    BY <1>1 DEF TypeOK
  <2>3. \A d \in Clients : pc[d] \notin InTransaction => \A row \in Nodes \cup Strings : owner'[row] # d
    BY <1>1, <1>4, <2>2 DEF InTransaction
  <2> QED
    BY <1>1, <1>2, <1>4, <2>1, <2>3 DEF TypeOK
<1>7. Placed(c)' /\ Finds(c)'
  BY <1>1, <1>2 DEF Sound, Placed, Finds, Puts
<1>8. Walks(c)'
  <2>1. \A i \in 1 .. Len(left'[c]) : left'[c][i] = Interned[op[c].node][Through(c)' + i]
    <3>1. \A i \in 1 .. Len(left[c]) : left[c][i] = Interned[op[c].node][Through(c) + i]
      BY <1>1 DEF Sound, Walks, InTransaction
    <3> SUFFICES ASSUME NEW i \in 1 .. Len(left'[c])
                 PROVE  left'[c][i] = Interned[op[c].node][Through(c)' + i]
      OBVIOUS
    <3>2. i \in 1 .. Len(left[c]) - 1 /\ i + 1 \in 1 .. Len(left[c])
      BY <1>3
    <3>3. left'[c][i] = left[c][i + 1]
      BY <1>3, <3>2
    <3>4. left[c][i + 1] = Interned[op[c].node][Through(c) + (i + 1)]
      BY <3>1, <3>2
    <3>5. Through(c)' + i = Through(c) + (i + 1)
      BY <1>5, <3>2
    <3> QED
      BY <3>3, <3>4, <3>5
  <2>2. \A i \in 1 .. Through(c)' :
          Interned[op[c].node][i] \in blobs \/ owner'[Interned[op[c].node][i]] = c
    <3> SUFFICES ASSUME NEW i \in 1 .. Through(c)'
                 PROVE  Interned[op[c].node][i] \in blobs \/ owner'[Interned[op[c].node][i]] = c
      OBVIOUS
    <3>1. CASE i = Through(c) + 1
      BY <1>4, <1>5, <3>1
    <3>2. CASE i # Through(c) + 1
      <4>1. i \in 1 .. Through(c) /\ i \in 1 .. Len(Interned[op[c].node])
        <5>1. Through(c)' = Through(c) + 1 /\ Through(c) \in Nat /\ Len(left[c]) \in Nat
              /\ Through(c) + Len(left[c]) = Len(Interned[op[c].node])
          BY <1>3, <1>5
        <5> QED
          BY <3>2, <5>1
      <4>2. Interned[op[c].node][i] \in blobs \/ owner[Interned[op[c].node][i]] = c
        BY <1>1, <4>1 DEF Sound, Walks, InTransaction
      <4>3. Interned[op[c].node][i] \in Strings
        BY <1>1, <4>1
      <4> QED
        BY <1>4, <4>2, <4>3
    <3> QED
      BY <3>1, <3>2
  <2> QED
    BY <1>2, <1>5, <2>1, <2>2 DEF Walks
<1>9. Holds(c)'
  <2>1. \A n \in Nodes : owner'[n] # c
    BY <1>1, <1>3, <1>4 DEF Sound, Holds, Allowed
  <2>2. ASSUME NEW s \in Strings, owner'[s] = c
        PROVE  s \notin blobs /\ \E i \in 1 .. Through(c)' : Interned[op[c].node][i] = s
    <3>1. CASE owner[s] = c
      BY <1>1, <1>5, <3>1 DEF Sound, Holds
    <3>2. CASE s = Head(left[c]) /\ s \notin blobs
      <4>1. Through(c) + 1 \in 1 .. Through(c)' /\ Interned[op[c].node][Through(c) + 1] = s
        BY <1>5, <3>2
      <4> QED
        BY <3>2, <4>1
    <3> QED
      BY <1>4, <2>2, <3>1, <3>2
  <2> QED
    BY <1>1, <1>2, <2>1, <2>2 DEF Holds, Puts, Writing
<1> QED
  BY <1>6, <1>7, <1>8, <1>9 DEF Sound

(* A node's row taken, on the way to the commit.                           *)
LEMMA TakenSound ==
  ASSUME Allowed, TypeOK, NEW c \in Clients, Sound(c), op[c].do \in {"put", "meta"},
         pc[c] \in {"blobs", "existing"}, left[c] = <<>>,
         Take(c, op[c].node), pc' = [pc EXCEPT ![c] = "commit"], seen' = [seen EXCEPT ![c] = kv],
         op[c].do = "meta" => Has(kv, op[c].node),
         UNCHANGED <<kv, blobs, op, left, reply, effects, saw, calls>>
  PROVE  Sound(c)' /\ TypeOK'
<1>1. /\ op[c] \in Operations /\ op[c].node \in Nodes /\ op[c].node \notin Strings
      /\ op[c].node \in Nodes \cup Strings /\ Take(c, op[c].node)
  BY Targets DEF NoOperation, Allowed
<1>2. /\ owner' \in [Nodes \cup Strings -> Clients \cup {Nobody, Orphan}]
      /\ owner'[op[c].node] = c
      /\ \A d \in Clients, r \in Nodes \cup Strings :
           owner'[r] = d <=> owner[r] = d \/ (d = c /\ r = op[c].node)
  <2>0. PICK n \in Nodes \cup Strings : n = op[c].node
    BY <1>1
  <2>1. Take(c, n)
    BY <1>1, <2>0 DEF Take, MayTake
  <2>2. /\ owner' \in [Nodes \cup Strings -> Clients \cup {Nobody, Orphan}] /\ owner'[n] = c
        /\ \A d \in Clients, r \in Nodes \cup Strings :
             owner'[r] = d <=> owner[r] = d \/ (d = c /\ r = n)
    <3>1. \A row \in Nodes \cup Strings : Take(c, row) =>
              /\ owner' \in [Nodes \cup Strings -> Clients \cup {Nobody, Orphan}]
              /\ owner'[row] = c
              /\ \A d \in Clients, r \in Nodes \cup Strings :
                   owner'[r] = d <=> owner[r] = d \/ (d = c /\ r = row)
      BY Rows
    <3> QED
      BY <2>1, <3>1
  <2> QED
    BY <2>0, <2>2
<1>3. TypeOK'
  <2>1. \A d \in Clients : pc[d] \notin InTransaction => \A row \in Nodes \cup Strings : owner[row] # d
    BY DEF TypeOK
  <2>2. \A d \in Clients : pc'[d] \notin InTransaction => \A row \in Nodes \cup Strings : owner'[row] # d
    BY <1>2, <2>1 DEF TypeOK, InTransaction
  <2>3. DOMAIN seen' = Clients /\ \A d \in Clients : IsStore(seen'[d])
    BY DEF TypeOK, IsStore
  <2>4. pc' \in [Clients -> InTransaction \cup {"idle", "answer", "broken"}]
    BY DEF TypeOK, InTransaction
  <2>5. \A d \in Clients : op'[d] \in Operations \/ (op'[d] = NoOperation /\ pc'[d] = "idle")
    BY <1>1 DEF TypeOK
  <2> QED
    BY <1>2, <2>2, <2>3, <2>4, <2>5 DEF TypeOK
<1>4. pc'[c] = "commit" /\ seen'[c] = kv
  BY DEF TypeOK
<1>5. Placed(c)'
  BY <1>4 DEF Sound, Placed, InTransaction
<1>6. Finds(c)'
  BY <1>2, <1>4 DEF Sound, Finds, Writing, Puts
<1>7. Through(c)' = Through(c)
  BY DEF Through
<1>8. Walks(c)'
  <2> SUFFICES ASSUME Puts(c) PROVE Walks(c)'
    BY DEF Walks, Puts
  <2>1. /\ Through(c) \in Nat
        /\ \A i \in 1 .. Len(left[c]) : left[c][i] = Interned[op[c].node][Through(c) + i]
        /\ \A i \in 1 .. Through(c) :
             Interned[op[c].node][i] \in blobs \/ owner[Interned[op[c].node][i]] = c
    BY DEF Sound, Walks, InTransaction
  <2>2. Interned[op[c].node] \in Seq(Strings) /\ Through(c) = Len(Interned[op[c].node])
    BY <1>1, Kinds, Payloads DEF Puts, Through
  <2>3. \A i \in 1 .. Through(c) : Interned[op[c].node][i] \in Nodes \cup Strings
    BY <2>2
  <2>4. \A i \in 1 .. Through(c) :
          Interned[op[c].node][i] \in blobs \/ owner'[Interned[op[c].node][i]] = c
    BY <1>2, <2>1, <2>3
  <2> QED
    BY <1>7, <2>1, <2>4 DEF Walks
<1>9. Holds(c)'
  <2>1. \A s \in Strings : owner'[s] = c => owner[s] = c
    BY <1>1, <1>2
  <2> QED
    BY <1>4, <1>7, <2>1 DEF Sound, Holds, Writing, Puts
<1> QED
  BY <1>3, <1>5, <1>6, <1>8, <1>9 DEF Sound

LEMMA InsertNodeSound ==
  ASSUME Allowed, IInv, NEW c \in Clients, InsertNode(c)
  PROVE  Sound(c)' /\ TypeOK'
<1>1. TypeOK /\ Sound(c) /\ pc[c] = "blobs" /\ Puts(c) /\ left[c] = <<>>
  BY DEF IInv, InsertNode, Sound, Placed
<1>2. seen' = [seen EXCEPT ![c] = kv] /\ UNCHANGED <<kv, blobs, op, left, reply, effects, saw, calls>>
  BY DEF InsertNode, history
<1>3. CASE Has(kv, op[c].node)
  <2>1. pc' = [pc EXCEPT ![c] = "existing"] /\ UNCHANGED owner
    BY <1>3 DEF InsertNode, Goto
  <2>2. pc'[c] = "existing" /\ Through(c)' = Through(c)
    BY <1>1, <1>2, <2>1 DEF TypeOK, Through
  <2>3. DOMAIN seen' = Clients /\ \A d \in Clients : IsStore(seen'[d])
    BY <1>1, <1>2 DEF TypeOK, IsStore
  <2>4. TypeOK'
    BY <1>1, <1>2, <2>1, <2>3 DEF TypeOK, InTransaction
  <2>5. Placed(c)' /\ Finds(c)'
    BY <1>1, <1>2, <1>3, <2>1, <2>2 DEF Sound, Placed, Finds, Puts, Writing, InTransaction
  <2>6. Walks(c)'
    BY <1>1, <1>2, <2>1, <2>2 DEF Sound, Walks, Puts, InTransaction
  <2>7. Holds(c)'
    BY <1>1, <1>2, <2>1, <2>2 DEF Sound, Holds, Puts, Writing
  <2> QED
    BY <2>4, <2>5, <2>6, <2>7 DEF Sound
<1>4. CASE ~Has(kv, op[c].node)
  <2>1. pc' = [pc EXCEPT ![c] = "commit"] /\ Take(c, op[c].node)
    BY <1>4 DEF InsertNode, Goto
  <2> QED
    BY <1>1, <1>2, <2>1, TakenSound DEF Puts
<1> QED
  BY <1>3, <1>4

(* A transaction that is over holds no rows and leaves nothing to keep.    *)
LEMMA OverSound ==
  ASSUME Allowed, NEW c \in Clients, pc'[c] \in {"idle", "answer", "broken"},
         pc'[c] = "idle" => op'[c] = NoOperation,
         pc'[c] = "answer" => saw'[c] \in {"done", "refused"},
         \A row \in Nodes \cup Strings : owner'[row] # c
  PROVE  Sound(c)'
BY DEF Sound, Placed, Finds, Walks, Holds, InTransaction, Writing

LEMMA LockExistingSound ==
  ASSUME Allowed, IInv, NEW c \in Clients, LockExisting(c)
  PROVE  Sound(c)' /\ TypeOK'
<1>1. /\ TypeOK /\ Sound(c) /\ pc[c] = "existing" /\ op[c].do \in {"put", "meta"}
      /\ left[c] = <<>> /\ effects[c] = 0
  BY DEF IInv, LockExisting, Sound, Placed, InTransaction
<1>2. seen' = [seen EXCEPT ![c] = kv] /\ UNCHANGED <<kv, blobs, op, left, reply, calls>>
  BY DEF LockExisting
<1>3. CASE Has(kv, op[c].node)
  <2>1. pc' = [pc EXCEPT ![c] = "commit"] /\ Take(c, op[c].node) /\ UNCHANGED <<effects, saw>>
    BY <1>3 DEF LockExisting, Goto, SelectRow
  <2> QED
    BY <1>1, <1>2, <1>3, <2>1, TakenSound
<1>4. CASE ~Has(kv, op[c].node)
  <2>1. /\ pc' = [pc EXCEPT ![c] = "answer"] /\ effects' = [effects EXCEPT ![c] = 1]
        /\ saw' = [saw EXCEPT ![c] = "refused"] /\ UNCHANGED owner
    BY <1>1, <1>4 DEF LockExisting, Goto, Took
  <2>2. \A row \in Nodes \cup Strings : owner[row] # c
    BY <1>1, <1>4 DEF Sound, Finds, Holds
  <2>3. DOMAIN seen' = Clients /\ \A d \in Clients : IsStore(seen'[d])
    BY <1>1, <1>2 DEF TypeOK, IsStore
  <2>4. TypeOK'
    BY <1>1, <1>2, <2>1, <2>2, <2>3 DEF TypeOK, InTransaction
  <2>5. Sound(c)'
    BY <1>1, <2>1, <2>2, OverSound DEF TypeOK
  <2> QED
    BY <2>4, <2>5
<1> QED
  BY <1>3, <1>4

LEMMA CommitSound ==
  ASSUME Allowed, IInv, NEW c \in Clients, Commit(c)
  PROVE  Sound(c)' /\ TypeOK' /\ PayloadsWhole'
<1>1. /\ TypeOK /\ Sound(c) /\ pc[c] = "commit" /\ effects[c] = 0 /\ left[c] = <<>>
  BY DEF IInv, Commit, Sound, Placed, InTransaction
<1>2. /\ \/ pc' = [pc EXCEPT ![c] = "answer"]
         \/ pc' = [pc EXCEPT ![c] = "broken"]
      /\ blobs' = blobs \cup (Mine(c) \cap Strings) /\ owner' = Ended(c)
      /\ effects' = [effects EXCEPT ![c] = 1] /\ saw' = [saw EXCEPT ![c] = "done"]
      /\ UNCHANGED <<op, left, seen, reply, calls>>
  BY <1>1 DEF Commit, Took, Goto
<1>3. /\ owner' \in [Nodes \cup Strings -> Clients \cup {Nobody, Orphan}]
      /\ \A d \in Clients, r \in Nodes \cup Strings : owner'[r] = d <=> owner[r] = d /\ d # c
  <2>1. TypeOK /\ owner' = Ended(c)
    BY <1>1, <1>2
  <2>2. Ends(c)
    BY <2>1 DEF Ends
  <2>3. GivenUp(c)
    BY <2>1, <2>2, RowsEnded
  <2> QED
    BY <2>3 DEF GivenUp
<1>4. /\ kv' = Written(kv, kv, op[c]) /\ op[c] \in Operations /\ IsStore(kv)
      /\ op[c].do = "meta" => Has(kv, op[c].node)
  BY Commits
<1>5. /\ IsStore(kv')
      /\ \A n \in Nodes : Has(kv', n) => Has(kv, n) \/ (op[c].do = "put" /\ n = op[c].node)
  BY <1>4, WrittenKeeps, Payloads
<1>6. Sound(c)'
  <2>1. pc'[c] \in {"answer", "broken"} /\ saw'[c] = "done"
    BY <1>1, <1>2 DEF TypeOK
  <2>2. \A row \in Nodes \cup Strings : owner'[row] # c
    BY <1>3
  <2> QED
    BY <2>1, <2>2, OverSound
<1>7. TypeOK'
  <2>1. \A d \in Clients : pc[d] \notin InTransaction => \A row \in Nodes \cup Strings : owner[row] # d
    BY <1>1 DEF TypeOK
  <2>2. \A d \in Clients : pc'[d] \notin InTransaction => \A row \in Nodes \cup Strings : owner'[row] # d
    BY <1>1, <1>2, <1>3, <2>1 DEF TypeOK
  <2>3. pc' \in [Clients -> InTransaction \cup {"idle", "answer", "broken"}]
    BY <1>1, <1>2 DEF TypeOK
  <2>4. \A d \in Clients : op'[d] \in Operations \/ (op'[d] = NoOperation /\ pc'[d] = "idle")
    BY <1>1, <1>2, <1>4 DEF TypeOK
  <2> QED
    BY <1>1, <1>2, <1>3, <1>5, <2>2, <2>3, <2>4 DEF TypeOK
<1>8. PayloadsWhole'
  <2>1. \A s \in Referenced' : s \in Referenced \/ (op[c].do = "put" /\ s \in Range(Interned[op[c].node]))
    BY <1>5 DEF Referenced
  <2>2. Referenced \subseteq blobs
    BY DEF IInv, PayloadsWhole
  <2>3. ASSUME op[c].do = "put" PROVE Range(Interned[op[c].node]) \subseteq blobs'
    <3>1. Interned[op[c].node] \in Seq(Strings) /\ Through(c) = Len(Interned[op[c].node])
      BY <1>1, <1>4, <2>3, Kinds, Payloads DEF Through
    <3>2. \A i \in 1 .. Through(c) :
            Interned[op[c].node][i] \in blobs \/ owner[Interned[op[c].node][i]] = c
      BY <1>1, <2>3 DEF Sound, Walks, Puts, InTransaction
    <3>3. \A i \in 1 .. Len(Interned[op[c].node]) : Interned[op[c].node][i] \in blobs'
      <4>1. DOMAIN owner = Nodes \cup Strings
        BY <1>1 DEF TypeOK
      <4>2. \A i \in 1 .. Len(Interned[op[c].node]) : Interned[op[c].node][i] \in Strings
        BY <3>1
      <4> QED
        BY <1>2, <3>1, <3>2, <4>1, <4>2 DEF Mine
    <3> QED
      BY <3>1, <3>3 DEF Range
  <2> QED
    BY <1>2, <2>1, <2>2, <2>3 DEF PayloadsWhole
<1> QED
  BY <1>6, <1>7, <1>8

(* The steps that end a call without an effect.                            *)
LEMMA EndSound ==
  ASSUME Allowed, IInv, NEW c \in Clients, Return(c) \/ Break(c) \/ Abort(c)
  PROVE  Sound(c)' /\ TypeOK'
<1>1. TypeOK /\ Sound(c)
  BY DEF IInv
<1>2. \A d \in Clients : pc[d] \notin InTransaction => \A row \in Nodes \cup Strings : owner[row] # d
  BY <1>1 DEF TypeOK
<1>3. CASE Return(c)
  <2>1. /\ pc[c] \in {"answer", "broken"} /\ pc' = [pc EXCEPT ![c] = "idle"]
        /\ op' = [op EXCEPT ![c] = NoOperation] /\ left' = [left EXCEPT ![c] = <<>>]
        /\ seen' = [seen EXCEPT ![c] = Empty]
        /\ reply' = [reply EXCEPT ![c] = IF pc[c] = "answer" THEN saw[c] ELSE "error"]
        /\ UNCHANGED <<kv, blobs, owner, effects, saw, calls>>
    BY <1>3 DEF Return, Goto, history
  <2>2. \A row \in Nodes \cup Strings : owner'[row] # c
    BY <1>2, <2>1 DEF InTransaction
  <2>3. pc'[c] = "idle" /\ op'[c] = NoOperation
    BY <1>1, <2>1 DEF TypeOK
  <2>4. DOMAIN seen' = Clients /\ \A d \in Clients : IsStore(seen'[d])
    <3>1. IsStore(Empty)
      BY DEF IsStore, Empty
    <3> QED
      BY <1>1, <2>1, <3>1 DEF TypeOK
  <2>5. /\ op' \in [Clients -> Operations \cup {NoOperation}] /\ left' \in [Clients -> Seq(Strings)]
        /\ reply' \in [Clients -> {"none", "done", "refused", "error"}]
        /\ pc' \in [Clients -> InTransaction \cup {"idle", "answer", "broken"}]
    BY <1>1, <2>1 DEF TypeOK
  <2>6. TypeOK'
    BY <1>1, <1>2, <2>1, <2>2, <2>4, <2>5 DEF TypeOK
  <2> QED
    BY <2>2, <2>3, <2>6, OverSound
<1>4. CASE Break(c) \/ Abort(c)
  <2>1. /\ pc' = [pc EXCEPT ![c] = "broken"]
        /\ UNCHANGED <<kv, blobs, op, left, seen, reply, effects, saw, calls>>
    BY <1>4 DEF Break, Abort, Goto, history
  <2>2. /\ owner' \in [Nodes \cup Strings -> Clients \cup {Nobody, Orphan}]
        /\ \A d \in Clients, r \in Nodes \cup Strings : owner'[r] = d => owner[r] = d /\ d # c
    <3>1. CASE Abort(c)
      BY <1>1, <3>1, Rows DEF Abort
    <3>2. CASE Break(c)
      BY <1>1, <3>2 DEF Break, TypeOK, Allowed
    <3> QED
      BY <1>4, <3>1, <3>2
  <2>3. pc[c] # "idle"
    <3>1. CASE Break(c)
      BY <3>1 DEF Break, InTransaction
    <3>2. CASE Abort(c)
      <4>1. PICK S \in Circles : c \in S
        BY <3>2 DEF Abort
      <4>2. WaitsFor(c) # {}
        BY <4>1 DEF Circles
      <4> QED
        BY <4>2 DEF WaitsFor, Wanted
    <3> QED
      BY <1>4, <3>1, <3>2
  <2>4. op[c] \in Operations /\ pc'[c] = "broken"
    BY <1>1, <2>1, <2>3 DEF TypeOK
  <2>5. Sound(c)'
    BY <2>2, <2>4, OverSound
  <2>6. \A d \in Clients : op'[d] \in Operations \/ (op'[d] = NoOperation /\ pc'[d] = "idle")
    BY <1>1, <2>1, <2>4 DEF TypeOK
  <2>7. \A d \in Clients : pc'[d] \notin InTransaction => \A row \in Nodes \cup Strings : owner'[row] # d
    BY <1>1, <1>2, <2>1, <2>2 DEF TypeOK
  <2>8. pc' \in [Clients -> InTransaction \cup {"idle", "answer", "broken"}]
    BY <1>1, <2>1 DEF TypeOK
  <2>9. TypeOK'
    BY <1>1, <2>1, <2>2, <2>6, <2>7, <2>8 DEF TypeOK
  <2> QED
    BY <2>5, <2>9
<1> QED
  BY <1>3, <1>4

LEMMA OwnSound ==
  ASSUME Allowed, IInv, NEW c \in Clients, Acts(c)
  PROVE  Sound(c)' /\ TypeOK'
BY CallSound, CheckParentSound, InternSound, InsertNodeSound, LockExistingSound, CommitSound,
   EndSound DEF Acts, Step

(* A collection begins when all are idle, and keeps others from beginning. *)
LEMMA AloneKept ==
  ASSUME Allowed, IInv, NEW c \in Clients, Acts(c)
  PROVE  Alone'
<1>1. TypeOK /\ Alone /\ \A d \in Clients : Placed(d)
  BY DEF IInv, Sound
<1>2. ASSUME NEW o \in Operations, Call(c, o) PROVE Alone'
  <2>1. op' = [op EXCEPT ![c] = o] /\ (o.do = "drop" => AllIdle) /\ ~Collecting
    BY <1>2 DEF Call
  <2>2. \A d \in Clients \ {c} : op[d].do # "drop" /\ (o.do = "drop" => op[d] = NoOperation)
    BY <1>1, <2>1 DEF AllIdle, Collecting, Placed
  <2> QED
    BY <1>1, <2>1, <2>2 DEF Alone, TypeOK
<1>3. CASE Return(c)
  BY <1>1, <1>3 DEF Return, Alone, TypeOK, NoOperation
<1>4. CASE UNCHANGED op
  BY <1>1, <1>4 DEF Alone
<1> QED
  BY <1>2, <1>3, <1>4
     DEF Acts, Step, CheckParent, Intern, InsertNode, LockExisting, Commit, Break, Abort

(* The server frees the rows of clients that are gone, and offline, blobs  *)
(* no payload refers to are collected.                                     *)
LEMMA ServerKeeps ==
  ASSUME Allowed, IInv, ServerNotices \/ Compact \/ UNCHANGED vars
  PROVE  IInv'
<1>1. TypeOK /\ Alone /\ PayloadsWhole /\ \A d \in Clients : Sound(d)
  BY DEF IInv
<1>2. CASE ServerNotices \/ UNCHANGED vars
  <2>1. /\ UNCHANGED <<kv, blobs, pc, op, left, seen, reply, effects, saw, calls>>
        /\ owner' \in [Nodes \cup Strings -> Clients \cup {Nobody, Orphan}]
        /\ \A d \in Clients, row \in Nodes \cup Strings : owner'[row] = d <=> owner[row] = d
    BY <1>1, <1>2 DEF ServerNotices, vars, history, TypeOK, Allowed
  <2>2. TypeOK'
    <3>1. \A d \in Clients : pc[d] \notin InTransaction => \A row \in Nodes \cup Strings : owner[row] # d
      BY <1>1 DEF TypeOK
    <3>2. \A d \in Clients : pc[d] \notin InTransaction => \A row \in Nodes \cup Strings : owner'[row] # d
      BY <2>1, <3>1
    <3> QED
      BY <1>1, <2>1, <3>2 DEF TypeOK
  <2>3. ASSUME NEW d \in Clients PROVE Sound(d)'
    <3>1. Placed(d)'
      BY <1>1, <2>1 DEF Sound, Placed, Puts
    <3>2. op[d].do \in {"put", "meta"} => op[d].node \in Nodes /\ op[d] \in Operations
      BY <1>1, Targets DEF NoOperation
    <3>3. Finds(d)'
      BY <1>1, <2>1, <3>2 DEF Sound, Finds, Puts
    <3>4. Through(d)' = Through(d)
      BY <2>1 DEF Through
    <3>5. Walks(d)'
      <4> SUFFICES ASSUME pc[d] \in InTransaction, Puts(d) PROVE Walks(d)'
        BY <2>1 DEF Walks, Puts
      <4>1. Through(d) \in Nat /\ left[d] \in Seq(Strings)
        BY <1>1 DEF Sound, Walks, TypeOK
      <4>2. Interned[op[d].node] \in Seq(Strings) /\ Through(d) + Len(left[d]) = Len(Interned[op[d].node])
        BY <3>2, <4>1, Kinds, Payloads DEF Puts, Through
      <4>3. \A i \in 1 .. Through(d) : Interned[op[d].node][i] \in Nodes \cup Strings
        BY <4>1, <4>2
      <4>4. \A i \in 1 .. Through(d) :
              Interned[op[d].node][i] \in blobs \/ owner'[Interned[op[d].node][i]] = d
        BY <1>1, <2>1, <4>3 DEF Sound, Walks
      <4> QED
        BY <1>1, <2>1, <3>4, <4>4 DEF Sound, Walks, Puts
    <3>6. Holds(d)'
      BY <1>1, <2>1, <3>4 DEF Sound, Holds, Puts
    <3> QED
      BY <3>1, <3>3, <3>5, <3>6 DEF Sound
  <2>4. Alone' /\ PayloadsWhole'
    BY <1>1, <2>1 DEF Alone, PayloadsWhole, Referenced
  <2> QED
    BY <2>2, <2>3, <2>4 DEF IInv
<1>3. CASE Compact
  <2>1. /\ UNCHANGED <<kv, owner, pc, op, left, seen, reply, effects, saw, calls>>
        /\ blobs' = blobs \cap Referenced /\ \A d \in Clients : pc[d] = "idle"
    BY <1>3 DEF Compact, history, AllIdle
  <2>2. \A d \in Clients, row \in Nodes \cup Strings : owner[row] # d
    BY <1>1, <2>1 DEF TypeOK, InTransaction
  <2>3. TypeOK'
    BY <1>1, <2>1 DEF TypeOK
  <2>4. \A d \in Clients : Sound(d)'
    BY <1>1, <2>1, <2>2, OverSound DEF Sound, Placed
  <2>5. Alone' /\ PayloadsWhole'
    BY <1>1, <2>1 DEF Alone, PayloadsWhole, Referenced
  <2> QED
    BY <2>3, <2>4, <2>5 DEF IInv
<1> QED
  BY <1>2, <1>3

LEMMA Starts == ASSUME Allowed PROVE Init => IInv
<1> SUFFICES ASSUME Init PROVE IInv
  OBVIOUS
<1> USE DEF Init
<1>1. TypeOK
  BY DEF TypeOK, IsStore, Empty, InTransaction, Allowed
<1>2. \A c \in Clients : Sound(c)
  BY DEF Sound, Placed, Finds, Walks, Holds, InTransaction, Writing, Allowed
<1>3. Alone /\ PayloadsWhole
  BY DEF Alone, PayloadsWhole, Referenced, Has, Empty, NoOperation
<1> QED
  BY <1>1, <1>2, <1>3 DEF IInv

LEMMA Keeps == ASSUME Allowed PROVE IInv /\ [Next]_vars => IInv'
<1> SUFFICES ASSUME IInv, [Next]_vars PROVE IInv'
  OBVIOUS
<1>1. ASSUME NEW c \in Clients, Acts(c) PROVE IInv'
  <2>1. TypeOK' /\ Alone' /\ \A d \in Clients : Sound(d)'
    BY <1>1, OwnSound, OthersSound, AloneKept
  <2>2. PayloadsWhole'
    <3>1. CASE Commit(c)
      BY <3>1, CommitSound
    <3>2. CASE UNCHANGED <<kv, blobs>>
      BY <3>2 DEF IInv, PayloadsWhole, Referenced
    <3> QED
      BY <1>1, <3>1, <3>2
         DEF Acts, Step, Call, CheckParent, Intern, InsertNode, LockExisting, Return, Break, Abort
  <2> QED
    BY <2>1, <2>2 DEF IInv
<1>2. CASE ServerNotices \/ Compact \/ UNCHANGED vars
  BY <1>2, ServerKeeps
<1> QED
  BY <1>1, <1>2 DEF Next, Acts

LEMMA Inductive == ASSUME Allowed PROVE Spec => []IInv
BY Starts, Keeps, PTL DEF Spec

(* The tables, the sessions and the history keep their types, and who is   *)
(* in no transaction holds no row.                                         *)
THEOREM NodeTypes == ASSUME Allowed PROVE Spec => []TypeOK
BY Inductive, PTL DEF IInv

(* Every stored payload can be read back, whichever session inserted its   *)
(* strings, and whether it committed (_intern_payload, compact).           *)
THEOREM PayloadsStayWhole == ASSUME Allowed PROVE Spec => []PayloadsWhole
BY Inductive, PTL DEF IInv

-----------------------------------------------------------------------------
(* Who waits in a circle is held up by a client that waits itself, so not  *)
(* by the holder of a node's row, which is about to commit.  Of two puts   *)
(* of the same payload the one that is further on has been through every   *)
(* string the other holds; so the other holds none, and nobody waits for   *)
(* it.                                                                     *)
LEMMA WaitedFor ==
  ASSUME Allowed, IInv, NEW S \in Circles, NEW c \in S
  PROVE  /\ c \in Clients
         /\ \E d \in S : \E row \in Wanted(d) : owner[row] = c
         /\ \E row \in Wanted(c), d \in S \ {c} : owner[row] = d
<1>1. /\ S \subseteq Clients /\ S = UNION {WaitsFor(x) : x \in S}
      /\ \A x \in S : WaitsFor(x) # {}
  BY DEF Circles
<1>2. PICK d \in S : c \in WaitsFor(d)
  BY <1>1
<1>3. \E row \in Wanted(d) : owner[row] = c
  BY <1>2 DEF WaitsFor
<1>4. PICK e \in WaitsFor(c) : TRUE
  BY <1>1
<1>5. e \in S \ {c} /\ \E row \in Wanted(c) : owner[row] = e
  BY <1>1, <1>4 DEF WaitsFor
<1> QED
  BY <1>1, <1>3, <1>5

LEMMA WaitForStrings ==
  ASSUME Allowed, IInv, NEW S \in Circles, NEW c \in S
  PROVE  Wanted(c) \subseteq Strings /\ pc[c] = "blobs" /\ left[c] # <<>>
<1>1. \A d \in S : d \in Clients /\ Sound(d) /\ TypeOK /\ pc[d] # "commit"
  <2> SUFFICES ASSUME NEW d \in S PROVE d \in Clients /\ Sound(d) /\ TypeOK /\ pc[d] # "commit"
    OBVIOUS
  <2>1. d \in Clients /\ \E row \in Wanted(d), e \in S \ {d} : owner[row] = e
    BY WaitedFor
  <2> QED
    BY <2>1 DEF IInv, Wanted
<1>2. \A d \in S, n \in Nodes : owner[n] # d
  BY <1>1 DEF Sound, Holds
<1>3. PICK row \in Wanted(c), d \in S : owner[row] = d
  BY WaitedFor
<1>4. row \notin Nodes
  BY <1>2, <1>3
<1>5. ~(pc[c] = "blobs" /\ left[c] = <<>>) /\ pc[c] # "existing"
  <2>1. op[c].do \in {"put", "meta"} => op[c].node \in Nodes
    BY <1>1, Targets
  <2>2. pc[c] \in {"blobs", "existing"} => op[c].do \in {"put", "meta"}
    BY <1>1 DEF Sound, Placed, Puts
  <2> QED
    BY <1>3, <1>4, <2>1, <2>2 DEF Wanted
<1>6. pc[c] = "blobs" /\ left[c] # <<>>
  BY <1>3, <1>5 DEF Wanted
<1>7. Wanted(c) \subseteq {Head(left[c])}
  BY <1>6 DEF Wanted
<1>8. Head(left[c]) \in Strings
  BY <1>1, <1>6, Targets
<1> QED
  BY <1>6, <1>7, <1>8

LEMMA NobodyBehind ==
  ASSUME Allowed, IInv, NEW S \in Circles, NEW c \in S, NEW d \in S, c # d,
         op[c].node = op[d].node, Len(left[c]) <= Len(left[d])
  PROVE  FALSE
<1>1. \A x \in {c, d} : /\ x \in Clients /\ Sound(x) /\ TypeOK /\ pc[x] = "blobs" /\ Puts(x)
                        /\ left[x] \in Seq(Strings)
  <2> SUFFICES ASSUME NEW x \in S
               PROVE  /\ x \in Clients /\ Sound(x) /\ TypeOK /\ pc[x] = "blobs" /\ Puts(x)
                      /\ left[x] \in Seq(Strings)
    OBVIOUS
  <2>1. x \in Clients /\ pc[x] = "blobs"
    BY WaitedFor, WaitForStrings
  <2> QED
    BY <2>1 DEF IInv, Sound, Placed, TypeOK
<1>2. PICK e \in S : \E row \in Wanted(e) : owner[row] = d
  BY WaitedFor
<1>3. PICK row \in Wanted(e) : owner[row] = d
  BY <1>2
<1>4. row \in Strings
  BY <1>3, WaitForStrings
<1>5. row \notin blobs /\ \E i \in 1 .. Through(d) : Interned[op[d].node][i] = row
  BY <1>1, <1>3, <1>4 DEF Sound, Holds
<1>6. PICK i \in 1 .. Through(d) : Interned[op[d].node][i] = row
  BY <1>5
<1>7. Through(c) \in Nat /\ Through(d) \in Nat
  BY <1>1 DEF Sound, Walks, InTransaction
<1>8. Through(d) <= Through(c)
  <2>1. op[c] \in Operations /\ op[c].do = "put"
    BY <1>1, Targets DEF Puts
  <2>2. Len(Interned[op[c].node]) \in Nat /\ Len(left[c]) \in Nat /\ Len(left[d]) \in Nat
    BY <1>1, <2>1, Kinds, Payloads
  <2> QED
    BY <2>2 DEF Through
<1>9. i \in 1 .. Through(c)
  BY <1>6, <1>7, <1>8
<1>10. Interned[op[c].node][i] \in blobs \/ owner[Interned[op[c].node][i]] = c
  BY <1>1, <1>9 DEF Sound, Walks, InTransaction
<1> QED
  BY <1>3, <1>5, <1>6, <1>10

(* Only puts of different payloads can deadlock, over strings: neither     *)
(* workers that record the same call, nor a patch with anything            *)
(* (PostgresStore.put, update_meta).                                       *)
THEOREM OnlyPutsCross == ASSUME Allowed PROVE Spec => []DeadlocksCross
<1>1. IInv => DeadlocksCross
  <2> SUFFICES ASSUME IInv, NEW S \in Circles
               PROVE  /\ \A c \in S : Wanted(c) \subseteq Strings
                      /\ \A c, d \in S : c # d => op[c].node # op[d].node
    BY DEF DeadlocksCross
  <2>1. \A c \in S : Wanted(c) \subseteq Strings
    BY WaitForStrings
  <2>2. ASSUME NEW c \in S, NEW d \in S, c # d, op[c].node = op[d].node PROVE FALSE
    <3>1. Len(left[c]) \in Nat /\ Len(left[d]) \in Nat
      <4>1. left[c] \in Seq(Strings) /\ left[d] \in Seq(Strings)
        BY WaitedFor DEF IInv, TypeOK
      <4> QED
        BY <4>1
    <3>2. Len(left[c]) <= Len(left[d]) \/ Len(left[d]) <= Len(left[c])
      BY <3>1
    <3> QED
      BY <2>2, <3>2, NobodyBehind
  <2> QED
    BY <2>1, <2>2
<1> QED
  BY <1>1, Inductive, PTL

-----------------------------------------------------------------------------
(* The refinement: a commit, or a refusal, is the instant at which a call  *)
(* takes effect on the whole store.                                        *)
LEMMA SameOperations ==
  ASSUME NEW store, NEW o
  PROVE  /\ Serial!Refused(store, o) = Refused(store, o)
         /\ Serial!After(store, o) = After(store, o)
         /\ Serial!NoOperation = NoOperation /\ Serial!Empty = Empty
<1>1. /\ Serial!NoOperation = NoOperation /\ Serial!Empty = Empty
      /\ \A s, n : Serial!Has(s, n) = Has(s, n)
  BY DEF Serial!NoOperation, NoOperation, Serial!Empty, Empty, Serial!Has, Has
<1>2. \A old, r : Serial!AddRival(old, r) = AddRival(old, r)
  BY DEF Serial!AddRival, AddRival, Serial!AddRivalAlways, AddRivalAlways,
         Serial!AddRivalOnce, AddRivalOnce, Serial!Range, Range
<1>3. \A n : Serial!NewValue(store, o, n) = NewValue(store, o, n)
  BY <1>1, <1>2 DEF Serial!NewValue, NewValue
<1>4. Serial!Writes(store, o) = Writes(store, o)
  BY <1>3 DEF Serial!Writes, Writes
<1>5. Serial!Written(store, store, o) = Written(store, store, o)
  BY <1>3, <1>4 DEF Serial!Written, Written
<1>6. Serial!Refused(store, o) = Refused(store, o)
  BY <1>1 DEF Serial!Refused, Refused, Serial!Needed, Needed
<1> QED
  BY <1>1, <1>5, <1>6 DEF Serial!After, After

LEMMA EffectsSerial ==
  ASSUME Allowed, IInv, NEW c \in Clients,
         CheckParent(c) \/ LockExisting(c) \/ Commit(c)
  PROVE  [Serial!Next]_(Serial!vars)
<1>1. /\ TypeOK /\ Sound(c) /\ effects[c] = 0 /\ pc[c] \in InTransaction
      /\ op[c] # NoOperation /\ op[c] \in Operations
  <2>1. TypeOK /\ Sound(c) /\ pc[c] \in InTransaction
    BY DEF IInv, CheckParent, LockExisting, Commit, InTransaction
  <2>2. op[c] \in Operations
    BY <2>1, Targets DEF InTransaction
  <2> QED
    BY <2>1, <2>2, Kinds, Payloads DEF Sound, Placed
<1>2. UNCHANGED <<op, reply>>
  BY DEF CheckParent, LockExisting, Commit
<1>3. CASE /\ effects' = [effects EXCEPT ![c] = @ + 1] /\ kv' = After(kv, op[c])
           /\ saw' = [saw EXCEPT ![c] = IF Refused(kv, op[c]) THEN "refused" ELSE "done"]
  <2>1. effects[c] < 1
    BY <1>1
  <2>2. /\ Serial!NoOperation = NoOperation /\ Serial!After(kv, op[c]) = After(kv, op[c])
        /\ Serial!Refused(kv, op[c]) = Refused(kv, op[c])
    BY SameOperations
  <2>3. Serial!Effect(c)
    BY <1>1, <1>2, <1>3, <2>1, <2>2, Zenon DEF Serial!Effect
  <2> QED
    BY <2>3 DEF Serial!Next
<1>4. CASE UNCHANGED <<kv, effects, saw>>
  BY <1>2, <1>4 DEF Serial!vars
<1>5. CASE CheckParent(c)
  BY <1>3, <1>4, <1>5 DEF CheckParent, Took, After
<1>6. CASE LockExisting(c)
  <2>1. ~Has(kv, op[c].node) => Refused(kv, op[c])
    BY <1>1, <1>6 DEF LockExisting, Sound, Placed, Finds, Writing, Puts, Refused, Needed
  <2> QED
    BY <1>3, <1>4, <1>6, <2>1 DEF LockExisting, Took, After
<1>7. CASE Commit(c)
  <2>1. kv' = Written(kv, kv, op[c]) /\ ~Refused(kv, op[c])
    BY <1>7, Commits
  <2> QED
    BY <1>3, <1>7, <2>1 DEF Commit, Took, After
<1> QED
  BY <1>5, <1>6, <1>7

LEMMA ReturnSerial ==
  ASSUME Allowed, IInv, NEW c \in Clients, Return(c)
  PROVE  [Serial!Next]_(Serial!vars)
<1>1. TypeOK /\ Sound(c) /\ pc[c] \in {"answer", "broken"}
  BY DEF IInv, Return
<1>2. op[c] # NoOperation
  BY <1>1, Targets, Kinds, Payloads
<1>3. (IF pc[c] = "answer" THEN saw[c] ELSE "error") \in {saw[c], "error"} \ {"none"}
  BY <1>1 DEF Sound, Placed
<1>4. /\ op' = [op EXCEPT ![c] = NoOperation] /\ UNCHANGED <<kv, effects, saw>>
      /\ reply' = [reply EXCEPT ![c] = IF pc[c] = "answer" THEN saw[c] ELSE "error"]
  BY DEF Return, history
<1>5. Serial!Return(c)
  BY <1>2, <1>3, <1>4, SameOperations DEF Serial!Return
<1> QED
  BY <1>5 DEF Serial!Next

LEMMA StepSerial == ASSUME Allowed PROVE IInv /\ [Next]_vars => [Serial!Next]_(Serial!vars)
<1> SUFFICES ASSUME IInv, [Next]_vars PROVE [Serial!Next]_(Serial!vars)
  OBVIOUS
<1>1. ASSUME NEW c \in Clients, NEW o \in Operations, Call(c, o)
      PROVE  [Serial!Next]_(Serial!vars)
  <2>1. op[c] = NoOperation
    BY <1>1 DEF Call, IInv, Sound, Placed
  <2>2. Serial!Call(c, o)
    BY <1>1, <2>1, SameOperations DEF Call, Serial!Call
  <2> QED
    BY <2>2 DEF Serial!Next
<1>2. ASSUME NEW c \in Clients, CheckParent(c) \/ LockExisting(c) \/ Commit(c) \/ Return(c)
      PROVE  [Serial!Next]_(Serial!vars)
  BY <1>2, EffectsSerial, ReturnSerial
<1>3. ASSUME NEW c \in Clients, Intern(c) \/ InsertNode(c) \/ Break(c) \/ Abort(c)
      PROVE  UNCHANGED <<kv, op, effects, saw, reply>>
  BY <1>3 DEF Intern, InsertNode, Break, Abort, history
<1>4. CASE ServerNotices \/ Compact \/ UNCHANGED vars
  BY <1>4 DEF ServerNotices, Compact, vars, history, Serial!vars
<1> QED
  BY <1>1, <1>2, <1>3, <1>4 DEF Next, Step, Serial!vars

(* Every put and patch takes effect on the whole store at one instant      *)
(* between its beginning and its end, or not at all: no rival, no patch    *)
(* and no child is lost between sessions (PostgresStore.put, update_meta,  *)
(* _handle_existing_locked).                                               *)
THEOREM NodesSerial == ASSUME Allowed PROVE Spec => Serial!Spec
<1>1. Init => Serial!Init
  BY SameOperations DEF Init, Serial!Init
<1> QED
  BY <1>1, StepSerial, Inductive, PTL DEF Spec, Serial!Spec
-----------------------------------------------------------------------------
(* Reading record after record.                                            *)

(* What a client has read of what its operation reads.                     *)
Knows(c) == \A n \in Range(Reads(op[c])) \ Range(left[c]) :
  seen[c][n] = kv[n] /\ (n \in Needed(op[c]) => Has(kv, n))

LEMMA ReadsAll ==
  ASSUME ConstantsFit(Operations), NEW o \in Operations
  PROVE  /\ Reads(o) \in Seq(Nodes) /\ Needed(o) \subseteq Range(Reads(o))
         /\ o.do \in {"put", "meta"} => o.node \in Range(Reads(o))
<1> DEFINE r == Reads(o)
<1>1. CASE o.do = "put" /\ Parent[o.node] # o.node
  <2>1. r = <<Parent[o.node], o.node>> /\ r[1] = Parent[o.node] /\ r[2] = o.node
        /\ DOMAIN r = {1, 2} /\ Needed(o) = {Parent[o.node]}
    BY <1>1 DEF Reads, Needed
  <2>2. Parent[o.node] \in Nodes /\ o.node \in Nodes
    BY <1>1, Kinds
  <2> QED
    BY <1>1, <2>1, <2>2 DEF Range
<1>2. CASE o.do \in {"put", "meta"} /\ ~(o.do = "put" /\ Parent[o.node] # o.node)
  <2>1. r = <<o.node>> /\ r[1] = o.node /\ DOMAIN r = {1} /\ Needed(o) \subseteq {o.node}
    BY <1>2 DEF Reads, Needed
  <2>2. o.node \in Nodes
    BY <1>2, Kinds
  <2> QED
    BY <1>2, <2>1, <2>2 DEF Range
<1>3. CASE o.do = "drop"
  BY <1>3 DEF Reads, Needed, Range
<1> QED
  BY <1>1, <1>2, <1>3, Kinds

LEMMA ReadNext ==
  ASSUME NEW s \in Seq(Nodes), s # <<>>
  PROVE  /\ Head(s) \in Nodes /\ Tail(s) \in Seq(Nodes)
         /\ Range(s) \subseteq Range(Tail(s)) \cup {Head(s)}
<1>1. ASSUME NEW i \in DOMAIN s, i # 1 PROVE s[i] \in Range(Tail(s))
  <2>1. i - 1 \in DOMAIN Tail(s) /\ Tail(s)[i - 1] = s[i]
    BY <1>1
  <2> QED
    BY <2>1 DEF Range
<1>2. Head(s) = s[1] /\ Head(s) \in Nodes /\ Tail(s) \in Seq(Nodes)
  OBVIOUS
<1> QED
  BY <1>1, <1>2 DEF Range

(* An operation that knows all it reads is not refused and writes what it  *)
(* should.                                                                 *)
LEMMA KnowsAll ==
  ASSUME ConstantsFit(Operations), NEW o \in Operations, NEW store, NEW read,
         \A n \in Range(Reads(o)) :
           read[n] = store[n] /\ (n \in Needed(o) => Has(store, n))
  PROVE  ~Refused(store, o) /\ Written(store, read, o) = Written(store, store, o)
<1>1. ~Refused(store, o)
  BY ReadsAll DEF Refused
<1>2. o.do = "drop" \/ read[o.node] = store[o.node]
  BY ReadsAll, Kinds
<1> QED
  BY <1>1, <1>2, SameWritten

LEMMA KnowsMore ==
  ASSUME ConstantsFit(Operations), NEW c \in Clients, op[c] \in Operations, Knows(c),
         left[c] \in Seq(Nodes), left[c] # <<>>, DOMAIN seen = Clients, DOMAIN seen[c] = Nodes,
         Head(left[c]) \in Needed(op[c]) => Has(kv, Head(left[c])),
         seen' = [seen EXCEPT ![c][Head(left[c])] = kv[Head(left[c])]],
         left'[c] = Tail(left[c]), UNCHANGED <<kv, op>>
  PROVE  Knows(c)'
<1> DEFINE n == Head(left[c])
<1>1. n \in Nodes /\ Range(left[c]) \subseteq Range(Tail(left[c])) \cup {n}
  BY ReadNext
<1>2. \A m \in Nodes : seen'[c][m] = IF m = n THEN kv[n] ELSE seen[c][m]
  BY <1>1
<1>3. Range(Reads(op[c])) \subseteq Nodes
  <2>1. Reads(op[c]) \in Seq(Nodes)
    BY ReadsAll
  <2> QED
    BY <2>1 DEF Range
<1> SUFFICES ASSUME NEW m \in Range(Reads(op[c])) \ Range(left'[c])
             PROVE  seen'[c][m] = kv[m] /\ (m \in Needed(op[c]) => Has(kv, m))
  BY DEF Knows, Has
<1>4. m = n \/ m \notin Range(left[c])
  BY <1>1
<1> QED
  BY <1>2, <1>3, <1>4 DEF Knows

(* What a client knows stands while nobody changes a record.               *)
LEMMA KnowsStill ==
  ASSUME ConstantsFit(Operations), NEW c \in Clients, op[c] \in Operations, Knows(c),
         \A n \in Nodes : kv'[n] = kv[n],
         op'[c] = op[c], left'[c] = left[c], seen'[c] = seen[c]
  PROVE  Knows(c)'
<1>1. Reads(op[c]) \in Seq(Nodes)
  BY ReadsAll
<1>2. Range(Reads(op[c])) \subseteq Nodes
  BY <1>1 DEF Range
<1> QED
  BY <1>2 DEF Knows, Has

-----------------------------------------------------------------------------
(* Redis.  A revision that nobody has touched since a client watched it    *)
(* vouches for every record the client has read (RedisReads): whatever     *)
(* changes a record changes the revision as well, and whoever does finds   *)
(* the client watching.                                                    *)
CONSTANT WatchRetries
VARIABLES identity, touched, tries, again, fresh
Redis == INSTANCE RedisTransactions

RedisAllowed == ConstantsFit(Operations) /\ WatchRetries \in Nat \ {0} /\ MaxCalls \in Nat

(* A call takes effect once per connection.                                *)
Before(c) == IF again[c] THEN 1 ELSE 0
RedisPlaced(c) ==
  /\ pc[c] \in {"closed", "open", "idle"} => op[c] = NoOperation
  /\ pc[c] \in {"watch", "read"} => effects[c] <= Before(c)
  /\ pc[c] \in {"answer", "lost"} => effects[c] <= Before(c) + 1
  /\ pc[c] = "answer" => saw[c] \in {"done", "refused"}

RedisReads(c) == pc[c] = "read" /\ c \notin touched => revision # 0 /\ Knows(c)

RedisInv == Redis!TypeOK /\ \A c \in Clients : RedisPlaced(c) /\ RedisReads(c)

(* The module's operators are those above, and so are its promise's.       *)
LEMMA RedisSame ==
  ASSUME NEW store, NEW read, NEW o
  PROVE  /\ Redis!NoOperation = NoOperation /\ Redis!Empty = Empty
         /\ Redis!IsStore(store) = IsStore(store)
         /\ \A n : Redis!Has(store, n) = Has(store, n)
         /\ Redis!Reads(o) = Reads(o) /\ Redis!Needed(o) = Needed(o)
         /\ Redis!Writes(read, o) = Writes(read, o)
         /\ Redis!Written(store, read, o) = Written(store, read, o)
<1>1. /\ Redis!NoOperation = NoOperation /\ Redis!Empty = Empty
      /\ Redis!IsStore(store) = IsStore(store)
      /\ \A s, n : Redis!Has(s, n) = Has(s, n)
      /\ Redis!Reads(o) = Reads(o) /\ Redis!Needed(o) = Needed(o)
  BY DEF Redis!NoOperation, NoOperation, Redis!Empty, Empty, Redis!IsStore, IsStore,
         Redis!Has, Has, Redis!Reads, Reads, Redis!Needed, Needed
<1>2. \A old, r : Redis!AddRival(old, r) = AddRival(old, r)
  BY DEF Redis!AddRival, AddRival, Redis!AddRivalAlways, AddRivalAlways,
         Redis!AddRivalOnce, AddRivalOnce, Redis!Range, Range
<1>3. \A n : Redis!NewValue(read, o, n) = NewValue(read, o, n)
  BY <1>1, <1>2 DEF Redis!NewValue, NewValue
<1>4. Redis!Writes(read, o) = Writes(read, o)
  BY <1>3 DEF Redis!Writes, Writes
<1>5. Redis!Written(store, read, o) = Written(store, read, o)
  BY <1>3, <1>4 DEF Redis!Written, Written
<1> QED
  BY <1>1, <1>4, <1>5

LEMMA RedisSerialSame ==
  ASSUME NEW store, NEW o
  PROVE  /\ Redis!Serial!Refused(store, o) = Refused(store, o)
         /\ Redis!Serial!After(store, o) = After(store, o)
         /\ Redis!Serial!NoOperation = NoOperation /\ Redis!Serial!Empty = Empty
<1>1. /\ Redis!Serial!NoOperation = NoOperation /\ Redis!Serial!Empty = Empty
      /\ \A s, n : Redis!Serial!Has(s, n) = Has(s, n)
  BY DEF Redis!Serial!NoOperation, NoOperation, Redis!Serial!Empty, Empty,
         Redis!Serial!Has, Has
<1>2. \A old, r : Redis!Serial!AddRival(old, r) = AddRival(old, r)
  BY DEF Redis!Serial!AddRival, AddRival, Redis!Serial!AddRivalAlways, AddRivalAlways,
         Redis!Serial!AddRivalOnce, AddRivalOnce, Redis!Serial!Range, Range
<1>3. \A n : Redis!Serial!NewValue(store, o, n) = NewValue(store, o, n)
  BY <1>1, <1>2 DEF Redis!Serial!NewValue, NewValue
<1>4. Redis!Serial!Writes(store, o) = Writes(store, o)
  BY <1>3 DEF Redis!Serial!Writes, Writes
<1>5. Redis!Serial!Written(store, store, o) = Written(store, store, o)
  BY <1>3, <1>4 DEF Redis!Serial!Written, Written
<1>6. Redis!Serial!Refused(store, o) = Refused(store, o)
  BY <1>1 DEF Redis!Serial!Refused, Refused, Redis!Serial!Needed, Needed
<1> QED
  BY <1>1, <1>5, <1>6 DEF Redis!Serial!After, After

RedisActs(c) ==
  \/ Redis!OpenWatch(c) \/ Redis!OpenExecute(c) \/ (\E o \in Operations : Redis!Call(c, o))
  \/ Redis!Watch(c) \/ Redis!Read(c) \/ Redis!Execute(c) \/ Redis!Answer(c)
  \/ Redis!Retry(c) \/ Redis!Disconnect(c) \/ Redis!Reconnect(c)

LEMMA RedisTargets ==
  ASSUME RedisAllowed, RedisInv, NEW c \in Clients
  PROVE  /\ op[c] = NoOperation <=> pc[c] \in {"closed", "open", "idle"}
         /\ op[c] # NoOperation => op[c] \in Operations
<1>1. op[c] \in Operations \/ (op[c] = NoOperation /\ pc[c] \in {"closed", "open", "idle"})
  BY RedisSame DEF RedisInv, Redis!TypeOK
<1>2. pc[c] \in {"closed", "open", "idle"} => op[c] = NoOperation
  BY DEF RedisInv, RedisPlaced
<1>3. op[c] \in Operations => op[c] # NoOperation
  BY Kinds DEF RedisAllowed
<1> QED
  BY <1>1, <1>2, <1>3

(* An execution by a client nobody has got in the way of.                  *)
LEMMA RedisExecutes ==
  ASSUME RedisAllowed, RedisInv, NEW c \in Clients, Redis!Execute(c)
  PROVE  /\ ~Refused(kv, op[c]) /\ kv' = Written(kv, kv, op[c]) /\ IsStore(kv')
         /\ revision # 0
         /\ \/ revision' = revision + 1 /\ Redis!Watching \subseteq touched'
            \/ revision' = revision /\ touched' = touched /\ \A n \in Nodes : kv'[n] = kv[n]
<1>1. /\ pc[c] = "read" /\ left[c] = <<>> /\ c \notin touched
      /\ kv' = Written(kv, seen[c], op[c])
      /\ IF Writes(seen[c], op[c]) # {} THEN revision' = revision + 1 /\ Redis!TouchKey
         ELSE UNCHANGED <<revision, touched>>
  BY RedisSame DEF Redis!Execute, Redis!Conflict
<1>2. op[c] \in Operations /\ ConstantsFit(Operations)
  BY <1>1, RedisTargets DEF RedisAllowed
<1>3. Range(left[c]) = {}
  BY <1>1 DEF Range
<1>4. revision # 0 /\ Knows(c)
  BY <1>1 DEF RedisInv, RedisReads
<1>5. ~Refused(kv, op[c]) /\ Written(kv, seen[c], op[c]) = Written(kv, kv, op[c])
  <2>1. \A n \in Range(Reads(op[c])) :
          seen[c][n] = kv[n] /\ (n \in Needed(op[c]) => Has(kv, n))
    BY <1>3, <1>4 DEF Knows
  <2> QED
    BY <1>2, <2>1, KnowsAll
<1>6. IsStore(kv')
  <2>1. op[c].do = "meta" => Has(kv, op[c].node)
    BY <1>5 DEF Refused, Needed
  <2>2. IsStore(kv)
    BY RedisSame DEF RedisInv, Redis!TypeOK
  <2> QED
    BY <1>1, <1>2, <1>5, <2>1, <2>2, WrittenKeeps
<1>7. CASE Writes(seen[c], op[c]) # {}
  <2>1. revision' = revision + 1 /\ touched' = touched \cup Redis!Watching
    BY <1>1, <1>7 DEF Redis!TouchKey
  <2>2. Redis!Watching \subseteq touched'
    BY <2>1
  <2> QED
    BY <1>1, <1>4, <1>5, <1>6, <2>1, <2>2
<1>8. CASE Writes(seen[c], op[c]) = {}
  <2>1. \A n \in Nodes : kv'[n] = kv[n]
    BY <1>1, <1>8 DEF Written
  <2> QED
    BY <1>1, <1>4, <1>5, <1>6, <1>8, <2>1
<1> QED
  BY <1>7, <1>8

(* What the others have read stands, or they will find out.                *)
LEMMA RedisOthers ==
  ASSUME RedisAllowed, RedisInv, NEW c \in Clients, RedisActs(c), NEW d \in Clients, d # c
  PROVE  RedisPlaced(d)' /\ RedisReads(d)'
<1> USE RedisSame DEF RedisInv, Redis!TypeOK
<1>1. /\ pc'[d] = pc[d] /\ op'[d] = op[d] /\ left'[d] = left[d] /\ seen'[d] = seen[d]
      /\ again'[d] = again[d] /\ effects'[d] = effects[d] /\ saw'[d] = saw[d]
  <2>1. CASE Redis!OpenWatch(c) \/ Redis!OpenExecute(c)
    BY <2>1 DEF Redis!OpenWatch, Redis!OpenExecute, Redis!Goto, Redis!history
  <2>2. CASE \E o \in Operations : Redis!Call(c, o)
    BY <2>2 DEF Redis!Call, Redis!Goto
  <2>3. CASE Redis!Watch(c) \/ Redis!Answer(c) \/ Redis!Retry(c) \/ Redis!Reconnect(c)
    BY <2>3 DEF Redis!Watch, Redis!Answer, Redis!Retry, Redis!Reconnect, Redis!Return, Redis!Goto,
                Redis!Forget, Redis!history
  <2>4. CASE Redis!Read(c)
    BY <2>4 DEF Redis!Read, Redis!Goto, Redis!Forget
  <2>5. CASE Redis!Execute(c) \/ Redis!Disconnect(c)
    BY <2>5 DEF Redis!Execute, Redis!Disconnect, Redis!Goto, Redis!Forget, Redis!history
  <2> QED
    BY <2>1, <2>2, <2>3, <2>4, <2>5 DEF RedisActs
<1>2. d \notin touched' /\ pc[d] = "read" =>
        d \notin touched /\ (revision # 0 => revision' # 0) /\ \A n \in Nodes : kv'[n] = kv[n]
  <2>1. CASE Redis!Execute(c)
    BY <2>1, RedisExecutes DEF Redis!Watching
  <2>2. CASE Redis!OpenExecute(c)
    BY <2>2 DEF Redis!OpenExecute, Redis!TouchKey, Redis!Watching
  <2>3. CASE UNCHANGED <<kv, revision>> /\ touched \subseteq touched' \cup {c}
    BY <2>3
  <2>4. CASE Redis!OpenWatch(c) \/ Redis!Watch(c)
    BY <2>3, <2>4 DEF Redis!OpenWatch, Redis!Watch, Redis!WatchKey, Redis!history
  <2>5. CASE \E o \in Operations : Redis!Call(c, o)
    BY <2>3, <2>5 DEF Redis!Call, Redis!server
  <2>6. CASE Redis!Read(c) \/ Redis!Answer(c) \/ Redis!Retry(c) \/ Redis!Disconnect(c) \/ Redis!Reconnect(c)
    BY <2>3, <2>6 DEF Redis!Read, Redis!Answer, Redis!Retry, Redis!Disconnect, Redis!Reconnect, Redis!server
  <2> QED
    BY <2>1, <2>2, <2>4, <2>5, <2>6 DEF RedisActs
<1>3. RedisPlaced(d)'
  BY <1>1 DEF RedisPlaced, Before
<1>4. RedisReads(d)'
  <2> SUFFICES ASSUME pc'[d] = "read", d \notin touched' PROVE revision' # 0 /\ Knows(d)'
    BY DEF RedisReads
  <2>1. revision # 0 /\ Knows(d)
    BY <1>1, <1>2 DEF RedisReads
  <2>2. \A n \in Nodes : kv'[n] = kv[n]
    BY <1>1, <1>2
  <2>3. op[d] \in Operations /\ ConstantsFit(Operations)
    BY <1>1, RedisTargets DEF RedisAllowed
  <2>4. Knows(d)'
    BY <1>1, <2>1, <2>2, <2>3, KnowsStill
  <2> QED
    BY <1>1, <1>2, <2>1, <2>4
<1> QED
  BY <1>3, <1>4

(* What a client knows of itself after a step of its own.                  *)
LEMMA RedisOwn ==
  ASSUME RedisAllowed, RedisInv, NEW c \in Clients, RedisActs(c)
  PROVE  RedisPlaced(c)' /\ RedisReads(c)'
<1>1. /\ pc \in [Clients -> {"closed", "open", "idle", "watch", "read", "answer", "lost"}]
      /\ op \in [Clients -> Operations \cup {NoOperation}]
      /\ left \in [Clients -> Seq(Nodes)] /\ DOMAIN seen = Clients
      /\ again \in [Clients -> BOOLEAN] /\ effects \in [Clients -> 0 .. 2]
      /\ saw \in [Clients -> {"none", "done", "refused"}]
      /\ DOMAIN seen[c] = Nodes /\ DOMAIN kv = Nodes
  <2>1. Redis!NoOperation = NoOperation /\ Redis!IsStore(kv) = IsStore(kv) /\ Redis!IsStore(seen[c]) = IsStore(seen[c])
    BY RedisSame
  <2>2. Redis!IsStore(kv) /\ Redis!IsStore(seen[c])
    BY DEF RedisInv, Redis!TypeOK
  <2>3. DOMAIN seen[c] = Nodes /\ DOMAIN kv = Nodes
    BY <2>1, <2>2 DEF IsStore
  <2> QED
    BY <2>1, <2>3 DEF RedisInv, Redis!TypeOK
<1>2. RedisPlaced(c) /\ RedisReads(c) /\ effects[c] \in Nat
  <2>1. RedisPlaced(c) /\ RedisReads(c)
    BY DEF RedisInv
  <2>2. effects \in [Clients -> 0 .. 2]
    BY <1>1
  <2>3. effects[c] \in 0 .. 2
    BY <2>2
  <2>4. effects[c] \in Nat
    BY <2>3
  <2> QED
    BY <2>1, <2>4
<1>3. CASE Redis!OpenWatch(c) \/ Redis!OpenExecute(c)
  <2>1. pc'[c] \in {"closed", "open", "idle"} /\ UNCHANGED op /\ pc[c] \in {"closed", "open"}
    BY <1>1, <1>3 DEF Redis!OpenWatch, Redis!OpenExecute, Redis!Goto
  <2> QED
    BY <1>2, <2>1 DEF RedisPlaced, RedisReads
<1>4. CASE \E o \in Operations : Redis!Call(c, o)
  <2>1. pc'[c] = "watch" /\ effects'[c] = 0
    BY <1>1, <1>4 DEF Redis!Call, Redis!Goto
  <2> QED
    BY <1>1, <2>1 DEF RedisPlaced, RedisReads, Before
<1>5. CASE pc'[c] = "idle" /\ op'[c] = NoOperation
  BY <1>5 DEF RedisPlaced, RedisReads
<1>6. CASE Redis!Watch(c)
  <2>1. CASE Redis!RevisionValid
    <3>1. /\ pc'[c] = "read" /\ left'[c] = Reads(op[c]) /\ revision' # 0
          /\ UNCHANGED <<op, again, effects, saw>> /\ pc[c] = "watch"
      BY <1>1, <1>6, <2>1, RedisSame DEF Redis!Watch, Redis!Goto, Redis!RevisionValid, Redis!history
    <3>2. Knows(c)'
      BY <3>1 DEF Knows
    <3> QED
      BY <1>2, <3>1, <3>2 DEF RedisPlaced, RedisReads, Before
  <2>2. CASE ~Redis!RevisionValid
    BY <1>1, <1>5, <1>6, <2>2, RedisSame DEF Redis!Watch, Redis!Return, Redis!Goto
  <2> QED
    BY <2>1, <2>2
<1>7. CASE Redis!Read(c)
  <2>1. /\ pc[c] = "read" /\ left[c] # <<>> /\ op[c] \in Operations
        /\ UNCHANGED <<kv, revision, touched, op, again>>
        /\ left[c] \in Seq(Nodes)
    BY <1>1, <1>7, RedisTargets DEF Redis!Read, Redis!server
  <2> DEFINE n == Head(left[c])
  <2>4. Redis!Needed(op[c]) = Needed(op[c]) /\ Redis!Has(kv, n) = Has(kv, n)
    BY RedisSame
  <2>5. IF n \in Needed(op[c]) /\ ~Has(kv, n)
        THEN /\ Redis!Goto(c, "answer") /\ effects' = [effects EXCEPT ![c] = @ + 1]
             /\ saw' = [saw EXCEPT ![c] = "refused"]
        ELSE /\ seen' = [seen EXCEPT ![c][n] = kv[n]] /\ left' = [left EXCEPT ![c] = Tail(@)]
             /\ UNCHANGED <<pc, effects, saw>>
    BY <1>7, <2>4 DEF Redis!Read
  <2> HIDE DEF n
  <2>2. CASE n \in Needed(op[c]) /\ ~Has(kv, n)
    <3>1. pc'[c] = "answer" /\ effects'[c] = effects[c] + 1 /\ saw'[c] = "refused"
      BY <1>1, <2>2, <2>5 DEF Redis!Goto
    <3> QED
      BY <1>2, <2>1, <3>1 DEF RedisPlaced, RedisReads, Before
  <2>3. CASE ~(n \in Needed(op[c]) /\ ~Has(kv, n))
    <3>1. /\ seen' = [seen EXCEPT ![c][n] = kv[n]] /\ left'[c] = Tail(left[c])
          /\ UNCHANGED <<pc, effects, saw>>
      BY <1>1, <2>3, <2>5
    <3>2. Knows(c) => Knows(c)'
      BY <1>1, <2>1, <2>3, <3>1, KnowsMore DEF RedisAllowed, n
    <3> QED
      BY <1>2, <2>1, <3>1, <3>2 DEF RedisPlaced, RedisReads, Before
  <2> QED
    BY <2>2, <2>3
<1>8. CASE Redis!Execute(c)
  <2>1. /\ pc'[c] \in {"answer", "lost"} /\ saw'[c] = "done" /\ effects'[c] = effects[c] + 1
        /\ pc[c] = "read" /\ UNCHANGED again
    BY <1>1, <1>8 DEF Redis!Execute, Redis!Goto
  <2> QED
    BY <1>2, <2>1 DEF RedisPlaced, RedisReads, Before
<1>9. CASE Redis!Answer(c)
  BY <1>1, <1>5, <1>9, RedisSame DEF Redis!Answer, Redis!Return, Redis!Goto
<1>10. CASE Redis!Retry(c)
  <2>1. CASE Redis!MayRetry(c)
    <3>1. pc'[c] = "watch" /\ pc[c] = "read" /\ UNCHANGED <<again, effects, saw>>
      BY <1>1, <1>10, <2>1 DEF Redis!Retry, Redis!Goto, Redis!history
    <3> QED
      BY <1>2, <3>1 DEF RedisPlaced, RedisReads, Before
  <2>2. CASE ~Redis!MayRetry(c)
    BY <1>1, <1>5, <1>10, <2>2, RedisSame DEF Redis!Retry, Redis!Return, Redis!Goto
  <2> QED
    BY <2>1, <2>2
<1>11. CASE Redis!Disconnect(c)
  <2>1. pc'[c] = "lost" /\ pc[c] \in {"watch", "read"} /\ UNCHANGED <<again, effects>>
    BY <1>1, <1>11 DEF Redis!Disconnect, Redis!Goto, Redis!history
  <2> QED
    BY <1>2, <2>1 DEF RedisPlaced, RedisReads, Before
<1>12. CASE Redis!Reconnect(c)
  <2>1. CASE Redis!Return(c, "error")
    BY <1>1, <1>5, <2>1, RedisSame DEF Redis!Return, Redis!Goto
  <2>2. CASE pc'[c] = "watch" /\ pc[c] = "lost" /\ ~again[c] /\ again'[c] /\ UNCHANGED effects
    BY <1>2, <2>2 DEF RedisPlaced, RedisReads, Before
  <2> QED
    BY <1>1, <1>12, <2>1, <2>2 DEF Redis!Reconnect, Redis!Goto, Redis!history
<1> QED
  BY <1>3, <1>4, <1>6, <1>7, <1>8, <1>9, <1>10, <1>11, <1>12 DEF RedisActs

LEMMA RedisTypes ==
  ASSUME RedisAllowed, RedisInv, NEW c \in Clients, RedisActs(c)
  PROVE  Redis!TypeOK'
<1> DEFINE Store ==
             /\ Redis!IsStore(kv)' /\ identity' \in BOOLEAN /\ revision' \in Nat
             /\ touched' \subseteq Clients /\ fresh' \in [Clients -> BOOLEAN]
             /\ effects' \in [Clients -> 0 .. 2] /\ calls' \in 0 .. MaxCalls
             /\ saw' \in [Clients -> {"none", "done", "refused"}]
           Client ==
             /\ pc' \in [Clients -> {"closed", "open", "idle", "watch", "read", "answer", "lost"}]
             /\ \A d \in Clients : op'[d] \in Operations
                                   \/ (op'[d] = NoOperation /\ pc'[d] \in {"closed", "open", "idle"})
             /\ op' \in [Clients -> Operations \cup {NoOperation}]
             /\ left' \in [Clients -> Seq(Nodes)]
             /\ DOMAIN seen' = Clients /\ \A d \in Clients : Redis!IsStore(seen[d])'
             /\ tries' \in [Clients -> 0 .. WatchRetries - 1]
             /\ again' \in [Clients -> BOOLEAN]
             /\ reply' \in [Clients -> {"none", "done", "refused", "error"}]
<1>1. /\ Redis!TypeOK /\ Redis!IsStore(Redis!Empty) /\ Redis!NoOperation = NoOperation
      /\ WatchRetries \in Nat \ {0} /\ MaxCalls \in Nat
      /\ \A o \in Operations : Redis!Reads(o) \in Seq(Nodes)
      /\ pc[c] \notin {"closed", "open", "idle"} => op[c] \in Operations
  <2>1. IsStore(Empty)
    BY DEF IsStore, Empty
  <2> QED
    BY <2>1, RedisSame, RedisTargets, ReadsAll DEF RedisInv, RedisAllowed
<1>2. /\ pc[c] \in {"watch", "read"} => effects[c] \in 0 .. 1
      /\ pc[c] = "answer" => saw[c] \in {"done", "refused"}
  <2>1. RedisPlaced(c) /\ effects[c] \in 0 .. 2 /\ again[c] \in BOOLEAN
    BY <1>1 DEF RedisInv, Redis!TypeOK
  <2> QED
    BY <2>1 DEF RedisPlaced, Before
<1>3. Store /\ Client => Redis!TypeOK'
  BY <1>1 DEF Redis!TypeOK
<1>4. UNCHANGED <<kv, identity, revision, touched, fresh, effects, calls, saw>> => Store
  BY <1>1 DEF Redis!TypeOK, Redis!IsStore
<1>5. ASSUME NEW how \in {"done", "refused", "error"}, Redis!Return(c, how) PROVE Client
  BY <1>1, <1>5 DEF Redis!Return, Redis!Forget, Redis!Goto, Redis!TypeOK
<1>6. touched \cup Redis!Watching \subseteq Clients /\ touched \ {c} \subseteq Clients
  BY <1>1 DEF Redis!Watching, Redis!TypeOK
<1>7. CASE Redis!OpenWatch(c)
  <2>1. Store
    BY <1>1, <1>6, <1>7 DEF Redis!OpenWatch, Redis!WatchKey, Redis!history, Redis!TypeOK, Redis!IsStore
  <2>2. Client
    BY <1>1, <1>7 DEF Redis!OpenWatch, Redis!Goto, Redis!TypeOK
  <2> QED
    BY <1>3, <2>1, <2>2
<1>8. CASE Redis!OpenExecute(c)
  <2>1. Store
    <3>1. /\ identity' \in {identity, TRUE} /\ revision' \in {revision, revision + 1}
          /\ touched' \in {touched, touched \cup Redis!Watching}
          /\ fresh' = [fresh EXCEPT ![c] = FALSE]
          /\ UNCHANGED <<kv, effects, calls, saw>>
      BY <1>8 DEF Redis!OpenExecute, Redis!TouchKey, Redis!history
    <3>2. identity' \in BOOLEAN /\ revision' \in Nat /\ touched' \subseteq Clients
      <4>1. identity \in BOOLEAN /\ revision \in Nat /\ touched \subseteq Clients
        BY <1>1 DEF Redis!TypeOK
      <4>2. identity' \in BOOLEAN
        BY <3>1, <4>1, Zenon
      <4>3. revision' \in Nat /\ touched' \subseteq Clients
        BY <1>6, <3>1, <4>1
      <4> QED
        BY <4>2, <4>3
    <3>3. Redis!IsStore(kv)' /\ fresh' \in [Clients -> BOOLEAN]
      BY <1>1, <3>1 DEF Redis!TypeOK, Redis!IsStore
    <3> QED
      BY <1>1, <3>1, <3>2, <3>3 DEF Redis!TypeOK
  <2>2. pc' = [pc EXCEPT ![c] = "closed"] \/ pc' = [pc EXCEPT ![c] = "idle"]
    BY <1>8 DEF Redis!OpenExecute, Redis!Goto
  <2>3. Client
    <3>1. pc[c] = "open" /\ UNCHANGED <<op, seen, left, tries, again, reply>>
      BY <1>8 DEF Redis!OpenExecute
    <3>2. pc' \in [Clients -> {"closed", "open", "idle", "watch", "read", "answer", "lost"}]
      BY <1>1, <2>2 DEF Redis!TypeOK
    <3>3. \A d \in Clients : pc[d] \in {"closed", "open", "idle"} => pc'[d] \in {"closed", "open", "idle"}
      BY <1>1, <2>2 DEF Redis!TypeOK
    <3> QED
      BY <1>1, <3>1, <3>2, <3>3 DEF Redis!TypeOK, Redis!IsStore
  <2> QED
    BY <1>3, <2>1, <2>3
<1>9. CASE \E o \in Operations : Redis!Call(c, o)
  BY <1>1, <1>9 DEF Redis!Call, Redis!Goto, Redis!server, Redis!TypeOK
<1>10. CASE Redis!Watch(c)
  <2>1. Store
    <3>1. UNCHANGED <<kv, identity, revision, fresh, effects, calls, saw>> /\ touched' \subseteq Clients
      BY <1>1, <1>6, <1>10 DEF Redis!Watch, Redis!WatchKey, Redis!history, Redis!TypeOK
    <3> QED
      BY <1>1, <3>1 DEF Redis!TypeOK, Redis!IsStore
  <2>2. CASE Redis!Return(c, "error")
    BY <1>3, <1>5, <2>1, <2>2
  <2>3. CASE ~Redis!Return(c, "error")
    <3>1. Client
      <4>1. /\ pc[c] = "watch" /\ pc' = [pc EXCEPT ![c] = "read"]
            /\ left' = [left EXCEPT ![c] = Redis!Reads(op[c])]
            /\ UNCHANGED <<op, seen, tries, again, reply>>
        BY <1>10, <2>3 DEF Redis!Watch, Redis!Goto
      <4>2. left' \in [Clients -> Seq(Nodes)] /\ op[c] \in Operations
        BY <1>1, <4>1 DEF Redis!TypeOK
      <4> QED
        BY <1>1, <4>1, <4>2 DEF Redis!TypeOK, Redis!IsStore
    <3> QED
      BY <1>3, <2>1, <3>1
  <2> QED
    BY <2>2, <2>3
<1>11. CASE Redis!Read(c)
  <2>1. /\ pc[c] = "read" /\ UNCHANGED <<kv, identity, revision, touched, op, tries, again, fresh, reply, calls>>
        /\ Head(left[c]) \in Nodes /\ Tail(left[c]) \in Seq(Nodes)
    <3>1. left[c] \in Seq(Nodes) /\ left[c] # <<>>
      BY <1>1, <1>11 DEF Redis!Read, Redis!TypeOK
    <3> QED
      BY <1>11, <3>1, ReadNext DEF Redis!Read, Redis!server
  <2>2. CASE pc' = [pc EXCEPT ![c] = "answer"] /\ Redis!Forget(c)
             /\ effects' = [effects EXCEPT ![c] = @ + 1] /\ saw' = [saw EXCEPT ![c] = "refused"]
    <3>1. Store
      BY <1>1, <1>2, <2>1, <2>2 DEF Redis!TypeOK, Redis!IsStore
    <3>2. Client
      BY <1>1, <2>1, <2>2 DEF Redis!Forget, Redis!TypeOK
    <3> QED
      BY <1>3, <3>1, <3>2
  <2>3. CASE /\ seen' = [seen EXCEPT ![c][Head(left[c])] = kv[Head(left[c])]]
             /\ left' = [left EXCEPT ![c] = Tail(@)] /\ UNCHANGED <<pc, effects, saw>>
    <3>1. Store
      BY <1>1, <2>1, <2>3 DEF Redis!TypeOK, Redis!IsStore
    <3>2. DOMAIN seen' = Clients /\ \A d \in Clients : Redis!IsStore(seen[d])'
      <4> DEFINE n == Head(left[c])
      <4>1. n \in Nodes /\ seen' = [seen EXCEPT ![c][n] = kv[n]]
        BY <2>1, <2>3
      <4>2. Redis!IsStore(kv) /\ DOMAIN seen = Clients /\ \A d \in Clients : Redis!IsStore(seen[d])
        BY <1>1 DEF Redis!TypeOK
      <4> HIDE DEF n
      <4> QED
        BY <4>1, <4>2 DEF Redis!IsStore
    <3>3. Client
      BY <1>1, <2>1, <2>3, <3>2 DEF Redis!TypeOK
    <3> QED
      BY <1>3, <3>1, <3>3
  <2> QED
    BY <1>11, <2>2, <2>3 DEF Redis!Read, Redis!Goto
<1>12. CASE Redis!Execute(c)
  <2>1. Store
    <3>1. Redis!IsStore(kv)'
      BY <1>12, RedisExecutes, RedisSame DEF Redis!IsStore, IsStore
    <3>2. revision' \in Nat /\ touched' \subseteq Clients
      BY <1>1, <1>6, <1>12 DEF Redis!Execute, Redis!TouchKey, Redis!TypeOK
    <3>3. effects' \in [Clients -> 0 .. 2] /\ saw' \in [Clients -> {"none", "done", "refused"}]
      BY <1>1, <1>2, <1>12 DEF Redis!Execute, Redis!TypeOK
    <3> QED
      BY <1>1, <1>12, <3>1, <3>2, <3>3 DEF Redis!Execute, Redis!TypeOK
  <2>2. pc[c] = "read" /\ (pc' = [pc EXCEPT ![c] = "answer"] \/ pc' = [pc EXCEPT ![c] = "lost"])
    BY <1>12 DEF Redis!Execute, Redis!Goto
  <2>3. Client
    <3>1. /\ UNCHANGED <<op, tries, again, reply>> /\ seen' = [seen EXCEPT ![c] = Redis!Empty]
          /\ left' = [left EXCEPT ![c] = <<>>]
      BY <1>12 DEF Redis!Execute, Redis!Forget
    <3>2. DOMAIN seen' = Clients /\ \A d \in Clients : Redis!IsStore(seen[d])'
      BY <1>1, <3>1 DEF Redis!TypeOK, Redis!IsStore
    <3>3. pc' \in [Clients -> {"closed", "open", "idle", "watch", "read", "answer", "lost"}]
      <4>1. pc \in [Clients -> {"closed", "open", "idle", "watch", "read", "answer", "lost"}]
        BY <1>1 DEF Redis!TypeOK
      <4> QED
        BY <2>2, <4>1
    <3>4. left' \in [Clients -> Seq(Nodes)]
      BY <1>1, <3>1 DEF Redis!TypeOK
    <3>5. \A d \in Clients : op'[d] \in Operations
                             \/ (op'[d] = NoOperation /\ pc'[d] \in {"closed", "open", "idle"})
      <4> SUFFICES ASSUME NEW d \in Clients
                   PROVE  op[d] \in Operations
                          \/ (op[d] = NoOperation /\ pc'[d] \in {"closed", "open", "idle"})
        BY <3>1
      <4>1. op[d] \in Operations \/ (op[d] = NoOperation /\ pc[d] \in {"closed", "open", "idle"})
        BY <1>1 DEF Redis!TypeOK
      <4>2. d # c => pc'[d] = pc[d]
        BY <1>1, <2>2 DEF Redis!TypeOK
      <4> QED
        BY <1>1, <2>2, <4>1, <4>2
    <3>6. op' \in [Clients -> Operations \cup {NoOperation}] /\ again' \in [Clients -> BOOLEAN]
          /\ tries' \in [Clients -> 0 .. WatchRetries - 1]
          /\ reply' \in [Clients -> {"none", "done", "refused", "error"}]
      BY <1>1, <3>1 DEF Redis!TypeOK
    <3> QED
      BY <3>2, <3>3, <3>4, <3>5, <3>6
  <2> QED
    BY <1>3, <2>1, <2>3
<1>13. CASE Redis!Answer(c)
  BY <1>2, <1>3, <1>4, <1>5, <1>13 DEF Redis!Answer, Redis!server, Redis!history
<1>14. CASE Redis!Retry(c)
  <2>1. Store
    BY <1>4, <1>14 DEF Redis!Retry, Redis!server, Redis!history
  <2>2. CASE Redis!Return(c, "error")
    BY <1>3, <1>5, <2>1, <2>2
  <2>3. CASE ~Redis!Return(c, "error")
    <3>1. /\ pc' = [pc EXCEPT ![c] = "watch"] /\ seen' = [seen EXCEPT ![c] = Redis!Empty]
          /\ left' = [left EXCEPT ![c] = <<>>] /\ tries' = [tries EXCEPT ![c] = @ + 1]
          /\ tries[c] + 1 < WatchRetries /\ UNCHANGED <<op, again, reply>> /\ pc[c] = "read"
      BY <1>14, <2>3 DEF Redis!Retry, Redis!MayRetry, Redis!Goto, Redis!Forget
    <3>2. tries' \in [Clients -> 0 .. WatchRetries - 1]
      BY <1>1, <3>1 DEF Redis!TypeOK
    <3>3. Client
      BY <1>1, <3>1, <3>2 DEF Redis!TypeOK
    <3> QED
      BY <1>3, <2>1, <3>3
  <2> QED
    BY <2>2, <2>3
<1>15. CASE Redis!Disconnect(c)
  <2>1. Store
    BY <1>4, <1>15 DEF Redis!Disconnect, Redis!server, Redis!history
  <2>2. Client
    BY <1>1, <1>15 DEF Redis!Disconnect, Redis!Goto, Redis!Forget, Redis!TypeOK
  <2> QED
    BY <1>3, <2>1, <2>2
<1>16. CASE Redis!Reconnect(c)
  <2>1. Store
    BY <1>4, <1>16 DEF Redis!Reconnect, Redis!server, Redis!history
  <2>2. CASE Redis!Return(c, "error")
    BY <1>3, <1>5, <2>1, <2>2
  <2>3. CASE ~Redis!Return(c, "error")
    <3>1. /\ pc' = [pc EXCEPT ![c] = "watch"] /\ pc[c] = "lost"
          /\ again' = [again EXCEPT ![c] = TRUE] /\ tries' = [tries EXCEPT ![c] = 0]
          /\ UNCHANGED <<op, seen, left, reply>>
      BY <1>16, <2>3 DEF Redis!Reconnect, Redis!Goto
    <3>2. Client
      BY <1>1, <3>1 DEF Redis!TypeOK, Redis!IsStore
    <3> QED
      BY <1>3, <2>1, <3>2
  <2> QED
    BY <2>2, <2>3
<1> QED
  BY <1>7, <1>8, <1>9, <1>10, <1>11, <1>12, <1>13, <1>14, <1>15, <1>16 DEF RedisActs

LEMMA RedisInductive == ASSUME RedisAllowed PROVE Redis!Spec => []RedisInv
<1>1. Redis!Init => RedisInv
  <2> SUFFICES ASSUME Redis!Init PROVE RedisInv
    OBVIOUS
  <2>1. IsStore(Empty) /\ Redis!Empty = Empty /\ Redis!NoOperation = NoOperation
        /\ WatchRetries \in Nat \ {0} /\ MaxCalls \in Nat
    BY RedisSame DEF IsStore, Empty, RedisAllowed
  <2>2. Redis!IsStore(Empty)
    BY <2>1, RedisSame
  <2>3. Redis!TypeOK
    <3>1. again \in [Clients -> BOOLEAN] /\ fresh \in [Clients -> BOOLEAN] /\ identity \in BOOLEAN
      BY Zenon DEF Redis!Init
    <3>2. tries \in [Clients -> 0 .. WatchRetries - 1]
      BY <2>1 DEF Redis!Init
    <3> QED
      BY <2>1, <2>2, <3>1, <3>2 DEF Redis!Init, Redis!TypeOK
  <2>4. ASSUME NEW c \in Clients PROVE RedisPlaced(c) /\ RedisReads(c)
    BY <2>1 DEF Redis!Init, RedisPlaced, RedisReads
  <2> QED
    BY <2>3, <2>4 DEF RedisInv
<1>2. RedisInv /\ [Redis!Next]_(Redis!vars) => RedisInv'
  <2> SUFFICES ASSUME RedisInv, [Redis!Next]_(Redis!vars) PROVE RedisInv'
    OBVIOUS
  <2>1. ASSUME NEW c \in Clients, RedisActs(c) PROVE RedisInv'
    BY <2>1, RedisTypes, RedisOwn, RedisOthers DEF RedisInv
  <2>2. CASE Redis!Evict
    <3>1. /\ revision' = 0 /\ touched' = touched \cup Redis!Watching
          /\ UNCHANGED <<kv, identity, pc, op, seen, left, tries, again, fresh, reply, effects, saw, calls>>
      BY <2>2 DEF Redis!Evict, Redis!TouchKey, Redis!history
    <3>2. Redis!TypeOK'
      BY <3>1 DEF RedisInv, Redis!TypeOK, Redis!Watching, Redis!IsStore
    <3>3. ASSUME NEW c \in Clients PROVE RedisPlaced(c)' /\ RedisReads(c)'
      <4>1. RedisPlaced(c)
        BY DEF RedisInv
      <4>2. pc[c] = "read" => c \in touched'
        BY <3>1 DEF Redis!Watching
      <4> QED
        BY <3>1, <4>1, <4>2 DEF RedisPlaced, RedisReads, Before
    <3> QED
      BY <3>2, <3>3 DEF RedisInv
  <2>3. CASE UNCHANGED Redis!vars
    BY <2>3 DEF Redis!vars, RedisInv, Redis!TypeOK, Redis!IsStore, RedisPlaced, RedisReads, Knows,
       Has, Before
  <2> QED
    BY <2>1, <2>2, <2>3 DEF Redis!Next, RedisActs
<1> QED
  BY <1>1, <1>2, PTL DEF Redis!Spec

(* A store that lost its revision is not written any more, by whoever was  *)
(* at work and whoever opens it anew (RedisStore._validate_revision,       *)
(* _initialize_identity).                                                  *)
THEOREM RedisFailsClosed == ASSUME RedisAllowed PROVE Redis!Spec => [][Redis!FailsClosed]_(Redis!vars)
<1>1. RedisInv /\ [Redis!Next]_(Redis!vars) => [Redis!FailsClosed]_(Redis!vars)
  <2> SUFFICES ASSUME RedisInv, Redis!Next, revision = 0, identity
               PROVE  UNCHANGED <<kv, identity, revision>>
    BY DEF Redis!FailsClosed
  <2>1. ASSUME NEW c \in Clients, RedisActs(c) PROVE UNCHANGED <<kv, identity, revision>>
    <3>1. ~Redis!Execute(c)
      BY RedisExecutes
    <3>2. CASE Redis!OpenWatch(c) \/ Redis!OpenExecute(c)
      BY <3>2 DEF Redis!OpenWatch, Redis!OpenExecute
    <3>3. CASE ~(Redis!OpenWatch(c) \/ Redis!OpenExecute(c))
      BY <2>1, <3>1, <3>3 DEF RedisActs, Redis!Call, Redis!Watch, Redis!Read, Redis!Answer,
         Redis!Retry, Redis!Disconnect, Redis!Reconnect, Redis!server
    <3> QED
      BY <3>2, <3>3
  <2>2. ~Redis!Evict
    BY DEF Redis!Evict
  <2> QED
    BY <2>1, <2>2 DEF Redis!Next, RedisActs
<1> QED
  BY <1>1, RedisInductive, PTL DEF Redis!Spec

LEMMA RedisEffects ==
  ASSUME RedisAllowed, RedisInv, NEW c \in Clients, Redis!Read(c) \/ Redis!Execute(c)
  PROVE  [Redis!Serial!Next]_(Redis!Serial!vars)
<1>1. /\ effects[c] < 2 /\ op[c] # NoOperation /\ op[c] \in Operations /\ UNCHANGED <<op, reply>>
  <2>1. pc[c] = "read" /\ UNCHANGED <<op, reply>>
    BY DEF Redis!Read, Redis!Execute
  <2>2. RedisPlaced(c) /\ effects[c] \in 0 .. 2
    BY DEF RedisInv, Redis!TypeOK
  <2>3. effects[c] < 2
    BY <2>1, <2>2 DEF RedisPlaced, Before
  <2> QED
    BY <2>1, <2>3, RedisTargets
<1>2. ASSUME effects' = [effects EXCEPT ![c] = @ + 1], kv' = After(kv, op[c]),
             saw' = [saw EXCEPT ![c] = IF Refused(kv, op[c]) THEN "refused" ELSE "done"]
      PROVE  Redis!Serial!Next
  <2>1. /\ Redis!Serial!NoOperation = NoOperation
        /\ Redis!Serial!After(kv, op[c]) = After(kv, op[c])
        /\ Redis!Serial!Refused(kv, op[c]) = Refused(kv, op[c])
    BY RedisSerialSame
  <2>2. Redis!Serial!Effect(c)
    BY <1>1, <1>2, <2>1, Zenon DEF Redis!Serial!Effect
  <2> QED
    BY <2>2 DEF Redis!Serial!Next
<1>3. CASE Redis!Execute(c)
  <2>1. ~Refused(kv, op[c]) /\ kv' = After(kv, op[c])
    BY <1>3, RedisExecutes DEF After
  <2>2. effects' = [effects EXCEPT ![c] = @ + 1] /\ saw' = [saw EXCEPT ![c] = "done"]
    BY <1>3 DEF Redis!Execute
  <2> QED
    BY <1>2, <2>1, <2>2
<1>4. CASE Redis!Read(c) /\ UNCHANGED <<effects, saw>>
  BY <1>1, <1>4 DEF Redis!Read, Redis!server, Redis!Serial!vars
<1>5. CASE Redis!Read(c) /\ ~UNCHANGED <<effects, saw>>
  <2>1. /\ Head(left[c]) \in Needed(op[c]) /\ ~Has(kv, Head(left[c])) /\ UNCHANGED kv
        /\ effects' = [effects EXCEPT ![c] = @ + 1] /\ saw' = [saw EXCEPT ![c] = "refused"]
    BY <1>5, RedisSame DEF Redis!Read, Redis!server
  <2>2. Refused(kv, op[c])
    BY <2>1 DEF Refused
  <2> QED
    BY <1>2, <2>1, <2>2 DEF After
<1> QED
  BY <1>3, <1>4, <1>5

(* Every operation of a Redis store takes effect on the whole store at an  *)
(* instant of its own, the execution of its transaction, at most once per  *)
(* connection, or fails: no rival, no patch and no child is lost between   *)
(* clients (RedisStore._write, _write_reconnecting).                       *)
THEOREM RedisSerial == ASSUME RedisAllowed PROVE Redis!Spec => Redis!Serial!Spec
<1>1. Redis!Init => Redis!Serial!Init
  BY RedisSame, RedisSerialSame DEF Redis!Init, Redis!Serial!Init
<1>2. RedisInv /\ [Redis!Next]_(Redis!vars) => [Redis!Serial!Next]_(Redis!Serial!vars)
  <2> SUFFICES ASSUME RedisInv, [Redis!Next]_(Redis!vars)
               PROVE  [Redis!Serial!Next]_(Redis!Serial!vars)
    OBVIOUS
  <2>1. ASSUME NEW c \in Clients, NEW o \in Operations, Redis!Call(c, o)
        PROVE  Redis!Serial!Next
    <3>1. op[c] = NoOperation /\ Redis!Serial!NoOperation = NoOperation
      BY <2>1, RedisTargets, RedisSerialSame DEF Redis!Call
    <3>2. Redis!Serial!Call(c, o)
      BY <2>1, <3>1 DEF Redis!Call, Redis!server, Redis!Serial!Call
    <3> QED
      BY <3>2 DEF Redis!Serial!Next
  <2>2. ASSUME NEW c \in Clients, Redis!Read(c) \/ Redis!Execute(c)
        PROVE  [Redis!Serial!Next]_(Redis!Serial!vars)
    BY <2>2, RedisEffects
  <2>3. ASSUME NEW c \in Clients, NEW how \in {saw[c], "error"} \ {"none"}, Redis!Return(c, how),
               op[c] # NoOperation, UNCHANGED <<kv, effects, saw>>
        PROVE  Redis!Serial!Next
    <3>1. Redis!Serial!NoOperation = NoOperation /\ Redis!NoOperation = NoOperation
      BY RedisSame, RedisSerialSame
    <3>2. Redis!Serial!Return(c)
      BY <2>3, <3>1 DEF Redis!Return, Redis!Serial!Return
    <3> QED
      BY <3>2 DEF Redis!Serial!Next
  <2>4. ASSUME NEW c \in Clients,
               Redis!Watch(c) \/ Redis!Answer(c) \/ Redis!Retry(c) \/ Redis!Reconnect(c)
        PROVE  [Redis!Serial!Next]_(Redis!Serial!vars)
    <3>1. UNCHANGED <<kv, effects, saw>> /\ op[c] # NoOperation
      BY <2>4, RedisTargets DEF Redis!Watch, Redis!Answer, Redis!Retry, Redis!Reconnect,
         Redis!server, Redis!history
    <3>2. CASE Redis!Answer(c)
      <4>1. saw[c] \in {"done", "refused"} /\ Redis!Return(c, saw[c])
        BY <3>2 DEF Redis!Answer, RedisInv, RedisPlaced
      <4> QED
        BY <2>3, <3>1, <4>1
    <3>3. CASE Redis!Return(c, "error")
      BY <2>3, <3>1, <3>3
    <3>4. CASE ~Redis!Answer(c) /\ ~Redis!Return(c, "error")
      <4>1. UNCHANGED <<op, reply>>
        BY <2>4, <3>4 DEF Redis!Watch, Redis!Retry, Redis!Reconnect
      <4> QED
        BY <3>1, <4>1 DEF Redis!Serial!vars
    <3> QED
      BY <3>2, <3>3, <3>4
  <2>5. ASSUME NEW c \in Clients, Redis!OpenWatch(c) \/ Redis!OpenExecute(c) \/ Redis!Disconnect(c)
        PROVE  UNCHANGED Redis!Serial!vars
    BY <2>5 DEF Redis!OpenWatch, Redis!OpenExecute, Redis!Disconnect, Redis!server, Redis!history,
       Redis!Serial!vars
  <2>6. CASE Redis!Evict \/ UNCHANGED Redis!vars
    BY <2>6 DEF Redis!Evict, Redis!vars, Redis!history, Redis!Serial!vars
  <2> QED
    BY <2>1, <2>2, <2>4, <2>5, <2>6 DEF Redis!Next
<1> QED
  BY <1>1, <1>2, RedisInductive, PTL DEF Redis!Spec, Redis!Serial!Spec

-----------------------------------------------------------------------------
(* Neo4j.  Who reads holds the coordinator's lock, and only its holder     *)
(* changes records: so what a transaction has read stays as it was.        *)
CONSTANT MaxRetries
VARIABLE retries
Neo4j == INSTANCE Neo4jTransactions

Neo4jAllowed ==
  /\ ConstantsFit(Operations) /\ MaxRetries \in Nat /\ MaxCalls \in Nat
  /\ Nobody \notin Clients /\ Orphan \notin Clients

(* A call takes effect once per run of its transaction.                    *)
Runs(c) == retries[c] + (IF again[c] THEN MaxRetries + 1 ELSE 0)
Neo4jPlaced(c) ==
  /\ pc[c] = "idle" => op[c] = NoOperation
  /\ pc[c] \in {"begin", "read"} => effects[c] <= Runs(c)
  /\ pc[c] \in {"answer", "broken", "lost"} => effects[c] <= Runs(c) + 1
  /\ pc[c] = "answer" => saw[c] \in {"done", "refused"}
Neo4jReads(c) == pc[c] = "read" => lock = c /\ Knows(c)

Neo4jInv == Neo4j!TypeOK /\ \A c \in Clients : Neo4jPlaced(c) /\ Neo4jReads(c)

LEMMA Neo4jSame ==
  ASSUME NEW store, NEW read, NEW o
  PROVE  /\ Neo4j!NoOperation = NoOperation /\ Neo4j!Empty = Empty
         /\ Neo4j!IsStore(store) = IsStore(store)
         /\ \A n : Neo4j!Has(store, n) = Has(store, n)
         /\ Neo4j!Reads(o) = Reads(o) /\ Neo4j!Needed(o) = Needed(o)
         /\ Neo4j!Writes(read, o) = Writes(read, o)
         /\ Neo4j!Written(store, read, o) = Written(store, read, o)
<1>1. /\ Neo4j!NoOperation = NoOperation /\ Neo4j!Empty = Empty
      /\ Neo4j!IsStore(store) = IsStore(store)
      /\ \A s, n : Neo4j!Has(s, n) = Has(s, n)
      /\ Neo4j!Reads(o) = Reads(o) /\ Neo4j!Needed(o) = Needed(o)
  BY DEF Neo4j!NoOperation, NoOperation, Neo4j!Empty, Empty, Neo4j!IsStore, IsStore,
         Neo4j!Has, Has, Neo4j!Reads, Reads, Neo4j!Needed, Needed
<1>2. \A old, r : Neo4j!AddRival(old, r) = AddRival(old, r)
  BY DEF Neo4j!AddRival, AddRival, Neo4j!AddRivalAlways, AddRivalAlways,
         Neo4j!AddRivalOnce, AddRivalOnce, Neo4j!Range, Range
<1>3. \A n : Neo4j!NewValue(read, o, n) = NewValue(read, o, n)
  BY <1>1, <1>2 DEF Neo4j!NewValue, NewValue
<1>4. Neo4j!Writes(read, o) = Writes(read, o)
  BY <1>3 DEF Neo4j!Writes, Writes
<1>5. Neo4j!Written(store, read, o) = Written(store, read, o)
  BY <1>3, <1>4 DEF Neo4j!Written, Written
<1> QED
  BY <1>1, <1>4, <1>5

LEMMA Neo4jSerialSame ==
  ASSUME NEW store, NEW o
  PROVE  /\ Neo4j!Serial!Refused(store, o) = Refused(store, o)
         /\ Neo4j!Serial!After(store, o) = After(store, o)
         /\ Neo4j!Serial!NoOperation = NoOperation /\ Neo4j!Serial!Empty = Empty
<1>1. /\ Neo4j!Serial!NoOperation = NoOperation /\ Neo4j!Serial!Empty = Empty
      /\ \A s, n : Neo4j!Serial!Has(s, n) = Has(s, n)
  BY DEF Neo4j!Serial!NoOperation, NoOperation, Neo4j!Serial!Empty, Empty,
         Neo4j!Serial!Has, Has
<1>2. \A old, r : Neo4j!Serial!AddRival(old, r) = AddRival(old, r)
  BY DEF Neo4j!Serial!AddRival, AddRival, Neo4j!Serial!AddRivalAlways, AddRivalAlways,
         Neo4j!Serial!AddRivalOnce, AddRivalOnce, Neo4j!Serial!Range, Range
<1>3. \A n : Neo4j!Serial!NewValue(store, o, n) = NewValue(store, o, n)
  BY <1>1, <1>2 DEF Neo4j!Serial!NewValue, NewValue
<1>4. Neo4j!Serial!Writes(store, o) = Writes(store, o)
  BY <1>3 DEF Neo4j!Serial!Writes, Writes
<1>5. Neo4j!Serial!Written(store, store, o) = Written(store, store, o)
  BY <1>3, <1>4 DEF Neo4j!Serial!Written, Written
<1>6. Neo4j!Serial!Refused(store, o) = Refused(store, o)
  BY <1>1 DEF Neo4j!Serial!Refused, Refused, Neo4j!Serial!Needed, Needed
<1> QED
  BY <1>1, <1>5, <1>6 DEF Neo4j!Serial!After, After

Neo4jActs(c) == Neo4j!Step(c) \/ Neo4j!Break(c) \/ \E o \in Operations : Neo4j!Call(c, o)

LEMMA Neo4jTargets ==
  ASSUME Neo4jAllowed, Neo4jInv, NEW c \in Clients
  PROVE  /\ op[c] = NoOperation <=> pc[c] = "idle"
         /\ op[c] # NoOperation => op[c] \in Operations
<1>1. op[c] \in Operations \/ (op[c] = NoOperation /\ pc[c] = "idle")
  BY Neo4jSame DEF Neo4jInv, Neo4j!TypeOK
<1>2. pc[c] = "idle" => op[c] = NoOperation
  BY DEF Neo4jInv, Neo4jPlaced
<1>3. op[c] \in Operations => op[c] # NoOperation
  BY Kinds DEF Neo4jAllowed
<1> QED
  BY <1>1, <1>2, <1>3

LEMMA Neo4jCommits ==
  ASSUME Neo4jAllowed, Neo4jInv, NEW c \in Clients, Neo4j!Commit(c)
  PROVE  /\ ~Refused(kv, op[c]) /\ kv' = Written(kv, kv, op[c]) /\ IsStore(kv')
         /\ lock = c
<1>1. /\ pc[c] = "read" /\ left[c] = <<>> /\ kv' = Written(kv, seen[c], op[c])
  BY Neo4jSame DEF Neo4j!Commit
<1>2. op[c] \in Operations /\ ConstantsFit(Operations)
  BY <1>1, Neo4jTargets DEF Neo4jAllowed
<1>3. Range(left[c]) = {}
  BY <1>1 DEF Range
<1>4. lock = c /\ Knows(c)
  BY <1>1 DEF Neo4jInv, Neo4jReads
<1>5. ~Refused(kv, op[c]) /\ Written(kv, seen[c], op[c]) = Written(kv, kv, op[c])
  <2>1. \A n \in Range(Reads(op[c])) :
          seen[c][n] = kv[n] /\ (n \in Needed(op[c]) => Has(kv, n))
    BY <1>3, <1>4 DEF Knows
  <2> QED
    BY <1>2, <2>1, KnowsAll
<1>6. op[c].do = "meta" => Has(kv, op[c].node)
  BY <1>5 DEF Refused, Needed
<1>7. IsStore(kv)
  BY Neo4jSame DEF Neo4jInv, Neo4j!TypeOK
<1> QED
  BY <1>1, <1>2, <1>4, <1>5, <1>6, <1>7, WrittenKeeps

(* The others keep their lock, and with it what they read.                 *)
LEMMA Neo4jOthers ==
  ASSUME Neo4jAllowed, Neo4jInv, NEW c \in Clients, Neo4jActs(c), NEW d \in Clients, d # c
  PROVE  Neo4jPlaced(d)' /\ Neo4jReads(d)'
<1> USE Neo4jSame DEF Neo4jInv, Neo4j!TypeOK
<1>1. /\ pc'[d] = pc[d] /\ op'[d] = op[d] /\ left'[d] = left[d] /\ seen'[d] = seen[d]
      /\ again'[d] = again[d] /\ effects'[d] = effects[d] /\ saw'[d] = saw[d]
      /\ retries'[d] = retries[d]
  <2>1. CASE Neo4j!Begin(c) \/ Neo4j!Break(c) \/ Neo4j!RunAgain(c)
    BY <2>1 DEF Neo4j!Begin, Neo4j!Break, Neo4j!RunAgain, Neo4j!Goto, Neo4j!Forget, Neo4j!history
  <2>2. CASE \E o \in Operations : Neo4j!Call(c, o)
    BY <2>2 DEF Neo4j!Call, Neo4j!Goto
  <2>3. CASE Neo4j!Answer(c) \/ Neo4j!Reconnect(c)
    BY <2>3 DEF Neo4j!Answer, Neo4j!Reconnect, Neo4j!Return, Neo4j!Goto, Neo4j!history
  <2>4. CASE Neo4j!Read(c)
    BY <2>4 DEF Neo4j!Read, Neo4j!Goto, Neo4j!Forget
  <2>5. CASE Neo4j!Commit(c)
    BY <2>5 DEF Neo4j!Commit, Neo4j!Goto, Neo4j!Forget
  <2> QED
    BY <2>1, <2>2, <2>3, <2>4, <2>5 DEF Neo4jActs, Neo4j!Step
<1>2. lock = d => lock' = d /\ UNCHANGED kv
  <2>1. CASE Neo4j!Commit(c)
    BY <2>1, Neo4jCommits
  <2>2. CASE Neo4j!Begin(c) \/ Neo4j!Break(c)
    BY <2>2 DEF Neo4j!Begin, Neo4j!Locks, Neo4j!Break, Neo4jAllowed
  <2>3. CASE Neo4j!Read(c)
    BY <2>3 DEF Neo4j!Read, Neo4j!Unlock
  <2>4. CASE Neo4j!Answer(c) \/ Neo4j!RunAgain(c) \/ Neo4j!Reconnect(c) \/ \E o \in Operations : Neo4j!Call(c, o)
    BY <2>4 DEF Neo4j!Answer, Neo4j!RunAgain, Neo4j!Reconnect, Neo4j!Call
  <2> QED
    BY <2>1, <2>2, <2>3, <2>4 DEF Neo4jActs, Neo4j!Step
<1>3. Neo4jPlaced(d)'
  BY <1>1 DEF Neo4jPlaced, Runs
<1>4. Neo4jReads(d)'
  <2> SUFFICES ASSUME pc'[d] = "read" PROVE lock' = d /\ Knows(d)'
    BY DEF Neo4jReads
  <2>1. lock = d /\ Knows(d)
    BY <1>1 DEF Neo4jReads
  <2>2. op[d] \in Operations /\ ConstantsFit(Operations)
    BY <1>1, Neo4jTargets DEF Neo4jAllowed
  <2>3. Knows(d)'
    BY <1>1, <1>2, <2>1, <2>2, KnowsStill
  <2> QED
    BY <1>2, <2>1, <2>3
<1> QED
  BY <1>3, <1>4

LEMMA Neo4jOwn ==
  ASSUME Neo4jAllowed, Neo4jInv, NEW c \in Clients, Neo4jActs(c)
  PROVE  Neo4jPlaced(c)' /\ Neo4jReads(c)'
<1>1. /\ pc \in [Clients -> {"idle", "begin", "read", "answer", "broken", "lost"}]
      /\ op \in [Clients -> Operations \cup {NoOperation}]
      /\ left \in [Clients -> Seq(Nodes)] /\ DOMAIN seen = Clients
      /\ again \in [Clients -> BOOLEAN] /\ retries \in [Clients -> 0 .. MaxRetries]
      /\ effects \in [Clients -> 0 .. 2 * (MaxRetries + 1)] /\ MaxRetries \in Nat
      /\ saw \in [Clients -> {"none", "done", "refused"}]
      /\ DOMAIN seen[c] = Nodes /\ DOMAIN kv = Nodes
  BY Neo4jSame DEF Neo4jInv, Neo4jAllowed, Neo4j!TypeOK, Neo4j!MaxEffects, IsStore
<1>2. /\ Neo4jPlaced(c) /\ Neo4jReads(c)
      /\ effects[c] \in Nat /\ retries[c] \in 0 .. MaxRetries /\ Runs(c) \in Nat
  <2>1. Neo4jPlaced(c) /\ Neo4jReads(c)
    BY DEF Neo4jInv
  <2>2. effects[c] \in Nat /\ retries[c] \in 0 .. MaxRetries
    BY <1>1
  <2> QED
    BY <1>1, <2>1, <2>2 DEF Runs
<1>3. CASE Neo4j!Begin(c)
  <2>1. /\ pc[c] = "begin" /\ pc'[c] = "read" /\ lock' = c /\ left'[c] = Reads(op[c])
        /\ UNCHANGED <<op, retries, again, effects, saw>>
    BY <1>1, <1>3, Neo4jSame DEF Neo4j!Begin, Neo4j!Locks, Neo4j!Goto, Neo4j!history
  <2>2. Knows(c)'
    BY <2>1 DEF Knows
  <2> QED
    BY <1>2, <2>1, <2>2 DEF Neo4jPlaced, Neo4jReads, Runs
<1>4. CASE \E o \in Operations : Neo4j!Call(c, o)
  <2>1. pc'[c] = "begin" /\ effects'[c] = 0 /\ UNCHANGED <<retries, again>>
    BY <1>1, <1>4 DEF Neo4j!Call, Neo4j!Goto
  <2>2. Runs(c)' = Runs(c)
    BY <2>1 DEF Runs
  <2> QED
    BY <1>2, <2>1, <2>2 DEF Neo4jPlaced, Neo4jReads
<1>5. CASE pc'[c] = "idle" /\ op'[c] = NoOperation
  BY <1>5 DEF Neo4jPlaced, Neo4jReads
<1>6. CASE Neo4j!Read(c)
  <2>1. /\ pc[c] = "read" /\ left[c] # <<>> /\ op[c] \in Operations
        /\ UNCHANGED <<kv, op, retries, again>> /\ left[c] \in Seq(Nodes)
    BY <1>1, <1>6, Neo4jTargets DEF Neo4j!Read
  <2> DEFINE n == Head(left[c])
  <2>2. CASE n \in Needed(op[c]) /\ ~Has(kv, n)
    <3>1. /\ pc' = [pc EXCEPT ![c] = "answer"] /\ effects' = [effects EXCEPT ![c] = @ + 1]
          /\ saw' = [saw EXCEPT ![c] = "refused"]
      BY <1>6, <2>2, Neo4jSame DEF Neo4j!Read, Neo4j!Goto
    <3>2. pc'[c] = "answer" /\ effects'[c] = effects[c] + 1 /\ saw'[c] = "refused"
      BY <1>1, <3>1
    <3> QED
      BY <1>2, <2>1, <3>2 DEF Neo4jPlaced, Neo4jReads, Runs
  <2>3. CASE ~(n \in Needed(op[c]) /\ ~Has(kv, n))
    <3>1. /\ seen' = [seen EXCEPT ![c][n] = kv[n]] /\ left'[c] = Tail(left[c])
          /\ UNCHANGED <<pc, lock, effects, saw>>
      BY <1>1, <1>6, <2>3, Neo4jSame DEF Neo4j!Read
    <3>2. Knows(c)'
      BY <1>1, <1>2, <2>1, <2>3, <3>1, KnowsMore DEF Neo4jAllowed, Neo4jReads
    <3> QED
      BY <1>2, <2>1, <3>1, <3>2 DEF Neo4jPlaced, Neo4jReads, Runs
  <2> QED
    BY <2>2, <2>3
<1>7. CASE Neo4j!Commit(c)
  <2>1. /\ pc'[c] \in {"answer", "broken"} /\ saw'[c] = "done" /\ effects'[c] = effects[c] + 1
        /\ pc[c] = "read" /\ UNCHANGED <<again, retries>>
    BY <1>1, <1>7 DEF Neo4j!Commit, Neo4j!Goto
  <2> QED
    BY <1>2, <2>1 DEF Neo4jPlaced, Neo4jReads, Runs
<1>8. CASE Neo4j!Answer(c)
  BY <1>1, <1>5, <1>8, Neo4jSame DEF Neo4j!Answer, Neo4j!Return, Neo4j!Goto
<1>9. CASE Neo4j!Break(c)
  <2>1. pc'[c] = "broken" /\ pc[c] \in {"begin", "read"} /\ UNCHANGED <<again, retries, effects>>
    BY <1>1, <1>9 DEF Neo4j!Break, Neo4j!Goto, Neo4j!history
  <2> QED
    BY <1>2, <2>1 DEF Neo4jPlaced, Neo4jReads, Runs
<1>10. CASE Neo4j!RunAgain(c)
  <2>1. pc[c] = "broken" /\ UNCHANGED <<again, effects>>
    BY <1>10 DEF Neo4j!RunAgain, Neo4j!history
  <2>2. CASE pc'[c] = "begin" /\ retries'[c] = retries[c] + 1
    BY <1>1, <1>2, <2>1, <2>2 DEF Neo4jPlaced, Neo4jReads, Runs
  <2>3. CASE pc'[c] = "lost" /\ UNCHANGED retries
    BY <1>2, <2>1, <2>3 DEF Neo4jPlaced, Neo4jReads, Runs
  <2> QED
    BY <1>1, <1>10, <2>2, <2>3 DEF Neo4j!RunAgain, Neo4j!MayRetry, Neo4j!Goto
<1>11. CASE Neo4j!Reconnect(c)
  <2>1. CASE Neo4j!Return(c, "error")
    BY <1>1, <1>5, <2>1, Neo4jSame DEF Neo4j!Return, Neo4j!Goto
  <2>2. CASE /\ pc'[c] = "begin" /\ pc[c] = "lost" /\ ~again[c] /\ again'[c] /\ retries'[c] = 0
             /\ UNCHANGED effects
    BY <1>1, <1>2, <2>2 DEF Neo4jPlaced, Neo4jReads, Runs
  <2> QED
    BY <1>1, <1>11, <2>1, <2>2 DEF Neo4j!Reconnect, Neo4j!Goto, Neo4j!history
<1> QED
  BY <1>3, <1>4, <1>6, <1>7, <1>8, <1>9, <1>10, <1>11 DEF Neo4jActs, Neo4j!Step

LEMMA Neo4jTypes ==
  ASSUME Neo4jAllowed, Neo4jInv, NEW c \in Clients, Neo4jActs(c)
  PROVE  Neo4j!TypeOK'
<1> DEFINE most == 2 * (MaxRetries + 1)
           Store ==
             /\ Neo4j!IsStore(kv)' /\ lock' \in Clients \cup {Nobody, Orphan}
             /\ \A d \in Clients : lock' = d => pc'[d] = "read"
           Told ==
             /\ effects' \in [Clients -> 0 .. most] /\ calls' \in 0 .. MaxCalls
             /\ saw' \in [Clients -> {"none", "done", "refused"}]
           Client ==
             /\ pc' \in [Clients -> {"idle", "begin", "read", "answer", "broken", "lost"}]
             /\ \A d \in Clients : op'[d] \in Operations \/ (op'[d] = NoOperation /\ pc'[d] = "idle")
             /\ op' \in [Clients -> Operations \cup {NoOperation}]
             /\ left' \in [Clients -> Seq(Nodes)]
             /\ DOMAIN seen' = Clients /\ \A d \in Clients : Neo4j!IsStore(seen[d])'
             /\ retries' \in [Clients -> 0 .. MaxRetries]
             /\ again' \in [Clients -> BOOLEAN]
             /\ reply' \in [Clients -> {"none", "done", "refused", "error"}]
<1>1. /\ Neo4j!TypeOK /\ Neo4j!IsStore(Neo4j!Empty) /\ Neo4j!NoOperation = NoOperation
      /\ Neo4j!MaxEffects = most /\ MaxRetries \in Nat /\ MaxCalls \in Nat /\ most \in Nat
      /\ Nobody \notin Clients /\ Orphan \notin Clients
      /\ \A o \in Operations : Neo4j!Reads(o) \in Seq(Nodes)
      /\ pc[c] # "idle" => op[c] \in Operations
  <2>1. IsStore(Empty)
    BY DEF IsStore, Empty
  <2>2. MaxRetries \in Nat /\ MaxCalls \in Nat /\ most \in Nat
    BY DEF Neo4jAllowed
  <2> QED
    BY <2>1, <2>2, Neo4jSame, Neo4jTargets, ReadsAll DEF Neo4jInv, Neo4jAllowed, Neo4j!MaxEffects
<1>2. /\ pc[c] = "read" => effects[c] \in 0 .. most - 1
      /\ pc[c] = "answer" => saw[c] \in {"done", "refused"}
  <2>1. /\ Neo4jPlaced(c) /\ effects[c] \in 0 .. most /\ again[c] \in BOOLEAN
        /\ retries[c] \in 0 .. MaxRetries
    BY <1>1 DEF Neo4jInv, Neo4j!TypeOK
  <2>2. Runs(c) \in 0 .. most - 1
    <3>1. Runs(c) = IF again[c] THEN retries[c] + MaxRetries + 1 ELSE retries[c]
      BY <1>1, <2>1 DEF Runs
    <3> QED
      BY <1>1, <2>1, <3>1
  <2>3. pc[c] = "read" => effects[c] <= Runs(c)
    BY <2>1 DEF Neo4jPlaced
  <2> HIDE DEF most
  <2>4. pc[c] = "read" => effects[c] \in 0 .. most - 1
    BY <1>1, <2>1, <2>2, <2>3
  <2> QED
    BY <2>1, <2>4 DEF Neo4jPlaced
<1> HIDE DEF most
<1>3. Store /\ Told /\ Client => Neo4j!TypeOK'
  BY <1>1 DEF Neo4j!TypeOK, Neo4j!MaxEffects, most
<1>4. UNCHANGED <<effects, calls, saw>> => Told
  BY <1>1 DEF Neo4j!TypeOK
<1>5. pc[c] # "read" /\ pc'[c] # "read" /\ UNCHANGED <<kv, lock>>
      /\ (\A d \in Clients \ {c} : pc'[d] = pc[d]) => Store
  BY <1>1 DEF Neo4j!TypeOK, Neo4j!IsStore
<1>6. ASSUME NEW how \in {"done", "refused", "error"}, Neo4j!Return(c, how), UNCHANGED <<left, seen>>
      PROVE  Client /\ pc' = [pc EXCEPT ![c] = "idle"]
  BY <1>1, <1>6 DEF Neo4j!Return, Neo4j!Goto, Neo4j!TypeOK, Neo4j!IsStore
<1>7. pc \in [Clients -> {"idle", "begin", "read", "answer", "broken", "lost"}]
  BY <1>1 DEF Neo4j!TypeOK
<1>8. CASE Neo4j!Begin(c)
  <2>1. /\ pc' = [pc EXCEPT ![c] = "read"] /\ lock' = c /\ lock = Nobody
        /\ left' = [left EXCEPT ![c] = Neo4j!Reads(op[c])] /\ pc[c] = "begin"
        /\ UNCHANGED <<kv, op, seen, retries, again, reply, effects, saw, calls>>
    BY <1>8 DEF Neo4j!Begin, Neo4j!Goto, Neo4j!Locks, Neo4j!history
  <2>2. Store
    BY <1>1, <1>7, <2>1 DEF Neo4j!TypeOK, Neo4j!IsStore
  <2>3. Client
    BY <1>1, <2>1 DEF Neo4j!TypeOK, Neo4j!IsStore
  <2> QED
    BY <1>3, <1>4, <2>1, <2>2, <2>3
<1>9. CASE \E o \in Operations : Neo4j!Call(c, o)
  <2>1. PICK o \in Operations : Neo4j!Call(c, o)
    BY <1>9
  <2>2. Told
    BY <1>1, <2>1 DEF Neo4j!Call, Neo4j!TypeOK
  <2>3. Client
    BY <1>1, <2>1 DEF Neo4j!Call, Neo4j!Goto, Neo4j!TypeOK, Neo4j!IsStore
  <2>4. Store
    BY <1>5, <1>7, <2>1 DEF Neo4j!Call, Neo4j!Goto
  <2> QED
    BY <1>3, <2>2, <2>3, <2>4
<1>10. CASE Neo4j!Read(c)
  <2>1. /\ pc[c] = "read" /\ UNCHANGED <<kv, op, retries, again, reply, calls>>
        /\ Head(left[c]) \in Nodes /\ Tail(left[c]) \in Seq(Nodes)
    <3>1. left[c] \in Seq(Nodes) /\ left[c] # <<>>
      BY <1>1, <1>10 DEF Neo4j!Read, Neo4j!TypeOK
    <3> QED
      BY <1>10, <3>1, ReadNext DEF Neo4j!Read
  <2>2. CASE pc' = [pc EXCEPT ![c] = "answer"] /\ Neo4j!Forget(c) /\ Neo4j!Unlock(c)
             /\ effects' = [effects EXCEPT ![c] = @ + 1] /\ saw' = [saw EXCEPT ![c] = "refused"]
    <3>1. Store
      <4>1. Neo4j!IsStore(kv)'
        <5>1. Neo4j!IsStore(kv) /\ kv' = kv
          BY <1>1, <2>1 DEF Neo4j!TypeOK
        <5> QED
          BY <5>1 DEF Neo4j!IsStore
      <4>2. lock' = IF lock = c THEN Nobody ELSE lock
        BY <2>2 DEF Neo4j!Unlock
      <4>3. lock \in Clients \cup {Nobody, Orphan} /\ \A d \in Clients : lock = d => pc[d] = "read"
        BY <1>1 DEF Neo4j!TypeOK
      <4>4. lock' \in Clients \cup {Nobody, Orphan}
        BY <4>2, <4>3
      <4>5. \A d \in Clients : lock' = d => d # c /\ pc[d] = "read"
        BY <1>1, <4>2, <4>3
      <4>6. \A d \in Clients : d # c => pc'[d] = pc[d]
        BY <1>7, <2>2
      <4> QED
        BY <4>1, <4>4, <4>5, <4>6
    <3>2. Told
      BY <1>1, <1>2, <2>1, <2>2 DEF Neo4j!TypeOK
    <3>3. Client
      <4>1. /\ left' = [left EXCEPT ![c] = <<>>] /\ seen' = [seen EXCEPT ![c] = Neo4j!Empty]
            /\ pc' = [pc EXCEPT ![c] = "answer"] /\ op[c] \in Operations
        BY <1>1, <2>1, <2>2 DEF Neo4j!Forget
      <4>2. left' \in [Clients -> Seq(Nodes)]
        BY <1>1, <4>1 DEF Neo4j!TypeOK
      <4>3. DOMAIN seen' = Clients /\ \A d \in Clients : Neo4j!IsStore(seen[d])'
        BY <1>1, <4>1 DEF Neo4j!TypeOK, Neo4j!IsStore
      <4> QED
        BY <1>1, <2>1, <4>1, <4>2, <4>3 DEF Neo4j!TypeOK
    <3> QED
      BY <1>3, <3>1, <3>2, <3>3
  <2>3. CASE /\ seen' = [seen EXCEPT ![c][Head(left[c])] = kv[Head(left[c])]]
             /\ left' = [left EXCEPT ![c] = Tail(@)] /\ UNCHANGED <<pc, lock, effects, saw>>
    <3>1. Store
      BY <1>1, <2>1, <2>3 DEF Neo4j!TypeOK, Neo4j!IsStore
    <3>2. DOMAIN seen' = Clients /\ \A d \in Clients : Neo4j!IsStore(seen[d])'
      <4> DEFINE n == Head(left[c])
      <4>1. n \in Nodes /\ seen' = [seen EXCEPT ![c][n] = kv[n]]
        BY <2>1, <2>3
      <4>2. Neo4j!IsStore(kv) /\ DOMAIN seen = Clients /\ \A d \in Clients : Neo4j!IsStore(seen[d])
        BY <1>1 DEF Neo4j!TypeOK
      <4> HIDE DEF n
      <4> QED
        BY <4>1, <4>2 DEF Neo4j!IsStore
    <3>3. Client
      <4>1. left' \in [Clients -> Seq(Nodes)]
        <5>1. left \in [Clients -> Seq(Nodes)]
          BY <1>1 DEF Neo4j!TypeOK
        <5> QED
          BY <2>1, <2>3, <5>1
      <4> QED
        BY <1>1, <2>1, <2>3, <3>2, <4>1 DEF Neo4j!TypeOK
    <3> QED
      BY <1>3, <1>4, <2>1, <2>3, <3>1, <3>3
  <2> QED
    BY <1>10, <2>2, <2>3 DEF Neo4j!Read, Neo4j!Goto
<1>11. CASE Neo4j!Commit(c)
  <2>1. /\ pc[c] = "read" /\ Neo4j!Unlock(c) /\ Neo4j!Forget(c)
        /\ pc' = [pc EXCEPT ![c] = "answer"] \/ pc' = [pc EXCEPT ![c] = "broken"]
        /\ UNCHANGED <<op, retries, again, reply, calls>>
        /\ effects' = [effects EXCEPT ![c] = @ + 1] /\ saw' = [saw EXCEPT ![c] = "done"]
    BY <1>11 DEF Neo4j!Commit, Neo4j!Goto
  <2>2. Neo4j!IsStore(kv)'
    BY <1>11, Neo4jCommits, Neo4jSame DEF Neo4j!IsStore, IsStore
  <2>3. Store
    BY <1>1, <1>7, <2>1, <2>2 DEF Neo4j!Unlock, Neo4j!TypeOK
  <2>4. Told
    BY <1>1, <1>2, <2>1 DEF Neo4j!TypeOK
  <2>5. /\ pc' \in [Clients -> {"idle", "begin", "read", "answer", "broken", "lost"}]
        /\ \A d \in Clients : op[d] # NoOperation => op'[d] \in Operations
        /\ \A d \in Clients : op[d] = NoOperation => pc'[d] = "idle"
    BY <1>1, <1>7, <2>1, Neo4jTargets DEF Neo4j!TypeOK
  <2>6. Client
    BY <1>1, <2>1, <2>5 DEF Neo4j!Forget, Neo4j!TypeOK
  <2> QED
    BY <1>3, <2>3, <2>4, <2>6
<1>12. CASE Neo4j!Answer(c)
  <2>1. Client /\ pc' = [pc EXCEPT ![c] = "idle"]
    BY <1>2, <1>6, <1>12 DEF Neo4j!Answer
  <2>2. Store
    BY <1>5, <1>7, <1>12, <2>1 DEF Neo4j!Answer
  <2> QED
    BY <1>3, <1>4, <1>12, <2>1, <2>2 DEF Neo4j!Answer, Neo4j!history
<1>13. CASE Neo4j!Break(c)
  <2>1. /\ pc' = [pc EXCEPT ![c] = "broken"] /\ Neo4j!Forget(c) /\ pc[c] \in {"begin", "read"}
        /\ IF lock = c THEN lock' \in {Nobody, Orphan} ELSE UNCHANGED lock
        /\ UNCHANGED <<kv, op, retries, again, reply, effects, saw, calls>>
    BY <1>13 DEF Neo4j!Break, Neo4j!Goto, Neo4j!history
  <2>2. Store
    BY <1>1, <1>7, <2>1 DEF Neo4j!TypeOK, Neo4j!IsStore
  <2>3. Client
    BY <1>1, <2>1 DEF Neo4j!Forget, Neo4j!TypeOK
  <2> QED
    BY <1>3, <1>4, <2>1, <2>2, <2>3
<1>14. CASE Neo4j!RunAgain(c)
  <2>1. /\ pc[c] = "broken" /\ UNCHANGED <<kv, lock, op, seen, left, again, reply, effects, saw, calls>>
        /\ pc' = [pc EXCEPT ![c] = "begin"] \/ pc' = [pc EXCEPT ![c] = "lost"]
        /\ \/ retries' = [retries EXCEPT ![c] = retries[c] + 1] /\ retries[c] < MaxRetries
           \/ UNCHANGED retries
    BY <1>14 DEF Neo4j!RunAgain, Neo4j!MayRetry, Neo4j!Goto, Neo4j!history
  <2>2. retries' \in [Clients -> 0 .. MaxRetries]
    <3>1. retries \in [Clients -> 0 .. MaxRetries]
      BY <1>1 DEF Neo4j!TypeOK
    <3>2. retries[c] < MaxRetries => retries[c] + 1 \in 0 .. MaxRetries
      BY <1>1, <3>1
    <3> QED
      BY <2>1, <3>1, <3>2
  <2>3. Client
    BY <1>1, <2>1, <2>2 DEF Neo4j!TypeOK, Neo4j!IsStore
  <2>4. Store
    BY <1>5, <1>7, <2>1
  <2> QED
    BY <1>3, <1>4, <2>1, <2>3, <2>4
<1>15. CASE Neo4j!Reconnect(c)
  <2>1. UNCHANGED <<kv, lock, seen, left, effects, saw, calls>> /\ pc[c] = "lost"
    BY <1>15 DEF Neo4j!Reconnect, Neo4j!history
  <2>2. CASE Neo4j!Return(c, "error")
    <3>1. Client /\ pc' = [pc EXCEPT ![c] = "idle"]
      BY <1>6, <2>1, <2>2
    <3>2. Store
      BY <1>5, <1>7, <2>1, <3>1
    <3> QED
      BY <1>3, <1>4, <2>1, <3>1, <3>2
  <2>3. CASE ~Neo4j!Return(c, "error")
    <3>1. /\ pc' = [pc EXCEPT ![c] = "begin"] /\ again' = [again EXCEPT ![c] = TRUE]
          /\ retries' = [retries EXCEPT ![c] = 0] /\ UNCHANGED <<op, reply>>
      BY <1>15, <2>3 DEF Neo4j!Reconnect, Neo4j!Goto
    <3>2. Client
      BY <1>1, <2>1, <3>1 DEF Neo4j!TypeOK, Neo4j!IsStore
    <3>3. Store
      BY <1>5, <1>7, <2>1, <3>1
    <3> QED
      BY <1>3, <1>4, <2>1, <3>2, <3>3
  <2> QED
    BY <2>2, <2>3
<1> QED
  BY <1>8, <1>9, <1>10, <1>11, <1>12, <1>13, <1>14, <1>15 DEF Neo4jActs, Neo4j!Step

LEMMA Neo4jInductive == ASSUME Neo4jAllowed PROVE Neo4j!Spec => []Neo4jInv
<1>1. Neo4j!Init => Neo4jInv
  <2> SUFFICES ASSUME Neo4j!Init PROVE Neo4jInv
    OBVIOUS
  <2>1. IsStore(Empty) /\ Neo4j!Empty = Empty /\ Neo4j!NoOperation = NoOperation
        /\ MaxRetries \in Nat /\ MaxCalls \in Nat /\ Nobody \notin Clients
    BY Neo4jSame DEF IsStore, Empty, Neo4jAllowed
  <2>2. Neo4j!IsStore(Empty)
    BY <2>1, Neo4jSame
  <2>3. Neo4j!TypeOK
    <3>1. again \in [Clients -> BOOLEAN]
      BY Zenon DEF Neo4j!Init
    <3>2. effects \in [Clients -> 0 .. Neo4j!MaxEffects] /\ retries \in [Clients -> 0 .. MaxRetries]
      BY <2>1 DEF Neo4j!Init, Neo4j!MaxEffects
    <3> QED
      BY <2>1, <2>2, <3>1, <3>2 DEF Neo4j!Init, Neo4j!TypeOK
  <2>4. ASSUME NEW c \in Clients PROVE Neo4jPlaced(c) /\ Neo4jReads(c)
    BY <2>1 DEF Neo4j!Init, Neo4jPlaced, Neo4jReads
  <2> QED
    BY <2>3, <2>4 DEF Neo4jInv
<1>2. Neo4jInv /\ [Neo4j!Next]_(Neo4j!vars) => Neo4jInv'
  <2> SUFFICES ASSUME Neo4jInv, [Neo4j!Next]_(Neo4j!vars) PROVE Neo4jInv'
    OBVIOUS
  <2>1. ASSUME NEW c \in Clients, Neo4jActs(c) PROVE Neo4jInv'
    BY <2>1, Neo4jTypes, Neo4jOwn, Neo4jOthers DEF Neo4jInv
  <2>2. ASSUME lock' = lock \/ (lock = Orphan /\ lock' = Nobody),
               UNCHANGED <<kv, pc, op, seen, left, retries, again, reply, effects, saw, calls>>
        PROVE  Neo4jInv'
    <3>1. \A c \in Clients : lock' = c <=> lock = c
      BY <2>2 DEF Neo4jAllowed
    <3>2. Neo4j!TypeOK'
      BY <2>2, <3>1 DEF Neo4jInv, Neo4j!TypeOK, Neo4j!IsStore
    <3>3. ASSUME NEW c \in Clients PROVE Neo4jPlaced(c)' /\ Neo4jReads(c)'
      BY <2>2, <3>1 DEF Neo4jInv, Neo4jPlaced, Neo4jReads, Knows, Has, Runs
    <3> QED
      BY <3>2, <3>3 DEF Neo4jInv
  <2>3. Neo4j!ServerNotices => Neo4jInv'
    BY <2>2 DEF Neo4j!ServerNotices, Neo4j!history
  <2>4. UNCHANGED Neo4j!vars => Neo4jInv'
    BY <2>2 DEF Neo4j!vars
  <2> QED
    BY <2>1, <2>3, <2>4 DEF Neo4j!Next, Neo4jActs
<1> QED
  BY <1>1, <1>2, PTL DEF Neo4j!Spec

(* At most one transaction reads or writes records: the coordinator's lock *)
(* is held from the first read to the commit (_Neo4jKVTransaction.lock).   *)
THEOREM Neo4jOneWriter ==
  ASSUME Neo4jAllowed
  PROVE  Neo4j!Spec => [](\A c, d \in Clients : pc[c] = "read" /\ pc[d] = "read" => c = d)
<1>1. Neo4jInv => \A c, d \in Clients : pc[c] = "read" /\ pc[d] = "read" => c = d
  BY DEF Neo4jInv, Neo4jReads
<1> QED
  BY <1>1, Neo4jInductive, PTL

LEMMA Neo4jEffects ==
  ASSUME Neo4jAllowed, Neo4jInv, NEW c \in Clients, Neo4j!Read(c) \/ Neo4j!Commit(c)
  PROVE  [Neo4j!Serial!Next]_(Neo4j!Serial!vars)
<1>1. /\ effects[c] < Neo4j!MaxEffects /\ op[c] # NoOperation /\ op[c] \in Operations
      /\ UNCHANGED <<op, reply>>
  <2>1. pc[c] = "read" /\ UNCHANGED <<op, reply>>
    BY DEF Neo4j!Read, Neo4j!Commit
  <2>2. /\ effects[c] <= Runs(c) /\ effects[c] \in 0 .. Neo4j!MaxEffects /\ MaxRetries \in Nat
        /\ retries[c] \in 0 .. MaxRetries
    BY <2>1 DEF Neo4jAllowed, Neo4jInv, Neo4jPlaced, Neo4j!TypeOK
  <2>3. effects[c] < Neo4j!MaxEffects
    BY <2>2 DEF Runs, Neo4j!MaxEffects
  <2> QED
    BY <2>1, <2>3, Neo4jTargets
<1>2. ASSUME effects' = [effects EXCEPT ![c] = @ + 1], kv' = After(kv, op[c]),
             saw' = [saw EXCEPT ![c] = IF Refused(kv, op[c]) THEN "refused" ELSE "done"]
      PROVE  Neo4j!Serial!Next
  <2>1. /\ Neo4j!Serial!NoOperation = NoOperation
        /\ Neo4j!Serial!After(kv, op[c]) = After(kv, op[c])
        /\ Neo4j!Serial!Refused(kv, op[c]) = Refused(kv, op[c])
    BY Neo4jSerialSame
  <2>2. Neo4j!Serial!Effect(c)
    BY <1>1, <1>2, <2>1, Zenon DEF Neo4j!Serial!Effect
  <2> QED
    BY <2>2 DEF Neo4j!Serial!Next
<1>3. CASE Neo4j!Commit(c)
  <2>1. ~Refused(kv, op[c]) /\ kv' = After(kv, op[c])
    BY <1>3, Neo4jCommits DEF After
  <2>2. effects' = [effects EXCEPT ![c] = @ + 1] /\ saw' = [saw EXCEPT ![c] = "done"]
    BY <1>3 DEF Neo4j!Commit
  <2> QED
    BY <1>2, <2>1, <2>2
<1>4. CASE Neo4j!Read(c) /\ UNCHANGED <<effects, saw>>
  BY <1>1, <1>4 DEF Neo4j!Read, Neo4j!Serial!vars
<1>5. CASE Neo4j!Read(c) /\ ~UNCHANGED <<effects, saw>>
  <2>1. /\ Head(left[c]) \in Needed(op[c]) /\ ~Has(kv, Head(left[c])) /\ UNCHANGED kv
        /\ effects' = [effects EXCEPT ![c] = @ + 1] /\ saw' = [saw EXCEPT ![c] = "refused"]
    BY <1>5, Neo4jSame DEF Neo4j!Read
  <2>2. Refused(kv, op[c])
    BY <2>1 DEF Refused
  <2> QED
    BY <1>2, <2>1, <2>2 DEF After
<1> QED
  BY <1>3, <1>4, <1>5

(* Every operation of a Neo4j store takes effect on the whole store at an  *)
(* instant of its own, the commit of its transaction, at most once per run *)
(* of it, or fails (Neo4jStore._write, _write_reconnecting).               *)
THEOREM Neo4jSerial == ASSUME Neo4jAllowed PROVE Neo4j!Spec => Neo4j!Serial!Spec
<1>1. Neo4j!Init => Neo4j!Serial!Init
  BY Neo4jSame, Neo4jSerialSame DEF Neo4j!Init, Neo4j!Serial!Init
<1>2. Neo4jInv /\ [Neo4j!Next]_(Neo4j!vars) => [Neo4j!Serial!Next]_(Neo4j!Serial!vars)
  <2> SUFFICES ASSUME Neo4jInv, [Neo4j!Next]_(Neo4j!vars)
               PROVE  [Neo4j!Serial!Next]_(Neo4j!Serial!vars)
    OBVIOUS
  <2>1. ASSUME NEW c \in Clients, NEW o \in Operations, Neo4j!Call(c, o)
        PROVE  Neo4j!Serial!Next
    <3>1. op[c] = NoOperation /\ Neo4j!Serial!NoOperation = NoOperation
      BY <2>1, Neo4jTargets, Neo4jSerialSame DEF Neo4j!Call
    <3>2. Neo4j!Serial!Call(c, o)
      BY <2>1, <3>1 DEF Neo4j!Call, Neo4j!Serial!Call
    <3> QED
      BY <3>2 DEF Neo4j!Serial!Next
  <2>2. ASSUME NEW c \in Clients, Neo4j!Read(c) \/ Neo4j!Commit(c)
        PROVE  [Neo4j!Serial!Next]_(Neo4j!Serial!vars)
    BY <2>2, Neo4jEffects
  <2>3. ASSUME NEW c \in Clients, NEW how \in {saw[c], "error"} \ {"none"}, Neo4j!Return(c, how),
               op[c] # NoOperation, UNCHANGED <<kv, effects, saw>>
        PROVE  Neo4j!Serial!Next
    <3>1. Neo4j!Serial!NoOperation = NoOperation /\ Neo4j!NoOperation = NoOperation
      BY Neo4jSame, Neo4jSerialSame
    <3>2. Neo4j!Serial!Return(c)
      BY <2>3, <3>1 DEF Neo4j!Return, Neo4j!Serial!Return
    <3> QED
      BY <3>2 DEF Neo4j!Serial!Next
  <2>4. ASSUME NEW c \in Clients, Neo4j!Answer(c) \/ Neo4j!Reconnect(c)
        PROVE  [Neo4j!Serial!Next]_(Neo4j!Serial!vars)
    <3>1. UNCHANGED <<kv, effects, saw>> /\ op[c] # NoOperation
      BY <2>4, Neo4jTargets DEF Neo4j!Answer, Neo4j!Reconnect, Neo4j!history
    <3>2. CASE Neo4j!Answer(c)
      <4>1. saw[c] \in {"done", "refused"} /\ Neo4j!Return(c, saw[c])
        BY <3>2 DEF Neo4j!Answer, Neo4jInv, Neo4jPlaced
      <4> QED
        BY <2>3, <3>1, <4>1
    <3>3. CASE Neo4j!Return(c, "error")
      BY <2>3, <3>1, <3>3
    <3>4. CASE ~Neo4j!Answer(c) /\ ~Neo4j!Return(c, "error")
      <4>1. UNCHANGED <<op, reply>>
        BY <2>4, <3>4 DEF Neo4j!Reconnect
      <4> QED
        BY <3>1, <4>1 DEF Neo4j!Serial!vars
    <3> QED
      BY <3>2, <3>3, <3>4
  <2>5. ASSUME NEW c \in Clients, Neo4j!Begin(c) \/ Neo4j!Break(c) \/ Neo4j!RunAgain(c)
        PROVE  UNCHANGED Neo4j!Serial!vars
    BY <2>5 DEF Neo4j!Begin, Neo4j!Break, Neo4j!RunAgain, Neo4j!history, Neo4j!Serial!vars
  <2>6. CASE Neo4j!ServerNotices \/ UNCHANGED Neo4j!vars
    BY <2>6 DEF Neo4j!ServerNotices, Neo4j!vars, Neo4j!history, Neo4j!Serial!vars
  <2> QED
    BY <2>1, <2>2, <2>4, <2>5, <2>6 DEF Neo4j!Next, Neo4j!Step
<1> QED
  BY <1>1, <1>2, Neo4jInductive, PTL DEF Neo4j!Spec, Neo4j!Serial!Spec

-----------------------------------------------------------------------------
(* MongoDB.  A transaction that has changed the coordinator saw the        *)
(* revision that is current (MongoSees), so its snapshot is the store as   *)
(* it is; and whoever commits first gives the others' snapshots away.      *)
VARIABLES writer, landed, snapshot
Mongo == INSTANCE MongoTransactions

MongoAllowed ==
  /\ ConstantsFit(Operations) /\ MaxRetries \in Nat /\ MaxCalls \in Nat
  /\ Nobody \notin Clients

(* A call takes effect once per connection, with the commit that landed.   *)
MongoPlaced(c) ==
  /\ pc[c] = "idle" => op[c] = NoOperation
  /\ pc[c] \in {"begin", "lock", "work"} => effects[c] <= Before(c)
  /\ pc[c] = "commit" /\ c \notin landed => effects[c] <= Before(c)
  /\ pc[c] \in {"commit", "answer", "lost"} => effects[c] <= Before(c) + 1
  /\ pc[c] = "answer" => saw[c] \in {"done", "refused"}
  /\ c \in landed => saw[c] = "done"

MongoSees(c) ==
  /\ pc[c] \in {"lock", "work", "commit"} /\ snapshot[c].revision = revision =>
       \A n \in Nodes : snapshot[c].kv[n] = kv[n]
  /\ pc[c] \in {"work", "commit"} /\ writer = c /\ c \notin landed =>
       snapshot[c].revision = revision
  /\ pc[c] = "commit" => ~Refused(snapshot[c].kv, op[c])

MongoInv == Mongo!TypeOK /\ \A c \in Clients : MongoPlaced(c) /\ MongoSees(c)

LEMMA MongoSame ==
  ASSUME NEW store, NEW read, NEW o
  PROVE  /\ Mongo!NoOperation = NoOperation /\ Mongo!Empty = Empty
         /\ Mongo!IsStore(store) = IsStore(store)
         /\ \A n : Mongo!Has(store, n) = Has(store, n)
         /\ Mongo!Reads(o) = Reads(o) /\ Mongo!Needed(o) = Needed(o)
         /\ Mongo!Writes(read, o) = Writes(read, o)
         /\ Mongo!Written(store, read, o) = Written(store, read, o)
<1>1. /\ Mongo!NoOperation = NoOperation /\ Mongo!Empty = Empty
      /\ Mongo!IsStore(store) = IsStore(store)
      /\ \A s, n : Mongo!Has(s, n) = Has(s, n)
      /\ Mongo!Reads(o) = Reads(o) /\ Mongo!Needed(o) = Needed(o)
  BY DEF Mongo!NoOperation, NoOperation, Mongo!Empty, Empty, Mongo!IsStore, IsStore,
         Mongo!Has, Has, Mongo!Reads, Reads, Mongo!Needed, Needed
<1>2. \A old, r : Mongo!AddRival(old, r) = AddRival(old, r)
  BY DEF Mongo!AddRival, AddRival, Mongo!AddRivalAlways, AddRivalAlways,
         Mongo!AddRivalOnce, AddRivalOnce, Mongo!Range, Range
<1>3. \A n : Mongo!NewValue(read, o, n) = NewValue(read, o, n)
  BY <1>1, <1>2 DEF Mongo!NewValue, NewValue
<1>4. Mongo!Writes(read, o) = Writes(read, o)
  BY <1>3 DEF Mongo!Writes, Writes
<1>5. Mongo!Written(store, read, o) = Written(store, read, o)
  BY <1>3, <1>4 DEF Mongo!Written, Written
<1> QED
  BY <1>1, <1>4, <1>5

LEMMA MongoSerialSame ==
  ASSUME NEW store, NEW o
  PROVE  /\ Mongo!Serial!Refused(store, o) = Refused(store, o)
         /\ Mongo!Serial!After(store, o) = After(store, o)
         /\ Mongo!Serial!NoOperation = NoOperation /\ Mongo!Serial!Empty = Empty
<1>1. /\ Mongo!Serial!NoOperation = NoOperation /\ Mongo!Serial!Empty = Empty
      /\ \A s, n : Mongo!Serial!Has(s, n) = Has(s, n)
  BY DEF Mongo!Serial!NoOperation, NoOperation, Mongo!Serial!Empty, Empty,
         Mongo!Serial!Has, Has
<1>2. \A old, r : Mongo!Serial!AddRival(old, r) = AddRival(old, r)
  BY DEF Mongo!Serial!AddRival, AddRival, Mongo!Serial!AddRivalAlways, AddRivalAlways,
         Mongo!Serial!AddRivalOnce, AddRivalOnce, Mongo!Serial!Range, Range
<1>3. \A n : Mongo!Serial!NewValue(store, o, n) = NewValue(store, o, n)
  BY <1>1, <1>2 DEF Mongo!Serial!NewValue, NewValue
<1>4. Mongo!Serial!Writes(store, o) = Writes(store, o)
  BY <1>3 DEF Mongo!Serial!Writes, Writes
<1>5. Mongo!Serial!Written(store, store, o) = Written(store, store, o)
  BY <1>3, <1>4 DEF Mongo!Serial!Written, Written
<1>6. Mongo!Serial!Refused(store, o) = Refused(store, o)
  BY <1>1 DEF Mongo!Serial!Refused, Refused, Mongo!Serial!Needed, Needed
<1> QED
  BY <1>1, <1>5, <1>6 DEF Mongo!Serial!After, After

MongoActs(c) ==
  \/ (\E o \in Operations : Mongo!Call(c, o)) \/ Mongo!Begin(c) \/ Mongo!Lock(c) \/ Mongo!Work(c)
  \/ Mongo!Gone(c) \/ Mongo!Commit(c) \/ Mongo!CommitAgain(c) \/ Mongo!Answer(c)
  \/ Mongo!Break(c) \/ Mongo!Reconnect(c)

LEMMA MongoTargets ==
  ASSUME MongoAllowed, MongoInv, NEW c \in Clients
  PROVE  /\ op[c] = NoOperation <=> pc[c] = "idle"
         /\ op[c] # NoOperation => op[c] \in Operations
<1>1. op[c] \in Operations \/ (op[c] = NoOperation /\ pc[c] = "idle")
  BY MongoSame DEF MongoInv, Mongo!TypeOK
<1>2. pc[c] = "idle" => op[c] = NoOperation
  BY DEF MongoInv, MongoPlaced
<1>3. op[c] \in Operations => op[c] # NoOperation
  BY Kinds DEF MongoAllowed
<1> QED
  BY <1>1, <1>2, <1>3

(* An operation on a snapshot that is the store.                           *)
LEMMA SameSnapshot ==
  ASSUME ConstantsFit(Operations), NEW o \in Operations, NEW store, NEW read,
         \A n \in Nodes : read[n] = store[n]
  PROVE  /\ Refused(read, o) <=> Refused(store, o)
         /\ Written(store, read, o) = Written(store, store, o)
<1>1. Needed(o) \subseteq Nodes
  <2>1. Reads(o) \in Seq(Nodes) /\ Needed(o) \subseteq Range(Reads(o))
    BY ReadsAll
  <2> QED
    BY <2>1 DEF Range
<1>2. Refused(read, o) <=> Refused(store, o)
  BY <1>1 DEF Refused, Has
<1>3. o.do = "drop" \/ read[o.node] = store[o.node]
  BY Kinds
<1> QED
  BY <1>2, <1>3, SameWritten

LEMMA MongoCommits ==
  ASSUME MongoAllowed, MongoInv, NEW c \in Clients, Mongo!Commit(c)
  PROVE  /\ ~Refused(kv, op[c]) /\ kv' = Written(kv, kv, op[c]) /\ IsStore(kv')
         /\ revision' = revision + 1 /\ writer = c /\ writer' = Nobody
<1>1. /\ pc[c] = "commit" /\ writer = c /\ c \notin landed /\ writer' = Nobody
      /\ kv' = Written(kv, snapshot[c].kv, op[c]) /\ revision' = revision + 1
  BY MongoSame DEF Mongo!Commit
<1>2. op[c] \in Operations /\ ConstantsFit(Operations)
  BY <1>1, MongoTargets DEF MongoAllowed
<1>3. (\A n \in Nodes : snapshot[c].kv[n] = kv[n]) /\ ~Refused(snapshot[c].kv, op[c])
  BY <1>1 DEF MongoInv, MongoSees
<1>4. ~Refused(kv, op[c]) /\ Written(kv, snapshot[c].kv, op[c]) = Written(kv, kv, op[c])
  BY <1>2, <1>3, SameSnapshot
<1>5. op[c].do = "meta" => Has(kv, op[c].node)
  BY <1>4 DEF Refused, Needed
<1>6. IsStore(kv)
  BY MongoSame DEF MongoInv, Mongo!TypeOK
<1> QED
  BY <1>1, <1>2, <1>4, <1>5, <1>6, WrittenKeeps

LEMMA MongoOthers ==
  ASSUME MongoAllowed, MongoInv, NEW c \in Clients, MongoActs(c), NEW d \in Clients, d # c
  PROVE  MongoPlaced(d)' /\ MongoSees(d)'
<1> USE MongoSame DEF MongoInv, Mongo!TypeOK
<1>1. /\ pc'[d] = pc[d] /\ op'[d] = op[d] /\ snapshot'[d] = snapshot[d]
      /\ again'[d] = again[d] /\ effects'[d] = effects[d] /\ saw'[d] = saw[d]
      /\ d \in landed' <=> d \in landed
      /\ writer' = d => writer = d
  <2> USE DEF Mongo!Goto, Mongo!Forget, Mongo!history
  <2>1. CASE (\E o \in Operations : Mongo!Call(c, o)) \/ Mongo!Begin(c)
    BY <2>1 DEF Mongo!Call, Mongo!Begin
  <2>2. CASE Mongo!Lock(c)
    BY <2>2 DEF Mongo!Lock, Mongo!RunAgain, Mongo!Return
  <2>3. CASE Mongo!Work(c)
    BY <2>3, MongoAllowed DEF Mongo!Work, Mongo!Abandon, MongoAllowed
  <2>4. CASE Mongo!Gone(c)
    BY <2>4 DEF Mongo!Gone, Mongo!RunAgain, Mongo!Return
  <2>5. CASE Mongo!Commit(c)
    BY <2>5, MongoAllowed DEF Mongo!Commit, MongoAllowed
  <2>6. CASE Mongo!CommitAgain(c)
    BY <2>6 DEF Mongo!CommitAgain, Mongo!RunAgain, Mongo!Return
  <2>7. CASE Mongo!Answer(c) \/ Mongo!Reconnect(c)
    BY <2>7 DEF Mongo!Answer, Mongo!Reconnect, Mongo!Return
  <2>8. CASE Mongo!Break(c)
    BY <2>8, MongoAllowed DEF Mongo!Break, Mongo!RunAgain, Mongo!Abandon, MongoAllowed
  <2> QED
    BY <2>1, <2>2, <2>3, <2>4, <2>5, <2>6, <2>7, <2>8 DEF MongoActs
<1>2. Mongo!Commit(c) \/ UNCHANGED <<kv, revision>>
  BY DEF MongoActs, Mongo!Call, Mongo!Begin, Mongo!Lock, Mongo!Work, Mongo!Gone, Mongo!CommitAgain,
     Mongo!Answer, Mongo!Break, Mongo!Reconnect
<1>3. MongoPlaced(d)'
  BY <1>1 DEF MongoPlaced, Before
<1>4. CASE UNCHANGED <<kv, revision>>
  <2>1. MongoSees(d)'
    BY <1>1, <1>4 DEF MongoSees, Refused, Has
  <2> QED
    BY <1>3, <2>1
<1>5. CASE Mongo!Commit(c)
  <2>1. writer' = Nobody /\ Nobody # d /\ revision' = revision + 1
    BY <1>5, MongoCommits DEF MongoAllowed
  <2>2. snapshot[d].revision \in 0 .. revision /\ revision \in Nat
    OBVIOUS
  <2>3. snapshot'[d].revision # revision'
    BY <1>1, <2>1, <2>2
  <2>4. MongoSees(d)'
    BY <1>1, <2>1, <2>3 DEF MongoSees, Refused, Has
  <2> QED
    BY <1>3, <2>4
<1> QED
  BY <1>2, <1>4, <1>5

LEMMA MongoOwn ==
  ASSUME MongoAllowed, MongoInv, NEW c \in Clients, MongoActs(c)
  PROVE  MongoPlaced(c)' /\ MongoSees(c)'
<1>1. /\ pc \in [Clients -> {"idle", "begin", "lock", "work", "commit", "answer", "lost"}]
      /\ op \in [Clients -> Operations \cup {NoOperation}] /\ DOMAIN snapshot = Clients
      /\ again \in [Clients -> BOOLEAN] /\ retries \in [Clients -> 0 .. MaxRetries]
      /\ effects \in [Clients -> 0 .. 2] /\ saw \in [Clients -> {"none", "done", "refused"}]
      /\ (c \in landed => pc[c] = "commit") /\ Nobody # c
      /\ revision \in Nat /\ snapshot[c].revision \in 0 .. revision
      /\ Mongo!NoOperation = NoOperation
  BY MongoSame DEF MongoInv, MongoAllowed, Mongo!TypeOK
<1>2. MongoPlaced(c) /\ MongoSees(c) /\ effects[c] \in 0 .. 2
  BY <1>1 DEF MongoInv
<1>3. ASSUME pc'[c] \in {"idle", "begin"}, pc'[c] = "idle" => op'[c] = NoOperation,
             pc'[c] = "begin" => effects'[c] <= Before(c)', c \notin landed'
      PROVE  MongoPlaced(c)' /\ MongoSees(c)'
  BY <1>3 DEF MongoPlaced, MongoSees
<1>4. ASSUME Mongo!RunAgain(c, Mongo!Return(c, "error")), effects[c] <= Before(c),
             UNCHANGED effects, c \notin landed'
      PROVE  MongoPlaced(c)' /\ MongoSees(c)'
  <2>1. CASE Mongo!MayRetry(c)
    BY <1>1, <1>3, <1>4, <2>1 DEF Mongo!RunAgain, Mongo!Goto, Before
  <2>2. CASE ~Mongo!MayRetry(c)
    BY <1>1, <1>3, <1>4, <2>2 DEF Mongo!RunAgain, Mongo!Return, Mongo!Goto
  <2> QED
    BY <2>1, <2>2
<1>5. CASE \E o \in Operations : Mongo!Call(c, o)
  <2>1. pc'[c] = "begin" /\ effects'[c] = 0 /\ UNCHANGED <<again, landed>> /\ pc[c] = "idle"
    BY <1>1, <1>5 DEF Mongo!Call, Mongo!Goto
  <2> QED
    BY <1>1, <1>3, <2>1 DEF Before
<1>6. CASE Mongo!Begin(c)
  <2>1. /\ pc[c] = "begin" /\ pc'[c] = "lock"
        /\ snapshot'[c] = [kv |-> kv, revision |-> revision]
        /\ UNCHANGED <<kv, revision, landed, op, again, effects>>
    BY <1>1, <1>6 DEF Mongo!Begin, Mongo!Goto, Mongo!history
  <2> QED
    BY <1>1, <1>2, <2>1 DEF MongoPlaced, MongoSees, Before
<1>7. CASE Mongo!Lock(c)
  <2>1. pc[c] = "lock" /\ UNCHANGED <<kv, revision, landed, effects>>
    BY <1>7 DEF Mongo!Lock, Mongo!history
  <2>2. CASE Mongo!Uncontended(c)
    <3>1. /\ pc'[c] = "work" /\ revision = snapshot[c].revision
          /\ UNCHANGED <<op, snapshot, again>>
      BY <1>1, <1>7, <2>2 DEF Mongo!Lock, Mongo!Uncontended, Mongo!Goto
    <3> QED
      BY <1>1, <1>2, <2>1, <3>1 DEF MongoPlaced, MongoSees, Before
  <2>3. CASE ~Mongo!Uncontended(c)
    BY <1>1, <1>2, <1>4, <1>7, <2>1, <2>3 DEF Mongo!Lock, MongoPlaced
  <2> QED
    BY <2>2, <2>3
<1>8. CASE Mongo!Work(c)
  <2>1. /\ pc[c] = "work" /\ writer = c
        /\ UNCHANGED <<kv, revision, landed, op, snapshot, again>>
    BY <1>8 DEF Mongo!Work
  <2>2. CASE Refused(snapshot[c].kv, op[c])
    <3>1. pc'[c] = "answer" /\ effects'[c] = effects[c] + 1 /\ saw'[c] = "refused"
      BY <1>1, <1>8, <2>2, MongoSame DEF Mongo!Work, Mongo!Refused, Refused, Mongo!Goto
    <3> QED
      BY <1>1, <1>2, <2>1, <3>1 DEF MongoPlaced, MongoSees, Before
  <2>3. CASE ~Refused(snapshot[c].kv, op[c])
    <3>1. Mongo!Refused(snapshot[c].kv, op[c]) = Refused(snapshot[c].kv, op[c])
      BY MongoSame DEF Mongo!Refused, Refused
    <3>2. pc' = [pc EXCEPT ![c] = "commit"] /\ UNCHANGED <<writer, effects, saw>>
      BY <1>8, <2>3, <3>1 DEF Mongo!Work, Mongo!Goto
    <3>3. MongoPlaced(c)'
      BY <1>1, <1>2, <2>1, <3>2 DEF MongoPlaced, Before
    <3>4. MongoSees(c)'
      BY <1>1, <1>2, <2>1, <2>3, <3>2 DEF MongoSees, Refused, Has
    <3> QED
      BY <3>3, <3>4
  <2> QED
    BY <2>2, <2>3
<1>9. CASE Mongo!Gone(c)
  BY <1>1, <1>2, <1>4, <1>9 DEF Mongo!Gone, Mongo!history, MongoPlaced
<1>10. CASE Mongo!Commit(c)
  <2>1. /\ pc[c] = "commit" /\ c \notin landed /\ revision' = revision + 1
        /\ effects'[c] = effects[c] + 1 /\ saw'[c] = "done"
        /\ UNCHANGED <<op, snapshot, again>> /\ writer' = Nobody
        /\ pc'[c] \in {"answer", "commit"} /\ (pc'[c] = "commit" => c \in landed')
    BY <1>1, <1>10 DEF Mongo!Commit, Mongo!Goto
  <2>2. MongoPlaced(c)'
    BY <1>1, <1>2, <2>1 DEF MongoPlaced, Before
  <2>3. MongoSees(c)'
    BY <1>1, <1>2, <2>1 DEF MongoSees, Refused, Has
  <2> QED
    BY <2>2, <2>3
<1>11. CASE Mongo!CommitAgain(c)
  <2>1. /\ pc[c] = "commit" /\ landed' = landed \ {c} /\ UNCHANGED <<effects, saw>>
    BY <1>11 DEF Mongo!CommitAgain, Mongo!history
  <2>2. CASE c \in landed
    <3>1. pc'[c] = "answer" /\ UNCHANGED again
      BY <1>1, <1>11, <2>2 DEF Mongo!CommitAgain, Mongo!Recognised, Mongo!Goto
    <3> QED
      BY <1>2, <2>1, <2>2, <3>1 DEF MongoPlaced, MongoSees, Before
  <2>3. CASE c \notin landed
    BY <1>1, <1>2, <1>4, <1>11, <2>1, <2>3 DEF Mongo!CommitAgain, Mongo!Recognised, MongoPlaced
  <2> QED
    BY <2>2, <2>3
<1>12. CASE Mongo!Answer(c)
  BY <1>1, <1>3, <1>12 DEF Mongo!Answer, Mongo!Return, Mongo!Goto
<1>13. CASE Mongo!Break(c)
  <2>1. /\ pc[c] \in {"begin", "lock", "work", "commit"}
        /\ UNCHANGED <<kv, revision, effects, saw>> /\ (writer' = c => writer = c)
    BY <1>1, <1>13 DEF Mongo!Break, Mongo!Abandon, Mongo!history
  <2>2. CASE pc'[c] = "begin" /\ pc[c] # "commit" /\ UNCHANGED <<again, landed>>
    BY <1>1, <1>2, <1>3, <2>1, <2>2 DEF MongoPlaced, Before
  <2>3. CASE pc'[c] = "lost" /\ UNCHANGED again /\ c \notin landed'
    BY <1>1, <1>2, <2>1, <2>3 DEF MongoPlaced, MongoSees, Before
  <2>4. CASE UNCHANGED <<pc, landed, snapshot, op, again>>
    BY <1>1, <1>2, <2>1, <2>4 DEF MongoPlaced, MongoSees, Before, Refused, Has
  <2>5. CASE pc[c] \in {"begin", "lock", "work"}
    BY <1>1, <1>13, <2>2, <2>3, <2>5 DEF Mongo!Break, Mongo!RunAgain, Mongo!Goto
  <2>6. CASE pc[c] = "commit"
    BY <1>1, <1>13, <2>3, <2>4, <2>6 DEF Mongo!Break, Mongo!Goto
  <2> QED
    BY <2>1, <2>5, <2>6
<1>14. CASE Mongo!Reconnect(c)
  <2>1. pc[c] = "lost" /\ UNCHANGED <<landed, effects>>
    BY <1>14 DEF Mongo!Reconnect, Mongo!history
  <2>2. CASE pc'[c] = "begin" /\ ~again[c] /\ again'[c]
    BY <1>1, <1>2, <1>3, <2>1, <2>2 DEF MongoPlaced, Before
  <2>3. CASE Mongo!Return(c, "error")
    BY <1>1, <1>3, <2>1, <2>3 DEF Mongo!Return, Mongo!Goto
  <2> QED
    BY <1>1, <1>14, <2>2, <2>3 DEF Mongo!Reconnect, Mongo!Goto
<1> QED
  BY <1>5, <1>6, <1>7, <1>8, <1>9, <1>10, <1>11, <1>12, <1>13, <1>14 DEF MongoActs

LEMMA MongoTypes ==
  ASSUME MongoAllowed, MongoInv, NEW c \in Clients, MongoActs(c)
  PROVE  Mongo!TypeOK'
<1> DEFINE Store ==
             /\ Mongo!IsStore(kv)' /\ revision' \in Nat /\ writer' \in Clients \cup {Nobody}
             /\ landed' \subseteq {d \in Clients : pc'[d] = "commit"}
           Told ==
             /\ effects' \in [Clients -> 0 .. 2] /\ calls' \in 0 .. MaxCalls
             /\ saw' \in [Clients -> {"none", "done", "refused"}]
           Sight ==
             /\ DOMAIN snapshot' = Clients
             /\ \A d \in Clients : Mongo!IsStore(snapshot'[d].kv) /\ snapshot'[d].revision \in 0 .. revision'
           Client ==
             /\ pc' \in [Clients -> {"idle", "begin", "lock", "work", "commit", "answer", "lost"}]
             /\ \A d \in Clients : op'[d] \in Operations \/ (op'[d] = NoOperation /\ pc'[d] = "idle")
             /\ op' \in [Clients -> Operations \cup {NoOperation}]
             /\ retries' \in [Clients -> 0 .. MaxRetries]
             /\ again' \in [Clients -> BOOLEAN]
             /\ reply' \in [Clients -> {"none", "done", "refused", "error"}]
<1>1. /\ Mongo!TypeOK /\ Mongo!IsStore(Mongo!Empty) /\ Mongo!NoOperation = NoOperation
      /\ MaxRetries \in Nat /\ MaxCalls \in Nat /\ Nobody \notin Clients
      /\ (pc[c] # "idle" => op[c] \in Operations)
      /\ \A d \in Clients : op[d] = NoOperation <=> pc[d] = "idle"
  <2>1. IsStore(Empty)
    BY DEF IsStore, Empty
  <2>2. \A d \in Clients : op[d] = NoOperation <=> pc[d] = "idle"
    BY MongoTargets
  <2> QED
    BY <2>1, <2>2, MongoSame, MongoTargets DEF MongoInv, MongoAllowed
<1>2. /\ pc[c] = "work" => effects[c] \in 0 .. 1
      /\ pc[c] = "commit" /\ c \notin landed => effects[c] \in 0 .. 1
      /\ pc[c] = "answer" => saw[c] \in {"done", "refused"}
  <2>1. MongoPlaced(c) /\ effects[c] \in 0 .. 2 /\ again[c] \in BOOLEAN
    BY <1>1 DEF MongoInv, Mongo!TypeOK
  <2> QED
    BY <2>1 DEF MongoPlaced, Before
<1>3. Store /\ Told /\ Sight /\ Client => Mongo!TypeOK'
  BY <1>1 DEF Mongo!TypeOK
<1>4. /\ pc \in [Clients -> {"idle", "begin", "lock", "work", "commit", "answer", "lost"}]
      /\ landed \subseteq {d \in Clients : pc[d] = "commit"}
      /\ retries \in [Clients -> 0 .. MaxRetries] /\ again \in [Clients -> BOOLEAN]
  BY <1>1 DEF Mongo!TypeOK
<1>5. UNCHANGED <<effects, saw, calls>> => Told
  BY <1>1 DEF Mongo!TypeOK
<1>6. /\ UNCHANGED <<snapshot, revision>> => Sight
      /\ Mongo!Forget(c) /\ UNCHANGED revision => Sight
  <2>1. UNCHANGED <<snapshot, revision>> => Sight
    BY <1>1 DEF Mongo!TypeOK
  <2>2. ASSUME Mongo!Forget(c), UNCHANGED revision PROVE Sight
    <3>1. /\ snapshot' = [snapshot EXCEPT ![c] = [kv |-> Mongo!Empty, revision |-> 0]]
          /\ revision \in Nat
      BY <1>1, <2>2 DEF Mongo!Forget, Mongo!NoSnapshot, Mongo!TypeOK
    <3> QED
      BY <1>1, <2>2, <3>1 DEF Mongo!TypeOK
  <2> QED
    BY <2>1, <2>2
<1>7. ASSUME NEW place \in {"begin", "lock", "work", "commit", "answer", "lost"}, pc[c] # "idle",
             pc' = [pc EXCEPT ![c] = place], UNCHANGED <<op, again, reply>>,
             retries' \in [Clients -> 0 .. MaxRetries]
      PROVE  Client
  BY <1>1, <1>7 DEF Mongo!TypeOK
<1>8. ASSUME NEW place, pc' = [pc EXCEPT ![c] = place],
             UNCHANGED <<kv, revision>>, writer' \in Clients \cup {Nobody},
             landed' \subseteq landed, c \in landed' => place = "commit"
      PROVE  Store
  BY <1>1, <1>4, <1>8 DEF Mongo!TypeOK, Mongo!IsStore
<1>9. writer \in Clients \cup {Nobody} /\ (Mongo!Abandon(c) => writer' \in Clients \cup {Nobody})
  BY <1>1 DEF Mongo!TypeOK, Mongo!Abandon
<1>10. ASSUME NEW how \in {"done", "refused", "error"}, Mongo!Return(c, how), UNCHANGED revision
       PROVE  Client /\ Sight /\ pc' = [pc EXCEPT ![c] = "idle"]
  <2>1. Sight
    BY <1>6, <1>10 DEF Mongo!Return
  <2>2. Client /\ pc' = [pc EXCEPT ![c] = "idle"]
    BY <1>1, <1>10 DEF Mongo!Return, Mongo!Goto, Mongo!TypeOK
  <2> QED
    BY <2>1, <2>2
<1>11. Mongo!MayRetry(c) /\ Mongo!CountRetry(c) => retries' \in [Clients -> 0 .. MaxRetries]
  BY <1>1, <1>4 DEF Mongo!MayRetry, Mongo!CountRetry
<1>12. ASSUME Mongo!RunAgain(c, Mongo!Return(c, "error")), pc[c] # "idle",
              UNCHANGED <<kv, revision, writer, effects, saw, calls>>,
              landed' \subseteq landed \ {c}
       PROVE  Mongo!TypeOK'
  <2>1. CASE Mongo!MayRetry(c)
    <3>1. /\ pc' = [pc EXCEPT ![c] = "begin"] /\ Mongo!Forget(c) /\ Mongo!CountRetry(c)
          /\ UNCHANGED <<op, again, reply>>
      BY <1>12, <2>1 DEF Mongo!RunAgain, Mongo!Goto
    <3>2. Client /\ Store
      BY <1>7, <1>8, <1>9, <1>11, <1>12, <2>1, <3>1
    <3> QED
      BY <1>3, <1>5, <1>6, <1>12, <3>1, <3>2
  <2>2. CASE ~Mongo!MayRetry(c)
    <3>1. Mongo!Return(c, "error")
      BY <1>12, <2>2 DEF Mongo!RunAgain
    <3>2. Client /\ Sight /\ pc' = [pc EXCEPT ![c] = "idle"]
      BY <1>10, <1>12, <3>1
    <3>3. Store
      BY <1>8, <1>9, <1>12, <3>2
    <3> QED
      BY <1>3, <1>5, <1>12, <3>2, <3>3
  <2> QED
    BY <2>1, <2>2
<1> HIDE DEF Store, Told, Sight, Client
<1>13. CASE \E o \in Operations : Mongo!Call(c, o)
  <2>1. PICK o \in Operations : Mongo!Call(c, o)
    BY <1>13
  <2>2. pc' = [pc EXCEPT ![c] = "begin"] /\ pc[c] = "idle" /\ op' = [op EXCEPT ![c] = o]
        /\ UNCHANGED <<kv, revision, writer, landed, snapshot, retries, again>>
        /\ reply' = [reply EXCEPT ![c] = "none"]
    BY <2>1 DEF Mongo!Call, Mongo!Goto
  <2>3. Told
    BY <1>1, <2>1 DEF Mongo!Call, Mongo!TypeOK, Told
  <2>4. Client
    BY <1>1, <2>2 DEF Mongo!TypeOK, Client
  <2>5. Store
    BY <1>4, <1>8, <1>9, <2>2
  <2> QED
    BY <1>3, <1>6, <2>2, <2>3, <2>4, <2>5
<1>14. CASE Mongo!Begin(c)
  <2>1. /\ pc[c] = "begin" /\ pc' = [pc EXCEPT ![c] = "lock"]
        /\ snapshot' = [snapshot EXCEPT ![c] = [kv |-> kv, revision |-> revision]]
        /\ UNCHANGED <<kv, revision, writer, landed, op, retries, again, reply, effects, saw, calls>>
    BY <1>14 DEF Mongo!Begin, Mongo!Goto, Mongo!history
  <2>2. Client /\ Store
    BY <1>4, <1>7, <1>8, <1>9, <2>1
  <2>3. Sight
    BY <1>1, <2>1 DEF Mongo!TypeOK, Sight
  <2> QED
    BY <1>3, <1>5, <2>1, <2>2, <2>3
<1>15. CASE Mongo!Lock(c)
  <2>1. pc[c] = "lock" /\ UNCHANGED <<kv, revision, landed, effects, saw, calls>> /\ c \notin landed
    BY <1>4, <1>15 DEF Mongo!Lock, Mongo!history
  <2>2. CASE Mongo!Uncontended(c)
    <3>1. /\ pc' = [pc EXCEPT ![c] = "work"] /\ writer' = c
          /\ UNCHANGED <<op, snapshot, retries, again, reply>>
      BY <1>15, <2>2 DEF Mongo!Lock, Mongo!Goto
    <3>2. Client /\ Store
      BY <1>4, <1>7, <1>8, <2>1, <3>1
    <3> QED
      BY <1>3, <1>5, <1>6, <2>1, <3>1, <3>2
  <2>3. CASE ~Mongo!Uncontended(c)
    BY <1>12, <1>15, <2>1, <2>3 DEF Mongo!Lock
  <2> QED
    BY <2>2, <2>3
<1>16. CASE Mongo!Work(c)
  <2>1. /\ pc[c] = "work" /\ UNCHANGED <<kv, revision, landed, op, snapshot, retries, again, reply, calls>>
        /\ c \notin landed
    BY <1>4, <1>16 DEF Mongo!Work
  <2>2. CASE Mongo!Refused(snapshot[c].kv, op[c])
    <3>1. /\ pc' = [pc EXCEPT ![c] = "answer"] /\ Mongo!Abandon(c)
          /\ effects' = [effects EXCEPT ![c] = @ + 1] /\ saw' = [saw EXCEPT ![c] = "refused"]
      BY <1>16, <2>2 DEF Mongo!Work, Mongo!Goto
    <3>2. Told
      BY <1>1, <1>2, <2>1, <3>1 DEF Mongo!TypeOK, Told
    <3>3. Client /\ Store
      BY <1>4, <1>7, <1>8, <1>9, <2>1, <3>1
    <3> QED
      BY <1>3, <1>6, <2>1, <3>2, <3>3
  <2>3. CASE ~Mongo!Refused(snapshot[c].kv, op[c])
    <3>1. pc' = [pc EXCEPT ![c] = "commit"] /\ UNCHANGED <<writer, effects, saw>>
      BY <1>16, <2>3 DEF Mongo!Work, Mongo!Goto
    <3>2. Client /\ Store
      BY <1>4, <1>7, <1>8, <1>9, <2>1, <3>1
    <3> QED
      BY <1>3, <1>5, <1>6, <2>1, <3>1, <3>2
  <2> QED
    BY <2>2, <2>3
<1>17. CASE Mongo!Gone(c)
  <2>1. /\ pc[c] = "work" /\ Mongo!RunAgain(c, Mongo!Return(c, "error"))
        /\ UNCHANGED <<kv, revision, writer, landed, effects, saw, calls>>
    BY <1>17 DEF Mongo!Gone, Mongo!history
  <2> QED
    BY <1>4, <1>12, <2>1
<1>18. CASE Mongo!Commit(c)
  <2>1. /\ pc[c] = "commit" /\ c \notin landed /\ revision' = revision + 1 /\ writer' = Nobody
        /\ effects' = [effects EXCEPT ![c] = @ + 1] /\ saw' = [saw EXCEPT ![c] = "done"]
        /\ UNCHANGED <<op, snapshot, retries, again, reply, calls>>
        /\ \/ pc' = [pc EXCEPT ![c] = "answer"] /\ UNCHANGED landed
           \/ landed' = landed \cup {c} /\ UNCHANGED pc
    BY <1>18 DEF Mongo!Commit, Mongo!Goto
  <2>2. Mongo!IsStore(kv)'
    BY <1>18, MongoCommits, MongoSame DEF Mongo!IsStore, IsStore
  <2>3. revision' \in Nat /\ landed' \subseteq {d \in Clients : pc'[d] = "commit"}
    BY <1>1, <1>4, <2>1 DEF Mongo!TypeOK
  <2>4. Store
    BY <2>1, <2>2, <2>3 DEF Store
  <2>5. Told
    BY <1>1, <1>2, <2>1 DEF Mongo!TypeOK, Told
  <2>6. Sight
    BY <1>1, <2>1 DEF Mongo!TypeOK, Sight
  <2>7. CASE pc' = [pc EXCEPT ![c] = "answer"]
    BY <1>3, <1>4, <1>7, <2>1, <2>4, <2>5, <2>6, <2>7
  <2>8. CASE UNCHANGED pc
    <3>1. Client
      BY <1>1, <2>1, <2>8 DEF Mongo!TypeOK, Client
    <3> QED
      BY <1>3, <2>4, <2>5, <2>6, <3>1
  <2> QED
    BY <2>1, <2>7, <2>8
<1>19. CASE Mongo!CommitAgain(c)
  <2>1. /\ pc[c] = "commit" /\ landed' = landed \ {c}
        /\ UNCHANGED <<kv, revision, writer, effects, saw, calls>>
    BY <1>19 DEF Mongo!CommitAgain, Mongo!history
  <2>2. CASE Mongo!Recognised(c)
    <3>1. pc' = [pc EXCEPT ![c] = "answer"] /\ UNCHANGED <<op, snapshot, retries, again, reply>>
      BY <1>19, <2>2 DEF Mongo!CommitAgain, Mongo!Goto
    <3>2. Client /\ Store
      BY <1>4, <1>7, <1>8, <1>9, <2>1, <3>1
    <3> QED
      BY <1>3, <1>5, <1>6, <2>1, <3>1, <3>2
  <2>3. CASE ~Mongo!Recognised(c)
    BY <1>12, <1>19, <2>1, <2>3 DEF Mongo!CommitAgain
  <2> QED
    BY <2>2, <2>3
<1>20. CASE Mongo!Answer(c)
  <2>1. /\ pc[c] = "answer" /\ Mongo!Return(c, saw[c]) /\ c \notin landed
        /\ UNCHANGED <<kv, revision, writer, landed, effects, saw, calls>>
    BY <1>4, <1>20 DEF Mongo!Answer, Mongo!history
  <2>2. Client /\ Sight /\ pc' = [pc EXCEPT ![c] = "idle"]
    BY <1>2, <1>10, <2>1
  <2>3. Store
    BY <1>8, <1>9, <2>1, <2>2
  <2> QED
    BY <1>3, <1>5, <2>1, <2>2, <2>3
<1>21. CASE Mongo!Break(c)
  <2>1. Mongo!Abandon(c) /\ UNCHANGED <<kv, revision, effects, saw, calls>>
    BY <1>21 DEF Mongo!Break, Mongo!history
  <2>2. CASE /\ pc' = [pc EXCEPT ![c] = "begin"] /\ Mongo!Forget(c) /\ Mongo!MayRetry(c)
             /\ Mongo!CountRetry(c) /\ UNCHANGED <<op, again, reply, landed>>
             /\ pc[c] # "idle" /\ c \notin landed
    <3>1. Client /\ Store
      BY <1>7, <1>8, <1>9, <1>11, <2>1, <2>2
    <3> QED
      BY <1>3, <1>5, <1>6, <2>1, <2>2, <3>1
  <2>3. CASE /\ pc' = [pc EXCEPT ![c] = "lost"] /\ Mongo!Forget(c) /\ pc[c] # "idle"
             /\ UNCHANGED <<op, retries, again, reply>>
             /\ landed' \subseteq landed \ {c}
    <3>1. Client /\ Store
      BY <1>4, <1>7, <1>8, <1>9, <2>1, <2>3
    <3> QED
      BY <1>3, <1>5, <1>6, <2>1, <2>3, <3>1
  <2>4. CASE /\ pc[c] = "commit" /\ Mongo!MayRetry(c) /\ Mongo!CountRetry(c)
             /\ UNCHANGED <<pc, landed, snapshot, op, again, reply>>
    <3>1. pc' = [pc EXCEPT ![c] = "commit"]
      BY <1>4, <2>4
    <3>2. Client /\ Store
      BY <1>7, <1>8, <1>9, <1>11, <2>1, <2>4, <3>1
    <3> QED
      BY <1>3, <1>5, <1>6, <2>1, <2>4, <3>2
  <2>5. CASE pc[c] \in {"begin", "lock", "work"}
    <3>1. /\ Mongo!RunAgain(c, Mongo!Goto(c, "lost") /\ Mongo!Forget(c)
                                 /\ UNCHANGED <<op, retries, again, reply>>)
          /\ UNCHANGED landed /\ c \notin landed
      BY <1>4, <1>21, <2>5 DEF Mongo!Break
    <3>2. CASE Mongo!MayRetry(c)
      BY <2>2, <2>5, <3>1, <3>2 DEF Mongo!RunAgain, Mongo!Goto
    <3>3. CASE ~Mongo!MayRetry(c)
      BY <2>3, <2>5, <3>1, <3>3 DEF Mongo!RunAgain, Mongo!Goto
    <3> QED
      BY <3>2, <3>3
  <2>6. CASE pc[c] = "commit"
    BY <1>21, <2>3, <2>4, <2>6 DEF Mongo!Break, Mongo!Goto
  <2> QED
    BY <1>21, <2>5, <2>6 DEF Mongo!Break
<1>22. CASE Mongo!Reconnect(c)
  <2>1. /\ UNCHANGED <<kv, revision, writer, landed, effects, saw, calls>> /\ pc[c] = "lost"
        /\ c \notin landed
    BY <1>4, <1>22 DEF Mongo!Reconnect, Mongo!history
  <2>2. CASE Mongo!Return(c, "error")
    <3>1. Client /\ Sight /\ pc' = [pc EXCEPT ![c] = "idle"]
      BY <1>10, <2>1, <2>2
    <3>2. Store
      BY <1>8, <1>9, <2>1, <3>1
    <3> QED
      BY <1>3, <1>5, <2>1, <3>1, <3>2
  <2>3. CASE ~Mongo!Return(c, "error")
    <3>1. /\ pc' = [pc EXCEPT ![c] = "begin"] /\ again' = [again EXCEPT ![c] = TRUE]
          /\ retries' = [retries EXCEPT ![c] = 0] /\ UNCHANGED <<op, snapshot, reply>>
      BY <1>22, <2>3 DEF Mongo!Reconnect, Mongo!Goto
    <3>2. Client
      BY <1>1, <2>1, <3>1 DEF Mongo!TypeOK, Client
    <3>3. Store
      BY <1>8, <1>9, <2>1, <3>1
    <3> QED
      BY <1>3, <1>5, <1>6, <2>1, <3>1, <3>2, <3>3
  <2> QED
    BY <2>2, <2>3
<1> QED
  BY <1>13, <1>14, <1>15, <1>16, <1>17, <1>18, <1>19, <1>20, <1>21, <1>22 DEF MongoActs

LEMMA MongoInductive == ASSUME MongoAllowed PROVE Mongo!Spec => []MongoInv
<1>1. Mongo!Init => MongoInv
  <2> SUFFICES ASSUME Mongo!Init PROVE MongoInv
    OBVIOUS
  <2>1. IsStore(Empty) /\ Mongo!Empty = Empty /\ Mongo!NoOperation = NoOperation
        /\ MaxRetries \in Nat /\ MaxCalls \in Nat /\ Nobody \notin Clients
    BY MongoSame DEF IsStore, Empty, MongoAllowed
  <2>2. Mongo!IsStore(Empty)
    BY <2>1, MongoSame
  <2>3. Mongo!TypeOK
    <3>1. again \in [Clients -> BOOLEAN]
      BY Zenon DEF Mongo!Init
    <3>2. effects \in [Clients -> 0 .. 2] /\ retries \in [Clients -> 0 .. MaxRetries]
      BY <2>1 DEF Mongo!Init
    <3>3. /\ DOMAIN snapshot = Clients
          /\ \A c \in Clients : Mongo!IsStore(snapshot[c].kv) /\ snapshot[c].revision \in 0 .. revision
      BY <2>1, <2>2 DEF Mongo!Init, Mongo!NoSnapshot
    <3> QED
      BY <2>1, <2>2, <3>1, <3>2, <3>3 DEF Mongo!Init, Mongo!TypeOK
  <2>4. ASSUME NEW c \in Clients PROVE MongoPlaced(c) /\ MongoSees(c)
    BY <2>1 DEF Mongo!Init, MongoPlaced, MongoSees
  <2> QED
    BY <2>3, <2>4 DEF MongoInv
<1>2. MongoInv /\ [Mongo!Next]_(Mongo!vars) => MongoInv'
  <2> SUFFICES ASSUME MongoInv, [Mongo!Next]_(Mongo!vars) PROVE MongoInv'
    OBVIOUS
  <2>1. ASSUME NEW c \in Clients, MongoActs(c) PROVE MongoInv'
    BY <2>1, MongoTypes, MongoOwn, MongoOthers DEF MongoInv
  <2>2. ASSUME writer' = writer \/ writer' = Nobody,
               UNCHANGED <<kv, revision, landed, pc, op, snapshot, retries, again, reply,
                           effects, saw, calls>>
        PROVE  MongoInv'
    <3>1. \A c \in Clients : writer' = c => writer = c
      BY <2>2 DEF MongoAllowed
    <3>2. Mongo!TypeOK'
      BY <2>2 DEF MongoInv, Mongo!TypeOK, Mongo!IsStore
    <3>3. ASSUME NEW c \in Clients PROVE MongoPlaced(c)' /\ MongoSees(c)'
      BY <2>2, <3>1 DEF MongoInv, MongoPlaced, MongoSees, Refused, Has, Before
    <3> QED
      BY <3>2, <3>3 DEF MongoInv
  <2>3. Mongo!Expire => MongoInv'
    BY <2>2 DEF Mongo!Expire, Mongo!history
  <2>4. UNCHANGED Mongo!vars => MongoInv'
    BY <2>2 DEF Mongo!vars
  <2> QED
    BY <2>1, <2>3, <2>4 DEF Mongo!Next, MongoActs
<1> QED
  BY <1>1, <1>2, PTL DEF Mongo!Spec

LEMMA MongoEffects ==
  ASSUME MongoAllowed, MongoInv, NEW c \in Clients, Mongo!Work(c) \/ Mongo!Commit(c)
  PROVE  [Mongo!Serial!Next]_(Mongo!Serial!vars)
<1>1. /\ effects[c] < 2 /\ op[c] # NoOperation /\ op[c] \in Operations
      /\ UNCHANGED <<op, reply>>
  <2>1. /\ pc[c] = "work" \/ (pc[c] = "commit" /\ c \notin landed)
        /\ UNCHANGED <<op, reply>>
    BY DEF Mongo!Work, Mongo!Commit
  <2>2. effects[c] <= Before(c) /\ effects[c] \in 0 .. 2 /\ again[c] \in BOOLEAN
    BY <2>1 DEF MongoInv, MongoPlaced, Mongo!TypeOK
  <2>3. effects[c] < 2
    BY <2>2 DEF Before
  <2> QED
    BY <2>1, <2>3, MongoTargets DEF Mongo!Work, Mongo!Commit
<1>2. ASSUME effects' = [effects EXCEPT ![c] = @ + 1], kv' = After(kv, op[c]),
             saw' = [saw EXCEPT ![c] = IF Refused(kv, op[c]) THEN "refused" ELSE "done"]
      PROVE  Mongo!Serial!Next
  <2>1. /\ Mongo!Serial!NoOperation = NoOperation
        /\ Mongo!Serial!After(kv, op[c]) = After(kv, op[c])
        /\ Mongo!Serial!Refused(kv, op[c]) = Refused(kv, op[c])
    BY MongoSerialSame
  <2>2. Mongo!Serial!Effect(c)
    BY <1>1, <1>2, <2>1, Zenon DEF Mongo!Serial!Effect
  <2> QED
    BY <2>2 DEF Mongo!Serial!Next
<1>3. CASE Mongo!Commit(c)
  <2>1. ~Refused(kv, op[c]) /\ kv' = After(kv, op[c])
    BY <1>3, MongoCommits DEF After
  <2>2. effects' = [effects EXCEPT ![c] = @ + 1] /\ saw' = [saw EXCEPT ![c] = "done"]
    BY <1>3 DEF Mongo!Commit
  <2> QED
    BY <1>2, <2>1, <2>2
<1>4. CASE Mongo!Work(c)
  <2>1. pc[c] = "work" /\ writer = c /\ c \notin landed /\ UNCHANGED kv
    BY <1>4 DEF Mongo!Work, MongoInv, Mongo!TypeOK
  <2>2. \A n \in Nodes : snapshot[c].kv[n] = kv[n]
    BY <2>1 DEF MongoInv, MongoSees
  <2>3. Mongo!Refused(snapshot[c].kv, op[c]) = Refused(snapshot[c].kv, op[c])
    BY MongoSame DEF Mongo!Refused, Refused
  <2>4. Refused(snapshot[c].kv, op[c]) <=> Refused(kv, op[c])
    BY <1>1, <2>2, SameSnapshot DEF MongoAllowed
  <2>5. CASE Refused(kv, op[c])
    <3>1. effects' = [effects EXCEPT ![c] = @ + 1] /\ saw' = [saw EXCEPT ![c] = "refused"]
      BY <1>4, <2>3, <2>4, <2>5 DEF Mongo!Work
    <3> QED
      BY <1>2, <2>1, <2>5, <3>1 DEF After
  <2>6. CASE ~Refused(kv, op[c])
    <3>1. UNCHANGED <<effects, saw>>
      BY <1>4, <2>3, <2>4, <2>6 DEF Mongo!Work
    <3> QED
      BY <1>1, <2>1, <3>1 DEF Mongo!Serial!vars
  <2> QED
    BY <2>5, <2>6
<1> QED
  BY <1>3, <1>4

(* Every operation of a MongoDB store takes effect on the whole store at   *)
(* an instant of its own, at most twice: the commit that is sent again is  *)
(* recognised, only a new connection runs the operation once more          *)
(* (MongoStore._write, _write_reconnecting).                               *)
THEOREM MongoSerial == ASSUME MongoAllowed PROVE Mongo!Spec => Mongo!Serial!Spec
<1>1. Mongo!Init => Mongo!Serial!Init
  BY MongoSame, MongoSerialSame DEF Mongo!Init, Mongo!Serial!Init
<1>2. MongoInv /\ [Mongo!Next]_(Mongo!vars) => [Mongo!Serial!Next]_(Mongo!Serial!vars)
  <2> SUFFICES ASSUME MongoInv, [Mongo!Next]_(Mongo!vars)
               PROVE  [Mongo!Serial!Next]_(Mongo!Serial!vars)
    OBVIOUS
  <2>1. ASSUME NEW c \in Clients, NEW o \in Operations, Mongo!Call(c, o)
        PROVE  Mongo!Serial!Next
    <3>1. op[c] = NoOperation /\ Mongo!Serial!NoOperation = NoOperation
      BY <2>1, MongoTargets, MongoSerialSame DEF Mongo!Call
    <3>2. Mongo!Serial!Call(c, o)
      BY <2>1, <3>1 DEF Mongo!Call, Mongo!Serial!Call
    <3> QED
      BY <3>2 DEF Mongo!Serial!Next
  <2>2. ASSUME NEW c \in Clients, Mongo!Work(c) \/ Mongo!Commit(c)
        PROVE  [Mongo!Serial!Next]_(Mongo!Serial!vars)
    BY <2>2, MongoEffects
  <2>3. ASSUME NEW c \in Clients, NEW how \in {saw[c], "error"} \ {"none"}, Mongo!Return(c, how),
               op[c] # NoOperation, UNCHANGED <<kv, effects, saw>>
        PROVE  Mongo!Serial!Next
    <3>1. Mongo!Serial!NoOperation = NoOperation /\ Mongo!NoOperation = NoOperation
      BY MongoSame, MongoSerialSame
    <3>2. Mongo!Serial!Return(c)
      BY <2>3, <3>1 DEF Mongo!Return, Mongo!Serial!Return
    <3> QED
      BY <3>2 DEF Mongo!Serial!Next
  <2>4. ASSUME NEW c \in Clients, UNCHANGED <<kv, effects, saw>>, op[c] # NoOperation,
               UNCHANGED <<op, reply>> \/ Mongo!Return(c, "error")
        PROVE  [Mongo!Serial!Next]_(Mongo!Serial!vars)
    BY <2>3, <2>4 DEF Mongo!Serial!vars
  <2>5. ASSUME NEW c \in Clients, Mongo!Lock(c) \/ Mongo!Gone(c) \/ Mongo!CommitAgain(c) \/ Mongo!Reconnect(c)
        PROVE  [Mongo!Serial!Next]_(Mongo!Serial!vars)
    <3>1. UNCHANGED <<kv, effects, saw>> /\ op[c] # NoOperation
      BY <2>5, MongoTargets DEF Mongo!Lock, Mongo!Gone, Mongo!CommitAgain, Mongo!Reconnect, Mongo!history
    <3>2. Mongo!RunAgain(c, Mongo!Return(c, "error")) =>
            UNCHANGED <<op, reply>> \/ Mongo!Return(c, "error")
      BY DEF Mongo!RunAgain
    <3>3. UNCHANGED <<op, reply>> \/ Mongo!Return(c, "error")
      BY <2>5, <3>2 DEF Mongo!Lock, Mongo!Gone, Mongo!CommitAgain, Mongo!Reconnect
    <3> QED
      BY <2>4, <3>1, <3>3
  <2>6. ASSUME NEW c \in Clients, Mongo!Answer(c)
        PROVE  Mongo!Serial!Next
    <3>1. UNCHANGED <<kv, effects, saw>> /\ op[c] # NoOperation
      BY <2>6, MongoTargets DEF Mongo!Answer, Mongo!history
    <3>2. saw[c] \in {"done", "refused"} /\ Mongo!Return(c, saw[c])
      BY <2>6 DEF Mongo!Answer, MongoInv, MongoPlaced
    <3> QED
      BY <2>3, <3>1, <3>2
  <2>7. ASSUME NEW c \in Clients, Mongo!Begin(c) \/ Mongo!Break(c)
        PROVE  UNCHANGED Mongo!Serial!vars
    BY <2>7 DEF Mongo!Begin, Mongo!Break, Mongo!RunAgain, Mongo!history, Mongo!Serial!vars
  <2>8. CASE Mongo!Expire \/ UNCHANGED Mongo!vars
    BY <2>8 DEF Mongo!Expire, Mongo!vars, Mongo!history, Mongo!Serial!vars
  <2> QED
    BY <2>1, <2>2, <2>5, <2>6, <2>7, <2>8 DEF Mongo!Next
<1> QED
  BY <1>1, <1>2, MongoInductive, PTL DEF Mongo!Spec, Mongo!Serial!Spec

=============================================================================
