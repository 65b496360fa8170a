---------------------------- MODULE PostgresSchema ----------------------------
(***************************************************************************)
(* The schema of a PostgreSQL database: several processes open, migrate    *)
(* and reconnect to it at once, each in one transaction under an advisory  *)
(* lock.  Workers of the legacy release may still reserve, and die with a  *)
(* reservation left, until an operator stops them before the migration.    *)
(***************************************************************************)
EXTENDS Naturals, FiniteSets

CONSTANTS
  Procs,
  Nobody,      \* the advisory lock is free
  MaxReserved, \* bound: reservations of legacy workers
  MaxCrashes   \* bound: crashes, and restorations of a backup
VARIABLES
  db,       \* its tables, version (0 for none), and whether their columns are as expected
  reserved, \* rows of pollard_reservations
  working,  \* whether workers of the legacy release run
  lock,     \* who holds the advisory lock
  pc,       \* process -> where it is
  want,     \* process -> "open", "migrate" or "reconnect"
  seen,     \* process -> the schema it has read
  result,   \* process -> how its last attempt ended
  crashes
vars == <<db, reserved, working, lock, pc, want, seen, result, crashes>>

Schema(tables, version, sound) == [tables |-> tables, version |-> version, sound |-> sound]
Current == Schema("current", 2, TRUE)
Legacy == Schema("legacy", 0, TRUE)
Found == {Schema("none", 0, TRUE), Schema("some", 0, TRUE), Legacy, Schema("legacy", 0, FALSE),
  Schema("legacy", 1, TRUE), Current, Schema("current", 2, FALSE), Schema("current", 3, TRUE)}

TypeOK ==
  /\ db \in Found /\ reserved \in 0 .. MaxReserved /\ working \in BOOLEAN
  /\ lock \in Procs \cup {Nobody}
  /\ pc \in [Procs -> {"closed", "waiting", "locked", "read", "open"}]
  /\ want \in [Procs -> {"open", "migrate", "reconnect"}] /\ seen \in [Procs -> Found]
  /\ result \in [Procs -> {"none", "done", "refused", "failed"}] /\ crashes \in 0 .. MaxCrashes
  /\ \A p \in Procs : lock = p <=> pc[p] \in {"locked", "read"}

Init ==
  /\ db \in Found /\ reserved = 0 /\ working = (db = Legacy) /\ lock = Nobody
  /\ pc = [p \in Procs |-> "closed"] /\ want = [p \in Procs |-> "open"]
  /\ seen = [p \in Procs |-> db] /\ result = [p \in Procs |-> "none"] /\ crashes = 0

-----------------------------------------------------------------------------
Begin(p, what) ==
  /\ pc[p] = (IF what = "reconnect" THEN "open" ELSE "closed") /\ (what = "migrate" => ~working)
  /\ pc' = [pc EXCEPT ![p] = "waiting"] /\ want' = [want EXCEPT ![p] = what]
  /\ result' = [result EXCEPT ![p] = "none"]
  /\ UNCHANGED <<db, reserved, working, lock, seen, crashes>>

(* pg_advisory_xact_lock.                                                  *)
TakeLock(p) == lock = Nobody /\ lock' = p

LockSchema(p) ==
  /\ pc[p] = "waiting" /\ TakeLock(p) /\ pc' = [pc EXCEPT ![p] = "locked"]
  /\ UNCHANGED <<db, reserved, working, want, seen, result, crashes>>

ReadSchema(p) ==
  /\ pc[p] = "locked" /\ seen' = [seen EXCEPT ![p] = db] /\ pc' = [pc EXCEPT ![p] = "read"]
  /\ UNCHANGED <<db, reserved, working, lock, want, result, crashes>>

(* What each makes of the schema it read.  A migration of the legacy       *)
(* tables refuses while there is any reservation.                          *)
Drained == reserved = 0

IsCurrent(s) == s = Current

Creates(p) == seen[p].tables = "none" /\ want[p] # "reconnect"
Upgrades(p) == want[p] = "migrate" /\ seen[p].tables = "legacy" /\ seen[p].sound /\ Drained
Accepts(p) == Creates(p) \/ Upgrades(p) \/ IsCurrent(seen[p])

(* The transaction ends, and with it the lock; a table that another        *)
(* process has created meanwhile makes it fail.                            *)
Commit(p) ==
  /\ pc[p] = "read" /\ lock' = IF lock = p THEN Nobody ELSE lock
  /\ LET fails == (Creates(p) \/ Upgrades(p)) /\ db # seen[p] IN
     /\ db' = IF Accepts(p) /\ ~fails /\ ~IsCurrent(seen[p]) THEN Current ELSE db
     /\ result' = [result EXCEPT ![p] = IF fails THEN "failed" ELSE IF Accepts(p) THEN "done" ELSE "refused"]
     /\ pc' = [pc EXCEPT ![p] = IF Accepts(p) /\ ~fails /\ want[p] # "migrate" THEN "open" ELSE "closed"]
  /\ UNCHANGED <<reserved, working, want, seen, crashes>>

(* A process dies or closes; its transaction is rolled back.               *)
Close(p) ==
  /\ pc[p] # "closed" /\ crashes < MaxCrashes /\ crashes' = crashes + 1
  /\ pc' = [pc EXCEPT ![p] = "closed"] /\ lock' = IF lock = p THEN Nobody ELSE lock
  /\ UNCHANGED <<db, reserved, working, want, seen, result>>

(* Workers of the legacy release, until they are stopped.                  *)
LegacyReserve == working /\ db.tables = "legacy" /\ reserved < MaxReserved /\ reserved' = reserved + 1
LegacyResolve == working /\ reserved > 0 /\ reserved' = reserved - 1
LegacyWork == (LegacyReserve \/ LegacyResolve) /\ UNCHANGED <<db, working, lock, pc, want, seen, result, crashes>>
StopWorkers ==
  /\ working /\ working' = FALSE
  /\ UNCHANGED <<db, reserved, lock, pc, want, seen, result, crashes>>

(* A database in place of the old one: its connections break, and those    *)
(* who had it open call reconnect().                                       *)
Restore ==
  /\ crashes < MaxCrashes /\ crashes' = crashes + 1 /\ ~working
  /\ db' \in Found /\ reserved' = 0 /\ lock' = Nobody
  /\ pc' = [p \in Procs |-> IF pc[p] = "open" THEN "waiting" ELSE "closed"]
  /\ want' = [p \in Procs |-> IF pc[p] = "open" THEN "reconnect" ELSE want[p]]
  /\ UNCHANGED <<working, seen, result>>

Next ==
  \/ \E p \in Procs :
       \/ \E what \in {"open", "migrate", "reconnect"} : Begin(p, what)
       \/ LockSchema(p) \/ ReadSchema(p) \/ Commit(p) \/ Close(p)
  \/ LegacyWork \/ StopWorkers \/ Restore
Spec == Init /\ [][Next]_vars

-----------------------------------------------------------------------------
(* Whoever has a store open has it at the current schema, columns and all, *)
(* after a restoration, too, and whoever else opens or migrates it         *)
(* (PostgresStore._initialize, reconnect, migrate).                        *)
OpenIsCurrent == \A p \in Procs : pc[p] = "open" => db = Current

(* "A new, empty target is created at version 2 on first connection"       *)
(* (postgres-operations.md), by one of the processes that connect first:   *)
(* the others find it, and none fails.                                     *)
NobodyFails == \A p \in Procs : result[p] # "failed"

(* No schema changes under a reservation that no one has resolved.         *)
ReservationsResolved == (db = Legacy /\ db' = Current /\ crashes' = crashes) => reserved = 0
=============================================================================
