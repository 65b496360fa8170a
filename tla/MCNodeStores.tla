---------------------------- MODULE MCNodeStores ----------------------------
(* The stores that keep nodes in a server: the transactions of Redis,      *)
(* MongoDB, Neo4j and PostgreSQL under two clients, the opening of a       *)
(* MongoDB and of a Neo4j namespace by three processes, and the schema of  *)
(* a PostgreSQL database.  A behaviour is of one of these parts; what the  *)
(* others have for state stands idle in it.                                *)
EXTENDS Naturals, Sequences, TLC

CONSTANTS
  Parts,    \* the parts of this run
  MaxCalls, \* bound: calls begun
  root, a, b, c1, c2, p1, p2, p3, x, y, k1, k2, s, t, Absent, Nobody, Orphan

Clients == {c1, c2}
Procs == {p1, p2, p3}
Keys == {k1, k2}
Two == {root, a}
Three == {root, a, b}
Parent == (root :> root) @@ (a :> root) @@ (b :> root)
ParentOfTwo == (root :> root) @@ (a :> root)
(* Two payloads hold the same two long strings in different orders.        *)
interned == (root :> <<>>) @@ (a :> <<s, t>>) @@ (b :> <<t, s>>)

Put(n, r) == [do |-> "put", node |-> n, arg |-> r]
Patch(n, k) == [do |-> "meta", node |-> n, arg |-> k]
Drop(ns) == [do |-> "drop", nodes |-> ns]
Writes == {Put(root, x), Put(a, x), Patch(root, k1), Patch(root, k2), Drop(Two)}
RedisWrites == Writes \cup {Put(root, y)}
PostgresWrites == {Put(root, x), Put(a, x), Put(a, y), Put(b, x), Patch(a, k1), Patch(a, k2), Drop({a, b})}

VARIABLES part, kv, identity, revision, touched, pc, op, seen, left, tries,
  again, fresh, reply, effects, saw, calls, writer, landed,
  snapshot, retries, lock, blobs, owner, version, physical,
  first, db, reserved, working, want, result, crashes

clientVars == <<kv, op, reply, effects, saw, calls>>
redisVars == <<identity, touched, tries, fresh>>
mongoVars == <<writer, landed, snapshot>>
postgresVars == <<blobs, owner>>
mongoOpeningVars == <<version, physical, first>>
schemaVars == <<db, reserved, working, want, result, crashes>>
StoresVars == <<part, clientVars, redisVars, revision, pc, seen, left, again,
  mongoVars, retries, lock, postgresVars, mongoOpeningVars,
  schemaVars>>

Redis == INSTANCE RedisTransactions WITH
  Nodes <- Two, Parent <- ParentOfTwo, Results <- {x, y}, NoteRepeats <- FALSE,
  Operations <- RedisWrites, WatchRetries <- 2
Mongo == INSTANCE MongoTransactions WITH
  Nodes <- Two, Parent <- ParentOfTwo, Results <- {x}, NoteRepeats <- FALSE,
  Operations <- Writes, MaxRetries <- 1
Neo4j == INSTANCE Neo4jTransactions WITH
  Nodes <- Two, Parent <- ParentOfTwo, Results <- {x}, NoteRepeats <- FALSE,
  Operations <- Writes, MaxRetries <- 1
Postgres == INSTANCE PostgresNodes WITH
  Nodes <- Three, Results <- {x, y}, NoteRepeats <- TRUE, Strings <- {s, t}, Interned <- interned,
  Operations <- PostgresWrites, MaxCalls <- MaxCalls + 1
(* NodeStoreProofs proves its theorems for constants like these.           *)
ASSUME PostgresAllowed == Postgres!Allowed
ASSUME DriversAllowed ==
  /\ Redis!ConstantsFit(RedisWrites) /\ Mongo!ConstantsFit(Writes) /\ Neo4j!ConstantsFit(Writes)
  /\ MaxCalls \in Nat /\ {Nobody, Orphan} \cap Clients = {}
MongoOpening == INSTANCE NamespaceOpening WITH
  Processes <- Procs, Creators <- {p1, p2}, Snapshot <- TRUE, MaxRevision <- 3
Neo4jOpening == INSTANCE NamespaceOpening WITH
  Processes <- Procs, Creators <- {p1, p2}, Snapshot <- FALSE, MaxRevision <- 3
Schema == INSTANCE PostgresSchema WITH MaxReserved <- 1, MaxCrashes <- 1
(* And for these, with bounds in Nat, of which MaxRevision is at least 1.  *)
ASSUME OpeningsAllowed == Nobody \notin Procs

Idle == "idle"
ClientVarsIdle ==
  /\ kv = Idle /\ op = Idle /\ reply = Idle /\ effects = Idle /\ saw = Idle
  /\ calls = Idle
RedisVarsIdle ==
  /\ identity = Idle /\ touched = Idle /\ tries = Idle /\ fresh = Idle
MongoVarsIdle == writer = Idle /\ landed = Idle /\ snapshot = Idle
PostgresVarsIdle == blobs = Idle /\ owner = Idle
MongoOpeningVarsIdle == version = Idle /\ physical = Idle /\ first = Idle
SchemaVarsIdle ==
  /\ db = Idle /\ reserved = Idle /\ working = Idle /\ want = Idle /\ result = Idle
  /\ crashes = Idle

RedisInit ==
  /\ part = "redis" /\ Redis!Init
  /\ MongoVarsIdle /\ retries = Idle /\ lock = Idle /\ PostgresVarsIdle
  /\ MongoOpeningVarsIdle /\ SchemaVarsIdle
RedisStep ==
  /\ part = "redis" /\ Redis!Next
  /\ UNCHANGED <<part, mongoVars, retries, lock, postgresVars,
                 mongoOpeningVars, schemaVars>>

MongoInit ==
  /\ part = "mongo" /\ Mongo!Init
  /\ RedisVarsIdle /\ seen = Idle /\ left = Idle /\ lock = Idle /\ PostgresVarsIdle
  /\ MongoOpeningVarsIdle /\ SchemaVarsIdle
MongoStep ==
  /\ part = "mongo" /\ Mongo!Next
  /\ UNCHANGED <<part, redisVars, seen, left, lock, postgresVars,
                 mongoOpeningVars, schemaVars>>

Neo4jInit ==
  /\ part = "neo4j" /\ Neo4j!Init
  /\ RedisVarsIdle /\ revision = Idle /\ MongoVarsIdle /\ PostgresVarsIdle
  /\ MongoOpeningVarsIdle /\ SchemaVarsIdle
Neo4jStep ==
  /\ part = "neo4j" /\ Neo4j!Next
  /\ UNCHANGED <<part, redisVars, revision, mongoVars, postgresVars,
                 mongoOpeningVars, schemaVars>>

PostgresInit ==
  /\ part = "postgres" /\ Postgres!Init
  /\ RedisVarsIdle /\ revision = Idle /\ again = Idle /\ MongoVarsIdle
  /\ retries = Idle /\ lock = Idle /\ MongoOpeningVarsIdle /\ SchemaVarsIdle
PostgresStep ==
  /\ part = "postgres" /\ Postgres!Next
  /\ UNCHANGED <<part, redisVars, revision, again, mongoVars, retries, lock,
                 mongoOpeningVars, schemaVars>>

MongoOpeningInit ==
  /\ part = "mongo_open" /\ MongoOpening!Init
  /\ ClientVarsIdle /\ RedisVarsIdle /\ seen = Idle /\ left = Idle /\ again = Idle
  /\ MongoVarsIdle /\ retries = Idle /\ lock = Idle /\ PostgresVarsIdle
  /\ SchemaVarsIdle
MongoOpeningStep ==
  /\ part = "mongo_open" /\ MongoOpening!Next
  /\ UNCHANGED <<part, clientVars, redisVars, seen, left, again, mongoVars,
                 retries, lock, postgresVars, schemaVars>>

Neo4jOpeningInit ==
  /\ part = "neo4j_open" /\ Neo4jOpening!Init
  /\ ClientVarsIdle /\ RedisVarsIdle /\ seen = Idle /\ left = Idle /\ again = Idle
  /\ MongoVarsIdle /\ retries = Idle /\ lock = Idle /\ PostgresVarsIdle
  /\ SchemaVarsIdle
Neo4jOpeningStep ==
  /\ part = "neo4j_open" /\ Neo4jOpening!Next
  /\ UNCHANGED <<part, clientVars, redisVars, seen, left, again, mongoVars,
                 retries, lock, postgresVars, schemaVars>>

SchemaInit ==
  /\ part = "schema" /\ Schema!Init
  /\ ClientVarsIdle /\ RedisVarsIdle /\ revision = Idle /\ left = Idle
  /\ again = Idle /\ MongoVarsIdle /\ retries = Idle /\ PostgresVarsIdle
  /\ MongoOpeningVarsIdle
SchemaStep ==
  /\ part = "schema" /\ Schema!Next
  /\ UNCHANGED <<part, clientVars, redisVars, revision, left, again,
                 mongoVars, retries, postgresVars, mongoOpeningVars>>

StoresInit == RedisInit \/ MongoInit \/ Neo4jInit \/ PostgresInit \/
              MongoOpeningInit \/ Neo4jOpeningInit \/ SchemaInit
StoresNext == RedisStep \/ MongoStep \/ Neo4jStep \/ PostgresStep \/
              MongoOpeningStep \/ Neo4jOpeningStep \/ SchemaStep

Init == StoresInit /\ part \in Parts
Spec == Init /\ [][StoresNext]_StoresVars

(* Clients run; the server notices clients that are gone and circles, and  *)
(* gives a lock to everyone who waits for it in turn.                      *)
FairSpec ==
  /\ Spec
  /\ WF_(Neo4j!vars)(part = "neo4j" /\ Neo4j!ServerNotices)
  /\ WF_(Postgres!vars)(part = "postgres" /\ Postgres!ServerNotices)
  /\ \A c \in Clients :
       /\ SF_(Neo4j!vars)(part = "neo4j" /\ Neo4j!Step(c))
       /\ SF_(Postgres!vars)(part = "postgres" /\ Postgres!Step(c))
       /\ WF_(Postgres!vars)(part = "postgres" /\ Postgres!Abort(c))

Symmetry == Permutations(Clients)

-----------------------------------------------------------------------------
(* Every call takes effect on the whole store at instants of its own, and  *)
(* fails or answers with what it did: no rival, patch or child is lost or  *)
(* orphaned between two clients, whatever connection breaks and whatever   *)
(* is tried again (_write_reconnecting of every store; put and update_meta *)
(* of PostgresStore).                                                      *)
KeepsPromise ==
  /\ (part = "redis" => Redis!Serial!Init) /\ (part = "mongo" => Mongo!Serial!Init)
  /\ (part = "neo4j" => Neo4j!Serial!Init) /\ (part = "postgres" => Postgres!Serial!Init)
  /\ [][/\ part = "redis" => [Redis!Serial!Next]_(Redis!Serial!vars)
        /\ part = "mongo" => [Mongo!Serial!Next]_(Mongo!Serial!vars)
        /\ part = "neo4j" => [Neo4j!Serial!Next]_(Neo4j!Serial!vars)
        /\ part = "postgres" => [Postgres!Serial!Next]_(Postgres!Serial!vars)]_StoresVars

(* Whoever has a store open has all of it: schema record, coordinator and  *)
(* index or constraints of a namespace, the current tables and columns of  *)
(* a database; and of several who create it at once none fails.  A store   *)
(* that lost its revision is not written any more, a revision is never set *)
(* back, and no schema changes under a reservation of a legacy worker that *)
(* no one has resolved.                                                    *)
OpensWhole ==
  /\ [](/\ part = "mongo_open" => MongoOpening!OpenIsComplete /\ MongoOpening!OpeningSucceeds
        /\ part = "neo4j_open" => Neo4jOpening!OpenIsComplete
        /\ part = "schema" => Schema!OpenIsCurrent /\ Schema!NobodyFails)
  /\ [][/\ part = "redis" => Redis!FailsClosed
        /\ part = "mongo_open" => MongoOpening!RevisionGrows
        /\ part = "neo4j_open" => Neo4jOpening!RevisionGrows
        /\ part = "schema" => Schema!ReservationsResolved]_StoresVars

(* Every call ends, whoever breaks off with the lock or the rows it waits  *)
(* for.                                                                    *)
CallsEnd == \A c \in Clients : pc[c] # "idle" ~> pc[c] = "idle"

(* Every stored payload can be read back, though the session that first    *)
(* inserted one of its strings may have rolled back since; and only puts   *)
(* of different payloads can deadlock, over strings both are first to      *)
(* intern.                                                                 *)
PayloadsWhole == part = "postgres" => Postgres!PayloadsWhole /\ Postgres!DeadlocksCross
=============================================================================
