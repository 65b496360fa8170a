---------------------------- MODULE MCFileStores ----------------------------
(* What is kept in one file, log or snapshot: the arbiter of SQLite, which *)
(* this module extends, its nodes, Kafka's topic for two writers and for a *)
(* writer and an observer, a hash rope's log, and the transfer of a        *)
(* subtree by way of a file.  A behaviour is of one of these parts.        *)
EXTENDS SQLiteArbiter, Sequences, TLC

CONSTANTS c1, c2, c3, p1, p2, o1, root, odd, child, grandchild, a, b, x, y, tokens, Absent

MCMeterOf == [r \in {1, 2, 3} |-> tokens]
MCLimit == <<3, 2, 2>>
MCSpan == (3 :> 2)
Estimate(n) == [m \in {tokens} |-> n]
Ask(keys, wins, n, base) == [keys |-> keys, wins |-> wins, est |-> Estimate(n), base |-> base]
(* A team scope (row 1), a run scope in it (row 2) and one window (row 3). *)
MCRequests ==
  {Ask({1, 2}, {3}, 1, <<0, 0>>), Ask({1}, {}, 2, <<0, 0>>), Ask({1}, {3}, 1, <<1, 0>>)}
MCCharges == {Estimate(0), Estimate(2)}

(* A root with a long string, a root that looks like a reference to it, a  *)
(* child with the same string and a grandchild with another.               *)
ParentOf == (root :> root) @@ (odd :> odd) @@ (child :> root) @@ (grandchild :> child)
LeafOf ==
  (root :> [is |-> "long", text |-> "a"]) @@ (odd :> [is |-> "looks", text |-> "a"])
  @@ (child :> [is |-> "long", text |-> "a"]) @@ (grandchild :> [is |-> "long", text |-> "b"])

Small == {root, child}
ParentOfSmall == (root :> root) @@ (child :> root)
PutOf(n, r) == [is |-> "put", node |-> n, arg |-> r]
PatchOf(n, v) == [is |-> "meta", node |-> n, arg |-> v]
Mixed == {PutOf(root, x), PutOf(child, x), PatchOf(root, 1)}
Again == {PutOf(root, x), PutOf(root, y), PatchOf(root, 1), PatchOf(root, 2)}

Chain == {root, a, b}
ParentOfChain == (root :> root) @@ (a :> root) @@ (b :> a)

VARIABLES part, version, stored, interned, literals, blobs, pruned, conn,
  snap, interns, opens, log, at, sent, pc, cmd, attempt, ack,
  reply, confirmed, writes, nodes, children, src, tgt, export,
  file, import, custody, accepted, exports, edits, imports

sqliteVars == <<version, stored, interned, literals, blobs, pruned, conn,
  snap, interns, opens>>
kafkaVars == <<at, sent, pc, cmd, attempt, ack, reply, confirmed, writes>>
ropeVars == <<nodes, children>>
transferVars == <<src, tgt, export, file, import, custody, accepted, exports,
  edits, imports>>
FilesVars == <<part, vars, sqliteVars, log, kafkaVars, ropeVars, transferVars>>

SQLite == INSTANCE SQLiteNodes WITH
  Nodes <- {root, odd, child, grandchild}, Parent <- ParentOf, Leaf <- LeafOf, Texts <- {"a", "b"},
  Procs <- {p1, p2}, OpensOverlap <- FALSE, MaxOpens <- 4
Kafka == INSTANCE KafkaLog WITH
  Clients <- {p1, p2}, Observers <- {}, Nodes <- Small, Parent <- ParentOfSmall,
  Results <- {x, y}, Values <- {1, 2}, Offered <- Mixed, MaxLog <- 3, MaxWrites <- 3
KafkaAlone == INSTANCE KafkaLog WITH
  Clients <- {p1}, Observers <- {o1}, Nodes <- Small, Parent <- ParentOfSmall,
  Results <- {x, y}, Values <- {1, 2}, Offered <- Again, MaxLog <- 4, MaxWrites <- 3
Rope == INSTANCE HashRopeLog WITH
  Order <- <<root, a, b>>, Parent <- ParentOfChain, Results <- {"none", "x"}, Labels <- {"l"},
  Unencodable <- {}, MaxLog <- 4, MaxRivals <- 1
Transfer == INSTANCE SubtreeTransfer WITH
  Nodes <- Chain, Parent <- ParentOfChain, Results <- {x, y},
  MaxExports <- 1, MaxEdits <- 1, MaxSeals <- 1, MaxImports <- 2

Idle == "idle"
SqliteVarsIdle ==
  /\ version = Idle /\ stored = Idle /\ interned = Idle /\ literals = Idle
  /\ blobs = Idle /\ pruned = Idle /\ conn = Idle /\ snap = Idle /\ interns = Idle
  /\ opens = Idle
KafkaVarsIdle ==
  /\ at = Idle /\ sent = Idle /\ pc = Idle /\ cmd = Idle /\ attempt = Idle
  /\ ack = Idle /\ reply = Idle /\ confirmed = Idle /\ writes = Idle
RopeVarsIdle == nodes = Idle /\ children = Idle
TransferVarsIdle ==
  /\ src = Idle /\ tgt = Idle /\ export = Idle /\ file = Idle /\ import = Idle
  /\ custody = Idle /\ accepted = Idle /\ exports = Idle /\ edits = Idle
  /\ imports = Idle

SQLiteInit ==
  /\ part = "sqlite" /\ SQLite!Init
  /\ Init /\ log = Idle /\ KafkaVarsIdle /\ RopeVarsIdle /\ TransferVarsIdle
SQLiteStep ==
  /\ part = "sqlite" /\ SQLite!Next
  /\ UNCHANGED <<part, vars, log, kafkaVars, ropeVars, transferVars>>

KafkaInit ==
  /\ part = "kafka" /\ Kafka!Init
  /\ Init /\ SqliteVarsIdle /\ RopeVarsIdle /\ TransferVarsIdle
KafkaStep ==
  /\ part = "kafka" /\ Kafka!Next
  /\ UNCHANGED <<part, vars, sqliteVars, ropeVars, transferVars>>

KafkaAloneInit ==
  /\ part = "kafka_one" /\ KafkaAlone!Init
  /\ Init /\ SqliteVarsIdle /\ RopeVarsIdle /\ TransferVarsIdle
KafkaAloneStep ==
  /\ part = "kafka_one" /\ KafkaAlone!Next
  /\ UNCHANGED <<part, vars, sqliteVars, ropeVars, transferVars>>

RopeInit ==
  /\ part = "hashrope" /\ Rope!Init
  /\ Init /\ SqliteVarsIdle /\ KafkaVarsIdle /\ TransferVarsIdle
RopeStep ==
  /\ part = "hashrope" /\ Rope!Next
  /\ UNCHANGED <<part, vars, sqliteVars, kafkaVars, transferVars>>

TransferInit ==
  /\ part = "transfer" /\ Transfer!Init
  /\ Init /\ SqliteVarsIdle /\ log = Idle /\ KafkaVarsIdle /\ RopeVarsIdle
TransferStep ==
  /\ part = "transfer" /\ Transfer!Next
  /\ UNCHANGED <<part, vars, sqliteVars, log, kafkaVars, ropeVars>>

ArbiterInit ==
  /\ part = "arbiter" /\ Init
  /\ SqliteVarsIdle /\ log = Idle /\ KafkaVarsIdle /\ RopeVarsIdle /\ TransferVarsIdle
ArbiterStep ==
  /\ part = "arbiter" /\ Next
  /\ UNCHANGED <<part, sqliteVars, log, kafkaVars, ropeVars, transferVars>>

FilesInit == ArbiterInit \/ SQLiteInit \/ KafkaInit \/ KafkaAloneInit \/ RopeInit \/
             TransferInit
FilesNext == ArbiterStep \/ SQLiteStep \/ KafkaStep \/ KafkaAloneStep \/ RopeStep \/
             TransferStep

FilesSpec == FilesInit /\ [][FilesNext]_FilesVars

Symmetry == Permutations(Ids) \cup Permutations({p1, p2})

-----------------------------------------------------------------------------
(* A write that returned is in Kafka's log for good and in the view of the *)
(* client it returned to, no command in the log failed, views only grow    *)
(* and a duplicate changes nothing; a hash rope reopens as it was, from    *)
(* its whole log and from every prefix, and its index of children is that  *)
(* of its nodes.                                                           *)
LogsHold ==
  /\ [](/\ part = "kafka" => Kafka!ReturnedIsInLog /\ Kafka!ReadsOwnWrite /\ Kafka!NothingPoisoned
        /\ part = "hashrope" => Rope!ReopensTheSame /\ Rope!EveryPrefixOpens /\ Rope!IndexAgrees)
  /\ [][part = "kafka_one" => KafkaAlone!ViewsGrow /\ KafkaAlone!DuplicatesHarmless]_FilesVars

(* Every caller receives the payload that was stored, whoever interned,    *)
(* migrated or collected, and only what was pruned, or is below it, is     *)
(* collected; a published subtree arrives as it was, an import reports     *)
(* what is stored, and the trees it leaves have no holes.                  *)
PayloadsArrive ==
  /\ [](/\ part = "sqlite" => SQLite!CallersReceivePayloads /\ SQLite!NoOrphans
        /\ part = "transfer" =>
             Transfer!PublishedIsWhatArrives /\ Transfer!ReportedIsStored /\ Transfer!TargetClosed)
  /\ [][part = "sqlite" => SQLite!OnlyPrunedGoes]_FilesVars
=============================================================================
