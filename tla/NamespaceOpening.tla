-------------------------- MODULE NamespaceOpening --------------------------
(***************************************************************************)
(* Opening a logical store in MongoDB or Neo4j.  A process classifies the  *)
(* store by its schema record and its coordinator; if both are missing and *)
(* it may create them, it makes sure of the unique index (MongoDB) or the  *)
(* constraints and their indexes (Neo4j), and then writes coordinator and  *)
(* schema in one transaction, after classifying the store again.  MongoDB  *)
(* reads both in one snapshot; Neo4j reads what is committed, one after    *)
(* the other, and so are its constraints and indexes.                      *)
(***************************************************************************)
EXTENDS Naturals

CONSTANTS
  Processes,
  Creators,     \* those that open with create=True
  Snapshot,     \* does a transaction read one snapshot?
  MaxRevision   \* bound: writes to the store

VARIABLES
  version,   \* is the schema record there?
  revision,  \* the coordinator's revision; 0: no coordinator
  physical,  \* are the index or the constraints there?
  pc,        \* process -> where it is
  first      \* process -> the first of two things it looks at, if it has

vars == <<version, revision, physical, pc, first>>

Logical == {"look", "init"}                  \* looks at schema and coordinator
Physical == {"ensure", "created", "final"}   \* looks at the index or constraints

TypeOK ==
  /\ version \in BOOLEAN /\ physical \in BOOLEAN /\ revision \in 0 .. MaxRevision
  /\ pc \in [Processes -> Logical \cup Physical \cup
              {"closed", "create", "merge", "open", "missing", "partial"}]
  /\ first \in [Processes -> {"unread", "there", "not there"}]
  /\ \A p \in Processes : pc[p] \in {"ensure", "create", "created", "init", "merge"} => p \in Creators

Init ==
  /\ version = FALSE /\ revision = 0 /\ physical = FALSE
  /\ pc = [p \in Processes |-> "closed"]
  /\ first = [p \in Processes |-> "unread"]

-----------------------------------------------------------------------------
Goto(p, place) == pc' = [pc EXCEPT ![p] = place]

Start(p) ==
  /\ pc[p] = "closed" /\ Goto(p, "look")
  /\ UNCHANGED <<version, revision, physical, first>>

There(b) == IF b THEN "there" ELSE "not there"
FirstOf(p) == There(IF pc[p] \in Logical THEN version ELSE physical)
(* Without a schema record any record at all makes a store more than new.  *)
SecondOf(p, one) ==
  There(IF pc[p] \in Physical THEN physical
        ELSE IF one = "there" THEN revision > 0 ELSE version \/ revision > 0)

(* Where each finding leads: what is there is used, what is new is         *)
(* created, and the creator looks again; anything else is refused.         *)
Leads(p, what) ==
  IF what = "partial" THEN "partial"
  ELSE IF what = "existing" THEN
    CASE pc[p] = "look" -> "final"
      [] pc[p] \in {"ensure", "created"} -> "init"
      [] pc[p] = "init" -> "final"
      [] pc[p] = "final" -> "open"
  ELSE
    CASE pc[p] = "look" -> IF p \in Creators THEN "ensure" ELSE "missing"
      [] pc[p] = "ensure" -> "create"
      [] pc[p] \in {"created", "final"} -> "partial"
      [] pc[p] = "init" -> "merge"

Conclude(p, one, two) ==
  /\ Goto(p, Leads(p, IF one # two THEN "partial" ELSE IF one = "there" THEN "existing" ELSE "fresh"))
  /\ first' = [first EXCEPT ![p] = "unread"]
  /\ UNCHANGED <<version, revision, physical>>

(* One thing is read, and then, in a transaction of a snapshot at the same *)
(* moment, the other.                                                      *)
LookAtOnce(p) ==
  /\ pc[p] \in Logical \cup Physical /\ Snapshot
  /\ Conclude(p, FirstOf(p), SecondOf(p, FirstOf(p)))

LookFirst(p) ==
  /\ pc[p] \in Logical \cup Physical /\ ~Snapshot /\ first[p] = "unread"
  /\ first' = [first EXCEPT ![p] = FirstOf(p)]
  /\ UNCHANGED <<version, revision, physical, pc>>
LookSecond(p) ==
  /\ pc[p] \in Logical \cup Physical /\ first[p] # "unread"
  /\ Conclude(p, first[p], SecondOf(p, first[p]))

(* Index and constraints are made in a transaction of their own, if they   *)
(* are not there yet, and looked at again.                                 *)
Create(p) ==
  /\ pc[p] = "create" /\ Goto(p, "created")
  /\ physical' = TRUE
  /\ UNCHANGED <<version, revision, first>>

FirstRevision == IF revision = 0 THEN 1 ELSE revision

(* A mutant: nobody else is looked for.                                    *)
NoConflict == FALSE

(* In a snapshot, a coordinator that has come since is a write conflict.   *)
Conflict == Snapshot /\ revision > 0

(* Coordinator and schema in one transaction; with_transaction runs the    *)
(* whole again after a conflict, MERGE keeps a coordinator that is there.  *)
Merge(p) ==
  /\ pc[p] = "merge"
  /\ IF Conflict THEN Goto(p, "init") /\ UNCHANGED <<version, revision>>
     ELSE /\ Goto(p, "final") /\ version' = TRUE
          /\ revision' = IF Snapshot THEN 1 ELSE FirstRevision
  /\ UNCHANGED <<physical, first>>

(* An open store is used.                                                  *)
Write(p) ==
  /\ pc[p] = "open" /\ revision \in 1 .. MaxRevision - 1 /\ revision' = revision + 1
  /\ UNCHANGED <<version, physical, pc, first>>

(* The process dies, or closes the store, or gives up.                     *)
Close(p) ==
  /\ pc[p] # "closed" /\ Goto(p, "closed")
  /\ first' = [first EXCEPT ![p] = "unread"]
  /\ UNCHANGED <<version, revision, physical>>

Next ==
  \E p \in Processes :
    \/ Start(p) \/ LookAtOnce(p) \/ LookFirst(p) \/ LookSecond(p)
    \/ Create(p) \/ Merge(p) \/ Write(p) \/ Close(p)

Spec == Init /\ [][Next]_vars

-----------------------------------------------------------------------------
(* A store that is open is complete, though its index or constraints were  *)
(* made outside the transaction that made the store.                       *)
OpenIsComplete ==
  \A p \in Processes : pc[p] = "open" => version /\ revision > 0 /\ physical

(* A process that opens late never sets the revision of a store in use     *)
(* back, which would let two writers hold the same revision.               *)
RevisionGrows == revision' >= revision

(* A store that is new or complete is never refused as partial: "first     *)
(* writable construction initializes the current schema for an empty       *)
(* logical store" (distributed-stores.md).  Not so in Neo4j.               *)
OpeningSucceeds == \A p \in Processes : pc[p] # "partial"
=============================================================================
