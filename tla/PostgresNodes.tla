---------------------------- MODULE PostgresNodes ----------------------------
(***************************************************************************)
(* The nodes of a PostgreSQL store, one SQL statement after another: put   *)
(* and update_meta are transactions that run READ COMMITTED, rely on the   *)
(* unique keys of nodes and interned blobs and on SELECT ... FOR UPDATE,   *)
(* and are not tried again.  A statement that needs a row which another    *)
(* transaction has inserted or locked waits until that one ends; of the    *)
(* transactions that wait for each other the server aborts one.  Garbage   *)
(* collection is offline: it runs when no call does.                       *)
(***************************************************************************)
EXTENDS StoreNodes

CONSTANTS
  Clients,
  Operations,  \* the operations clients call
  Strings,     \* the long strings of payloads
  Interned,    \* node -> the long strings of its payload, in order
  MaxCalls,    \* bound: calls begun
  Nobody,      \* a row is free
  Orphan       \* a row is held for a client that is gone

VARIABLES
  kv,       \* the committed rows of pollard_nodes
  blobs,    \* the committed rows of pollard_blobs
  owner,    \* node or string -> who has inserted or locked its row
  pc,       \* client -> the statement it is at
  op,       \* client -> the operation it called
  left,     \* client -> the strings it has still to intern
  seen,     \* client -> the rows it has read
  reply,    \* client -> how its last call ended
  effects,  \* client -> how often its call took effect (history)
  saw,      \* client -> what that effect was (history)
  calls     \* how many calls were begun

history == <<effects, saw, calls>>
vars == <<kv, blobs, owner, pc, op, left, seen, reply, effects, saw, calls>>

InTransaction == {"parent", "blobs", "existing", "commit"}
TypeOK ==
  /\ IsStore(kv) /\ blobs \subseteq Strings
  /\ owner \in [Nodes \cup Strings -> Clients \cup {Nobody, Orphan}]
  /\ pc \in [Clients -> InTransaction \cup {"idle", "answer", "broken"}]
  /\ \A c \in Clients : op[c] \in Operations \/ (op[c] = NoOperation /\ pc[c] = "idle")
  /\ op \in [Clients -> Operations \cup {NoOperation}] /\ left \in [Clients -> Seq(Strings)]
  /\ DOMAIN seen = Clients /\ \A c \in Clients : IsStore(seen[c])
  /\ reply \in [Clients -> {"none", "done", "refused", "error"}]
  /\ effects \in [Clients -> 0 .. 1] /\ saw \in [Clients -> {"none", "done", "refused"}]
  /\ calls \in 0 .. MaxCalls
  /\ \A c \in Clients : pc[c] \notin InTransaction => \A row \in DOMAIN owner : owner[row] # c

Init ==
  /\ kv = Empty /\ blobs = {} /\ owner = [row \in Nodes \cup Strings |-> Nobody]
  /\ pc = [c \in Clients |-> "idle"] /\ op = [c \in Clients |-> NoOperation]
  /\ left = [c \in Clients |-> <<>>] /\ seen = [c \in Clients |-> Empty]
  /\ reply = [c \in Clients |-> "none"]
  /\ effects = [c \in Clients |-> 0] /\ saw = [c \in Clients |-> "none"]
  /\ calls = 0

-----------------------------------------------------------------------------
Goto(c, place) == pc' = [pc EXCEPT ![c] = place]
Took(c, effect) == effects' = [effects EXCEPT ![c] = @ + 1] /\ saw' = [saw EXCEPT ![c] = effect]
AllIdle == \A c \in Clients : pc[c] = "idle"
Collecting == \E c \in Clients : op[c].do = "drop"

First(o) ==
  IF o.do = "put" THEN (IF Parent[o.node] = o.node THEN "blobs" ELSE "parent")
  ELSE IF o.do = "meta" THEN "existing" ELSE "commit"

(* _intern_payload visits a payload in its own order.                      *)
InOrder(c, n) == Interned[n]

Call(c, o) ==
  /\ pc[c] = "idle" /\ calls < MaxCalls /\ calls' = calls + 1
  /\ ~Collecting /\ (o.do = "drop" => AllIdle)
  /\ op' = [op EXCEPT ![c] = o] /\ Goto(c, First(o))
  /\ left' = [left EXCEPT ![c] = IF o.do = "put" THEN InOrder(c, o.node) ELSE <<>>]
  /\ reply' = [reply EXCEPT ![c] = "none"]
  /\ effects' = [effects EXCEPT ![c] = 0] /\ saw' = [saw EXCEPT ![c] = "none"]
  /\ UNCHANGED <<kv, blobs, owner, seen>>

(* put refuses a node without its parent; reading it locks nothing.        *)
CheckParent(c) ==
  /\ pc[c] = "parent"
  /\ IF Refused(kv, op[c]) THEN Goto(c, "answer") /\ Took(c, "refused") /\ UNCHANGED owner
     ELSE Goto(c, "blobs") /\ UNCHANGED <<owner, effects, saw>>
  /\ UNCHANGED <<kv, blobs, op, left, seen, reply, calls>>

(* A mutant: what another transaction is inserting is taken to be there.   *)
NotWaiting(c, row) == TRUE

(* An insert waits for another one of the same key, and a lock for another.*)
MayTake(c, row) == owner[row] \in {Nobody, c}

Take(c, row) == MayTake(c, row) /\ owner' = [owner EXCEPT ![row] = IF @ = Nobody THEN c ELSE @]

(* A string that is not committed yet is inserted.                         *)
Intern(c) ==
  /\ pc[c] = "blobs" /\ left[c] # <<>>
  /\ Head(left[c]) \notin blobs => Take(c, Head(left[c]))
  /\ Head(left[c]) \in blobs => UNCHANGED owner
  /\ left' = [left EXCEPT ![c] = Tail(@)]
  /\ UNCHANGED <<kv, blobs, pc, op, seen, reply, history>>

InsertNode(c) ==
  /\ pc[c] = "blobs" /\ left[c] = <<>>
  /\ IF Has(kv, op[c].node) THEN Goto(c, "existing") /\ UNCHANGED owner
     ELSE Goto(c, "commit") /\ Take(c, op[c].node)
  /\ seen' = [seen EXCEPT ![c] = kv]
  /\ UNCHANGED <<kv, blobs, op, left, reply, history>>

(* The row that is there, locked before it is read and rewritten.          *)
SelectRow(c) == Take(c, op[c].node)

LockExisting(c) ==
  /\ pc[c] = "existing"
  /\ IF Has(kv, op[c].node) THEN Goto(c, "commit") /\ SelectRow(c) /\ UNCHANGED <<effects, saw>>
     ELSE Goto(c, "answer") /\ Took(c, "refused") /\ UNCHANGED owner
  /\ seen' = [seen EXCEPT ![c] = kv]
  /\ UNCHANGED <<kv, blobs, op, left, reply, calls>>

(* The end of a transaction frees its rows.                                *)
Mine(c) == {row \in DOMAIN owner : owner[row] = c}
Ended(c) == [row \in DOMAIN owner |-> IF owner[row] = c THEN Nobody ELSE owner[row]]

Commit(c) ==
  /\ pc[c] = "commit"
  /\ kv' = Written(kv, seen[c], op[c]) /\ blobs' = blobs \cup (Mine(c) \cap Strings)
  /\ owner' = Ended(c) /\ Took(c, "done")
  /\ Goto(c, "answer") \/ Goto(c, "broken")
  /\ UNCHANGED <<op, left, seen, reply, calls>>

Return(c) ==
  /\ pc[c] \in {"answer", "broken"} /\ Goto(c, "idle")
  /\ op' = [op EXCEPT ![c] = NoOperation] /\ left' = [left EXCEPT ![c] = <<>>]
  /\ seen' = [seen EXCEPT ![c] = Empty] /\ reply' = [reply EXCEPT ![c] = IF pc[c] = "answer" THEN saw[c] ELSE "error"]
  /\ UNCHANGED <<kv, blobs, owner, history>>

(* The connection breaks.  The server may hold its rows for a while.       *)
Break(c) ==
  /\ pc[c] \in InTransaction /\ Goto(c, "broken")
  /\ \E then \in {Nobody, Orphan} : owner' = [row \in DOMAIN owner |-> IF owner[row] = c THEN then ELSE owner[row]]
  /\ UNCHANGED <<kv, blobs, op, left, seen, reply, history>>
ServerNotices ==
  /\ \E row \in DOMAIN owner : owner[row] = Orphan
  /\ owner' = [row \in DOMAIN owner |-> IF owner[row] = Orphan THEN Nobody ELSE owner[row]]
  /\ UNCHANGED <<kv, blobs, pc, op, left, seen, reply, history>>

(* Clients that wait in a circle; one of them is aborted.                  *)
Wanted(c) ==
  IF pc[c] = "blobs" /\ left[c] # <<>> THEN {Head(left[c])} \ blobs
  ELSE IF pc[c] = "blobs" /\ ~Has(kv, op[c].node) THEN {op[c].node}
  ELSE IF pc[c] = "existing" THEN {op[c].node} ELSE {}
WaitsFor(c) == {owner[row] : row \in Wanted(c)} \cap (Clients \ {c})
Circles == {S \in SUBSET Clients \ {{}} :
  S = UNION {WaitsFor(c) : c \in S} /\ \A c \in S : WaitsFor(c) # {}}
Abort(c) ==
  /\ \E S \in Circles : c \in S
  /\ Goto(c, "broken") /\ owner' = Ended(c)
  /\ UNCHANGED <<kv, blobs, op, left, seen, reply, history>>

(* compact: the blobs no payload refers to.                                *)
Referenced == UNION {Range(Interned[n]) : n \in {m \in Nodes : Has(kv, m)}}
Compact ==
  /\ AllIdle /\ blobs' = blobs \cap Referenced
  /\ UNCHANGED <<kv, owner, pc, op, left, seen, reply, history>>

Step(c) == CheckParent(c) \/ Intern(c) \/ InsertNode(c) \/ LockExisting(c) \/ Commit(c) \/ Return(c)
Next ==
  \/ \E c \in Clients : Step(c) \/ Break(c) \/ Abort(c) \/ \E o \in Operations : Call(c, o)
  \/ ServerNotices \/ Compact

(* Clients run; the server notices clients that are gone and circles, and  *)
(* gives a row to everyone who waits for it in turn.                       *)
Fairness ==
  /\ WF_vars(ServerNotices)
  /\ \A c \in Clients : SF_vars(Step(c)) /\ WF_vars(Abort(c))
Spec == Init /\ [][Next]_vars /\ Fairness

-----------------------------------------------------------------------------
(* put and update_meta take effect on the whole store at an instant of     *)
(* their own, or not at all: no rival and no patch is lost between two     *)
(* sessions (PostgresStore.put, update_meta, _handle_existing_locked).     *)
Serial == INSTANCE SerialStore WITH store <- kv, doing <- op, MaxEffects <- 1

(* Every stored payload can be read back: its strings are there, though    *)
(* the session that inserted one first may have rolled back since.         *)
PayloadsWhole == Referenced \subseteq blobs

(* Only puts of different payloads can deadlock, over strings that both    *)
(* are first to intern: not two workers that record the same call, nor a   *)
(* patch with anything.                                                    *)
DeadlocksCross == \A S \in Circles :
  /\ \A c \in S : Wanted(c) \subseteq Strings
  /\ \A c, d \in S : c # d => op[c].node # op[d].node

(* The constants fit together: payloads are made of strings, rows differ,  *)
(* and no client is nobody.                                                *)
Allowed ==
  /\ ConstantsFit(Operations) /\ MaxCalls \in Nat
  /\ Interned \in [Nodes -> Seq(Strings)] /\ Nodes \cap Strings = {}
  /\ Nobody \notin Clients /\ Orphan \notin Clients /\ Nobody # Orphan
=============================================================================
