--------------------------- MODULE RecordedCalls ---------------------------
(***************************************************************************)
(* Runs over one recorded tree: record, hybrid and replay mode, duplicate  *)
(* refusal, dry runs, policies with confirmation, notes, branches,         *)
(* rollback, pruning and resuming (Runtime, Run, replay.py).               *)
(*                                                                         *)
(* A node's identity is its path: the labels from the root down, for its   *)
(* parent, kind, payload and attempt are what is hashed.  A registered     *)
(* tool with side effects is behind every label of Calls.  A call costs    *)
(* one unit; budgets, leases and calls that fail after dispatch are        *)
(* GovernedCall's.                                                         *)
(***************************************************************************)
EXTENDS Naturals, Sequences, FiniteSets, SequencesExt, FiniteSetsExt

CONSTANTS
  Runs,          \* run cursors
  Calls,         \* registered calls, as labels
  NeedsConfirm,  \* the calls some policy confirms
  Denied,        \* the calls some policy denies
  Results,       \* what a handler may return
  None,          \* no result
  Absent,        \* no node
  Configs,       \* configurations a run may be started with
  MaxDepth,      \* bound: length of a path
  MaxOps,        \* bound: operations
  MaxStarts      \* bound: runs started after the first ones

Labels == Calls \cup {"note", "refusal"}
Paths == BoundedSeq(Labels, MaxDepth)
Root == <<>>

VARIABLES
  store,      \* path -> its node, or Absent
  config,     \* run -> how its runtime is configured
  cursor,     \* run -> its cursor
  pending,    \* run -> the confirmation tokens it holds, which are paths
  pc,         \* run -> where its call is
  target,     \* run -> the node its call was looked up as
  seen,       \* run -> the avoided charges read from it, or the handler's result
  got,        \* run -> what its last call returned
  ran,        \* path -> the results handlers returned to calls looked up there
  asked,      \* path -> how often confirmation was required
  called,     \* path -> how often a handler was called for it
  settled,    \* charges settled
  hits,       \* path -> hybrid hits that were counted
  ops, starts \* how much has happened

history == <<ran, asked, called, settled, hits>>
vars == <<store, config, cursor, pending, pc, target, seen, got, history, ops, starts>>

Nodes == [result : Results \cup {None}, rivals : SUBSET Results,
          charge : 0 .. 1, avoided : Nat, pruned : BOOLEAN]
NodeOf(result, charge) ==
  [result |-> result, rivals |-> {}, charge |-> charge, avoided |-> 0, pruned |-> FALSE]

TypeOK ==
  /\ store \in [Paths -> Nodes \cup {Absent}]
  /\ config \in [Runs -> Configs]
  /\ cursor \in [Runs -> Paths]
  /\ pending \in [Runs -> SUBSET Paths]
  /\ pc \in [Runs -> {"idle", "avoid", "dispatch", "record"}]
  /\ target \in [Runs -> Paths]
  /\ \A r \in Runs : seen[r] \in Results \cup {None} \cup Nat
  /\ got \in [Runs -> [path : Paths, result : Results \cup {None},
                       how : {"none", "hit", "live", "dry"}]]
  /\ ran \in [Paths -> SUBSET Results]
  /\ asked \in [Paths -> Nat] /\ called \in [Paths -> Nat]
  /\ settled \in Nat /\ hits \in [Paths -> Nat]
  /\ ops \in 0 .. MaxOps /\ starts \in 0 .. MaxStarts

Nothing == [path |-> Root, result |-> None, how |-> "none"]

Init ==
  /\ store = [p \in Paths |-> IF p = Root THEN NodeOf(None, 0) ELSE Absent]
  /\ config \in [Runs -> Configs]
  /\ cursor = [r \in Runs |-> Root]
  /\ pending = [r \in Runs |-> {}]
  /\ pc = [r \in Runs |-> "idle"]
  /\ target = [r \in Runs |-> Root]
  /\ seen = [r \in Runs |-> None]
  /\ got = [r \in Runs |-> Nothing]
  /\ ran = [p \in Paths |-> {}]
  /\ asked = [p \in Paths |-> 0]
  /\ called = [p \in Paths |-> 0]
  /\ settled = 0
  /\ hits = [p \in Paths |-> 0]
  /\ ops = 0 /\ starts = 0

Stored(p) == store[p] # Absent
HasResult(p) == Stored(p) /\ store[p].result # None
Replays(r) == config[r].mode = "replay"

-----------------------------------------------------------------------------
(* A mutant: a recording replaces an earlier one.                          *)
PutLast(p, node) == [store EXCEPT ![p] = node]

(* put: an existing node keeps its result and its metadata; another result *)
(* joins its conflicts.                                                    *)
Put(p, node) ==
  IF Stored(p)
  THEN [store EXCEPT ![p].rivals = @ \cup ({node.result} \ {None, store[p].result})]
  ELSE [store EXCEPT ![p] = node]

Step(r) == pc[r] = "idle" /\ ops < MaxOps /\ ops' = ops + 1 /\ UNCHANGED <<config, starts>>
Room(r) == Len(cursor[r]) < MaxDepth
Below(r, label) == Append(cursor[r], label)
MoveTo(r, p) == cursor' = [cursor EXCEPT ![r] = p]

(* note: in replay mode the node must be there, otherwise it is put.       *)
Note(r) ==
  /\ Step(r) /\ Room(r)
  /\ LET p == Below(r, "note") IN
     /\ Replays(r) => Stored(p)
     /\ store' = IF Replays(r) THEN store ELSE Put(p, NodeOf(None, 0))
     /\ MoveTo(r, p)
  /\ UNCHANGED <<pending, pc, target, seen, got, history>>

(* branch: the same, but it is another cursor that moves.                  *)
Branch(r, q) ==
  /\ pc[r] = "idle" /\ pc[q] = "idle" /\ q # r /\ Room(r)
  /\ starts < MaxStarts /\ starts' = starts + 1
  /\ LET p == Below(r, "note") IN
     /\ Replays(r) => Stored(p)
     /\ store' = IF Replays(r) THEN store ELSE Put(p, NodeOf(None, 0))
     /\ MoveTo(q, p)
  /\ config' = [config EXCEPT ![q] = config[r]]
  /\ pending' = [pending EXCEPT ![q] = {}]
  /\ got' = [got EXCEPT ![q] = Nothing]
  /\ UNCHANGED <<pc, target, seen, history, ops>>

Ancestors(p) == {SubSeq(p, 1, k) : k \in 0 .. Len(p)}

Rollback(r, p) ==
  /\ Step(r)
  /\ p \in Ancestors(cursor[r]) \ {cursor[r]}
  /\ MoveTo(r, p)
  /\ UNCHANGED <<store, pending, pc, target, seen, got, history>>

Prune(r) ==
  /\ Step(r) /\ ~Replays(r)
  /\ store' = [store EXCEPT ![cursor[r]].pruned = TRUE]
  /\ UNCHANGED <<cursor, pending, pc, target, seen, got, history>>

(* _deepest_non_pruned_leaf: a node that is not pruned counts below a      *)
(* pruned one, too; among the deepest the smallest digest is taken.        *)
Kept(p) == Stored(p) /\ ~store[p].pruned
Leaves == {p \in Paths : Kept(p) /\ \A l \in Labels :
             Len(p) < MaxDepth => ~Kept(Append(p, l))}
Deepest == IF \E p \in Leaves : p # Root
           THEN {p \in Leaves : \A q \in Leaves : Len(q) <= Len(p)}
           ELSE {Root}

(* Runtime.run and Runtime.resume: a new run takes the place of one that   *)
(* has ended between two calls.                                            *)
StartRun(r, c, p) ==
  /\ pc[r] = "idle"
  /\ starts < MaxStarts /\ starts' = starts + 1
  /\ p \in {Root} \cup Deepest
  /\ config' = [config EXCEPT ![r] = c]
  /\ MoveTo(r, p)
  /\ pending' = [pending EXCEPT ![r] = {}]
  /\ got' = [got EXCEPT ![r] = Nothing]
  /\ UNCHANGED <<store, pc, target, seen, history, ops>>

-----------------------------------------------------------------------------
(* What a call finds before its policies, and before it is dispatched      *)
(* (recorded_node_or_missing).                                             *)
Missing(r, p) == Replays(r) /\ ~HasResult(p)
Duplicate(r, p) == config[r].mode = "record" /\ config[r].guarded /\ Stored(p)

Served(r, p) == config[r].mode \in {"hybrid", "replay"} /\ HasResult(p)

Returns(r, p, how, record) ==
  got' = [got EXCEPT ![r] = [path |-> p, result |-> record[p].result, how |-> how]]

(* A recorded node is served: a replay run moves on; a hybrid run first    *)
(* counts what it avoided, reading the node here and writing it later.     *)
Serve(r, p) ==
  IF Replays(r)
  THEN /\ MoveTo(r, p) /\ Returns(r, p, "hit", store)
       /\ UNCHANGED <<store, pc, target, seen, settled>>
  ELSE /\ pc' = [pc EXCEPT ![r] = "avoid"]
       /\ target' = [target EXCEPT ![r] = p]
       /\ seen' = [seen EXCEPT ![r] = store[p].avoided]
       /\ UNCHANGED <<store, cursor, got, settled>>

ToDispatch(r, p) ==
  /\ pc' = [pc EXCEPT ![r] = "dispatch"]
  /\ target' = [target EXCEPT ![r] = p]
  /\ UNCHANGED <<store, cursor, seen, got, settled>>

(* The dry run stores a node without a result, and charges for it.         *)
Placeholder(r, p) ==
  /\ store' = Put(p, NodeOf(None, 1))
  /\ settled' = settled + 1
  /\ MoveTo(r, p)
  /\ Returns(r, p, "dry", store')
  /\ UNCHANGED <<pc, target, seen>>

Allowed(r, p) ==
  IF Served(r, p) THEN Serve(r, p)
  ELSE IF config[r].dry THEN Placeholder(r, p)
  ELSE ToDispatch(r, p)

(* Run.tool_call of a registered tool.                                     *)
ToolCall(r, c) ==
  /\ Step(r) /\ Room(r)
  /\ LET p == Below(r, c) IN
     /\ ~Missing(r, p) /\ ~Duplicate(r, p)
     /\ IF Replays(r)
        THEN Serve(r, p) /\ UNCHANGED <<pending, asked>>
        ELSE IF c \in Denied
        THEN /\ store' = Put(Below(r, "refusal"), NodeOf(None, 0))
             /\ MoveTo(r, Below(r, "refusal"))
             /\ UNCHANGED <<pending, pc, target, seen, got, settled, asked>>
        ELSE IF c \in NeedsConfirm
        THEN /\ pending' = [pending EXCEPT ![r] = @ \cup {p}]
             /\ asked' = [asked EXCEPT ![p] = @ + 1]
             /\ UNCHANGED <<store, cursor, pc, target, seen, got, settled>>
        ELSE Allowed(r, p) /\ UNCHANGED <<pending, asked>>
  /\ UNCHANGED <<ran, called, hits>>

(* Run.confirm: the token is used up first; it counts only where it was    *)
(* given, and leads to the call itself.                                    *)
Confirms(r, p) ==
  /\ Step(r)
  /\ p \in pending[r]
  /\ pending' = [pending EXCEPT ![r] = @ \ {p}]
  /\ IF cursor[r] # Front(p) \/ Duplicate(r, p)
     THEN UNCHANGED <<store, cursor, pc, target, seen, got, settled>>
     ELSE IF Served(r, p) THEN Serve(r, p)
     ELSE ToDispatch(r, p)
  /\ UNCHANGED <<ran, asked, called, hits>>

(* record_avoided_charges' write, after which the hybrid call returns.     *)
CountAvoided(r) ==
  /\ pc[r] = "avoid"
  /\ store' = [store EXCEPT ![target[r]].avoided = seen[r] + 1]
  /\ hits' = [hits EXCEPT ![target[r]] = @ + 1]
  /\ MoveTo(r, target[r])
  /\ Returns(r, target[r], "hit", store)
  /\ pc' = [pc EXCEPT ![r] = "idle"]
  /\ seen' = [seen EXCEPT ![r] = None]
  /\ UNCHANGED <<config, pending, target, ran, asked, called, settled, ops, starts>>

(* The handler is called: it returns, or fails and its claim is released.  *)
Dispatch(r) ==
  /\ pc[r] = "dispatch"
  /\ called' = [called EXCEPT ![target[r]] = @ + 1]
  /\ \/ \E x \in Results :
          /\ seen' = [seen EXCEPT ![r] = x]
          /\ ran' = [ran EXCEPT ![target[r]] = @ \cup {x}]
          /\ pc' = [pc EXCEPT ![r] = "record"]
     \/ /\ pc' = [pc EXCEPT ![r] = "idle"]
        /\ UNCHANGED <<seen, ran>>
  /\ UNCHANGED <<store, config, cursor, pending, target, got, asked, settled,
                 hits, ops, starts>>

(* The charge is settled and the node put below the cursor; what the store *)
(* has of it then is returned.                                             *)
Record(r) ==
  /\ pc[r] = "record"
  /\ LET p == Below(r, Last(target[r])) IN
     /\ store' = Put(p, NodeOf(seen[r], 1))
     /\ MoveTo(r, p)
     /\ Returns(r, p, "live", store')
  /\ settled' = settled + 1
  /\ pc' = [pc EXCEPT ![r] = "idle"]
  /\ seen' = [seen EXCEPT ![r] = None]
  /\ UNCHANGED <<config, pending, target, ran, asked, called, hits, ops, starts>>

Next == \E r \in Runs :
  \/ Note(r) \/ Prune(r)
  \/ \E q \in Runs : Branch(r, q)
  \/ \E p \in Ancestors(cursor[r]) : Rollback(r, p)
  \/ \E c \in Configs : \E p \in {Root} \cup Deepest : StartRun(r, c, p)
  \/ \E c \in Calls : ToolCall(r, c)
  \/ \E p \in pending[r] : Confirms(r, p)
  \/ CountAvoided(r) \/ Dispatch(r) \/ Record(r)

Spec == Init /\ [][Next]_vars

-----------------------------------------------------------------------------
Idle == \A r \in Runs : pc[r] = "idle"
Charges == MapThenSumSet(LAMBDA p : IF Stored(p) THEN store[p].charge ELSE 0, Paths)

(* A result stands where the call that produced it was looked up and       *)
(* prechecked, as the result of the node or as a conflict (Run._call).     *)
RecordedWhereChecked ==
  \A p \in Paths : Stored(p) =>
    ({store[p].result} \cup store[p].rivals) \ {None} \subseteq ran[p]

(* What a call returned from a recording is what stands there now, and     *)
(* what a handler once returned for it (replay.py).                        *)
ServedIsRecorded ==
  \A r \in Runs : got[r].how = "hit" =>
    got[r].result # None /\ got[r].result = store[got[r].path].result

(* A recording is for ever: neither re-recording, branches, pruning nor    *)
(* rolled-back runs take back what a replay can serve.                     *)
RecordingStays == \A p \in Paths : HasResult(p) => store'[p].result = store[p].result

(* "run.report() returns settled spent charges" (api-reference.md): where  *)
(* recording runs refuse duplicates and do not overlap, nothing settled is *)
(* missing from the tree, and nothing is there twice.                      *)
SpentIsSettled == Idle => Charges = settled

(* ... and no recording has a rival, so replay is what happened.           *)
NoRivals == \A p \in Paths : Stored(p) => store[p].rivals = {}

(* A handler that some policy wants confirmed is called at most as often   *)
(* as confirmation was asked for at that very place, whatever is retried,  *)
(* rolled back or confirmed late; a denied one is never called             *)
(* (Run.confirm, Run._registered_tool_call).                               *)
ConfirmedOnce == \A p \in Paths \ {Root} :
  /\ Last(p) \in NeedsConfirm => called[p] <= asked[p]
  /\ Last(p) \in Denied => called[p] = 0

(* While only replay runs are at work, the recording does not change       *)
(* ("It does not create nodes ... persist avoided charges, or permit       *)
(* pruning", api-reference.md).                                            *)
ReplayReadsOnly == (\A r \in Runs : Replays(r)) => store' = store

(* A charge is called avoided only where a recorded result was served in   *)
(* its place, though hits that count at the same time may be lost          *)
(* (record_avoided_charges).                                               *)
AvoidedIsReal == \A p \in Paths : Stored(p) => store[p].avoided <= hits[p]
=============================================================================
