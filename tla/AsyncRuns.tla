------------------------------ MODULE AsyncRuns ------------------------------
(***************************************************************************)
(* Coroutines of one event loop that make calls under one AsyncRuntime,    *)
(* each on a branch of the same run or all on the run itself: everything   *)
(* between two awaits is one step (AsyncRun._acall, branch, and the store  *)
(* behind them, an exact arbiter).  When they are done the same coroutines *)
(* run again in replay, in whatever order the loop then has.               *)
(*                                                                         *)
(* A node is the path of its identities from the root.                     *)
(***************************************************************************)
EXTENDS Naturals, Sequences, SequencesExt, FiniteSets

CONSTANTS
  Tasks,     \* coroutines
  Scripts,   \* task -> its calls' payloads, in order
  Attempts,  \* task -> the attempt of the branch it opens, 0 for none
  RunLimit,  \* of steps, for the run
  TaskLimit, \* of steps, for a branch
  Interrupts \* bound: calls that fail or are cancelled while they wait
VARIABLES
  mode,      \* "record" or "replay"
  store,     \* path -> the task that put it, and its charge
  main,      \* the run's cursor
  branch,    \* task -> its branch's cursor and scopes, or NoBranch before it has one
  pc,        \* task -> "new", "ready", "waiting", "done", "stopped"
  done,      \* task -> calls that returned
  held,      \* scope opened so far -> tasks whose reservation it holds
  settled,   \* scope -> charges settled there
  began,     \* task -> cursor its last call began at (history)
  got,       \* task -> path and origin of the nodes its calls returned (history)
  before,    \* task -> what it got while recording (history)
  failures
vars == <<mode, store, main, branch, pc, done, held, settled, began, got, before, failures>>
ledger == <<held, settled>>

Root == <<>>
NoBranch == [cursor |-> Root, scopes |-> {}]
OnBranch(t) == Attempts[t] # 0
Cursor(t) == IF OnBranch(t) THEN branch[t].cursor ELSE main
Scopes(t) == IF OnBranch(t) THEN branch[t].scopes ELSE {Root}
Below(path, step) == Append(path, step)
AnchorOf(t) == Below(main, [branch |-> Attempts[t]])
Stored(path) == path = Root \/ path \in DOMAIN store
Anchors == DOMAIN held
LimitOf(scope) == IF scope = Root THEN RunLimit ELSE TaskLimit

Init ==
  /\ mode = "record" /\ store = [p \in {} |-> 0] /\ main = Root
  /\ branch = [t \in Tasks |-> NoBranch]
  /\ pc = [t \in Tasks |-> IF OnBranch(t) THEN "new" ELSE "ready"]
  /\ done = [t \in Tasks |-> 0]
  /\ held = [s \in {Root} |-> {}] /\ settled = [s \in {Root} |-> 0]
  /\ began = [t \in Tasks |-> Root] /\ got = [t \in Tasks |-> <<>>] /\ before = got
  /\ failures = 0

-----------------------------------------------------------------------------
(* The store keeps the first node of an identity.                          *)
PutNode(path, value) ==
  store' = IF path \in DOMAIN store THEN store
           ELSE [p \in DOMAIN store \cup {path} |-> IF p = path THEN value ELSE store[p]]

MoveTo(t, path) ==
  IF OnBranch(t) THEN branch' = [branch EXCEPT ![t].cursor = path] /\ UNCHANGED main
  ELSE main' = path /\ UNCHANGED branch

(* branch(): an anchor below the run's cursor, with the run's scopes and   *)
(* its own; in replay the anchor must be there.                            *)
BranchScopes(t) == {Root, AnchorOf(t)}

Opened(of, anchor, initially) == [s \in DOMAIN of \cup {anchor} |-> IF s \in DOMAIN of THEN of[s] ELSE initially]
OpenBranch(t) ==
  /\ pc[t] = "new"
  /\ IF mode = "replay" /\ ~Stored(AnchorOf(t))
     THEN pc' = [pc EXCEPT ![t] = "stopped"] /\ UNCHANGED <<store, branch, ledger>>
     ELSE /\ pc' = [pc EXCEPT ![t] = "ready"]
          /\ IF mode = "record" THEN PutNode(AnchorOf(t), [by |-> t, charge |-> 0]) ELSE UNCHANGED store
          /\ branch' = [branch EXCEPT ![t] = [cursor |-> AnchorOf(t), scopes |-> BranchScopes(t)]]
          /\ held' = Opened(held, AnchorOf(t), {}) /\ settled' = Opened(settled, AnchorOf(t), 0)
  /\ UNCHANGED <<mode, main, done, began, got, before, failures>>

(* _precheck: what the tree says, then what the arbiter still holds.       *)
Beneath(scope) == {p \in DOMAIN store : IsPrefix(scope, p)}
Spent(scope) == FoldSet(LAMBDA p, sum : sum + store[p].charge, 0, Beneath(scope))
FitsTree(t) == \A s \in Scopes(t) : Spent(s) + 1 <= LimitOf(s)
Granted(t) == \A s \in Scopes(t) : settled[s] + Cardinality(held[s]) + 1 <= LimitOf(s)

Fits(t) == FitsTree(t) /\ Granted(t)

CallNode(t) == Below(Cursor(t), [call |-> Scripts[t][done[t] + 1]])
CallsLeft(t) == done[t] < Len(Scripts[t])

(* A call begins and awaits its function; refused, it leaves a refusal at  *)
(* the cursor, and its coroutine ends with the error.                      *)
BeginCall(t) ==
  /\ mode = "record" /\ pc[t] = "ready" /\ CallsLeft(t)
  /\ IF Fits(t)
     THEN /\ pc' = [pc EXCEPT ![t] = "waiting"]
          /\ held' = [s \in Anchors |-> IF s \in Scopes(t) THEN held[s] \cup {t} ELSE held[s]]
          /\ began' = [began EXCEPT ![t] = Cursor(t)]
          /\ UNCHANGED <<store, main, branch>>
     ELSE LET refusal == Below(Cursor(t), [refusal |-> CallNode(t)]) IN
          /\ pc' = [pc EXCEPT ![t] = "stopped"]
          /\ PutNode(refusal, [by |-> t, charge |-> 0]) /\ MoveTo(t, refusal)
          /\ UNCHANGED <<held, began>>
  /\ UNCHANGED <<mode, done, settled, got, before, failures>>

Released(t) == [s \in Anchors |-> held[s] \ {t}]

(* The function has returned: settled, then recorded at the cursor.        *)
Settles(t) == [s \in Anchors |-> IF t \in held[s] THEN settled[s] + 1 ELSE settled[s]]
EndCall(t) ==
  /\ pc[t] = "waiting" /\ pc' = [pc EXCEPT ![t] = "ready"]
  /\ held' = Released(t) /\ settled' = Settles(t)
  /\ PutNode(CallNode(t), [by |-> t, charge |-> 1]) /\ MoveTo(t, CallNode(t))
  /\ done' = [done EXCEPT ![t] = @ + 1]
  /\ got' = [got EXCEPT ![t] = Append(@, <<CallNode(t), store'[CallNode(t)].by>>)]
  /\ UNCHANGED <<mode, began, before, failures>>

(* It raises, or its coroutine is cancelled while it waits (undispatched). *)
Interrupt(t) ==
  /\ pc[t] = "waiting" /\ failures < Interrupts
  /\ pc' = [pc EXCEPT ![t] = "stopped"] /\ held' = Released(t)
  /\ failures' = failures + 1
  /\ UNCHANGED <<mode, store, main, branch, done, settled, began, got, before>>

Finish(t) ==
  /\ pc[t] = "ready" /\ ~CallsLeft(t) /\ pc' = [pc EXCEPT ![t] = "done"]
  /\ UNCHANGED <<mode, store, main, branch, done, ledger, began, got, before, failures>>

-----------------------------------------------------------------------------
(* Replay: the same coroutines from their start, without a call.           *)
StartReplay ==
  /\ mode = "record" /\ \A t \in Tasks : pc[t] \in {"done", "stopped"}
  /\ mode' = "replay" /\ main' = Root /\ branch' = [t \in Tasks |-> NoBranch]
  /\ pc' = [t \in Tasks |-> IF OnBranch(t) THEN "new" ELSE "ready"]
  /\ done' = [t \in Tasks |-> 0] /\ before' = got /\ got' = [t \in Tasks |-> <<>>]
  /\ UNCHANGED <<store, ledger, began, failures>>

ReplayCall(t) ==
  /\ mode = "replay" /\ pc[t] = "ready" /\ CallsLeft(t)
  /\ IF Stored(CallNode(t))
     THEN /\ MoveTo(t, CallNode(t)) /\ done' = [done EXCEPT ![t] = @ + 1]
          /\ got' = [got EXCEPT ![t] = Append(@, <<CallNode(t), store[CallNode(t)].by>>)]
          /\ UNCHANGED pc
     ELSE pc' = [pc EXCEPT ![t] = "stopped"] /\ UNCHANGED <<main, branch, done, got>>
  /\ UNCHANGED <<mode, store, ledger, began, before, failures>>

Next ==
  \/ \E t \in Tasks : OpenBranch(t) \/ BeginCall(t) \/ EndCall(t) \/ Interrupt(t) \/ Finish(t) \/ ReplayCall(t)
  \/ StartReplay
Spec == Init /\ [][Next]_vars

-----------------------------------------------------------------------------
TypeOK ==
  /\ mode \in {"record", "replay"}
  /\ \A p \in DOMAIN store : store[p].by \in Tasks /\ store[p].charge \in {0, 1}
  /\ \A p \in DOMAIN store : Stored(Front(p))
  /\ Stored(main) /\ \A t \in Tasks : Stored(branch[t].cursor)
  /\ pc \in [Tasks -> {"new", "ready", "waiting", "done", "stopped"}]
  /\ \A t \in Tasks : done[t] \in 0 .. Len(Scripts[t])
  /\ failures \in 0 .. Interrupts

(* However the coroutines interleave, fail and are cancelled, no scope is  *)
(* charged more than its limit: neither the run's, shared by all, nor a    *)
(* branch's, in the ledger or in the tree.                                 *)
ScopesHold == \A s \in Anchors : settled[s] <= LimitOf(s) /\ Spent(s) <= LimitOf(s)

(* The arbiter holds capacity for the calls that wait, and no others: a    *)
(* cancelled coroutine leaves nothing behind that keeps the rest out.      *)
HeldIffWaiting == \A s \in Anchors : held[s] = {t \in Tasks : pc[t] = "waiting" /\ s \in Scopes(t)}

(* "result only from an exact ... identity" (replay.py): in replay every   *)
(* coroutine gets, call by call, the nodes it got while recording, however *)
(* the event loop interleaves them now.                                    *)
SameInReplay ==
  mode = "replay" => \A t \in Tasks :
    /\ IsPrefix(got[t], before[t])
    /\ pc[t] \in {"done", "stopped"} => got[t] = before[t]

(* A call's node is a child of the cursor its coroutine had when it called,*)
(* and is the coroutine's own, whatever the others did in between.         *)
CallsStayInPlace ==
  mode = "record" => \A t \in Tasks : got[t] # <<>> /\ pc[t] = "ready" =>
    Last(got[t]) = <<Append(began[t], [call |-> Scripts[t][done[t]]]), t>>
=============================================================================
