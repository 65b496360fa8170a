-------------------------- MODULE Neo4jTransactions --------------------------
(***************************************************************************)
(* The Neo4j store's transactions.  Neo4j reads whatever is committed, so  *)
(* every writer first changes the store's coordinator node and thereby     *)
(* holds its lock until its transaction ends.  The driver runs a managed   *)
(* transaction again when its connection breaks or the server aborts it,   *)
(* even after a commit whose answer was lost; when it gives up, the store  *)
(* opens a new driver and tries once more.                                 *)
(***************************************************************************)
EXTENDS StoreNodes

CONSTANTS
  Clients,
  Operations,  \* the operations clients call
  MaxRetries,  \* bound: retries of one managed transaction
  MaxCalls,    \* bound: calls begun
  Nobody,      \* the lock is free
  Orphan       \* the lock is held for a client that is gone

VARIABLES
  kv,       \* the node records in Neo4j
  lock,     \* who holds the coordinator's lock
  pc,       \* client -> where it is
  op,       \* client -> the operation it called
  seen,     \* client -> the records it has read
  left,     \* client -> the records it has still to read
  retries,  \* client -> how often its managed transaction was run again
  again,    \* client -> has it reconnected in this call?
  reply,    \* client -> how its last call ended
  effects,  \* client -> how often its call took effect (history)
  saw,      \* client -> what the last of these effects was (history)
  calls     \* how many calls were begun

history == <<effects, saw, calls>>
vars == <<kv, lock, pc, op, seen, left, retries, again, reply, effects, saw, calls>>
MaxEffects == 2 * (MaxRetries + 1)

TypeOK ==
  /\ IsStore(kv)
  /\ lock \in Clients \cup {Nobody, Orphan}
  /\ pc \in [Clients -> {"idle", "begin", "read", "answer", "broken", "lost"}]
  /\ \A c \in Clients : op[c] \in Operations \/ (op[c] = NoOperation /\ pc[c] = "idle")
  /\ op \in [Clients -> Operations \cup {NoOperation}] /\ left \in [Clients -> Seq(Nodes)]
  /\ DOMAIN seen = Clients /\ \A c \in Clients : IsStore(seen[c])
  /\ retries \in [Clients -> 0 .. MaxRetries]
  /\ again \in [Clients -> BOOLEAN]
  /\ reply \in [Clients -> {"none", "done", "refused", "error"}]
  /\ effects \in [Clients -> 0 .. MaxEffects] /\ saw \in [Clients -> {"none", "done", "refused"}]
  /\ \A c \in Clients : lock = c => pc[c] = "read"
  /\ calls \in 0 .. MaxCalls

Init ==
  /\ kv = Empty /\ lock = Nobody
  /\ pc = [c \in Clients |-> "idle"] /\ op = [c \in Clients |-> NoOperation]
  /\ seen = [c \in Clients |-> Empty] /\ left = [c \in Clients |-> <<>>]
  /\ retries = [c \in Clients |-> 0] /\ again = [c \in Clients |-> FALSE]
  /\ reply = [c \in Clients |-> "none"]
  /\ effects = [c \in Clients |-> 0] /\ saw = [c \in Clients |-> "none"]
  /\ calls = 0

-----------------------------------------------------------------------------
Goto(c, place) == pc' = [pc EXCEPT ![c] = place]
Forget(c) == seen' = [seen EXCEPT ![c] = Empty] /\ left' = [left EXCEPT ![c] = <<>>]

Return(c, how) ==
  /\ Goto(c, "idle")
  /\ op' = [op EXCEPT ![c] = NoOperation]
  /\ retries' = [retries EXCEPT ![c] = 0] /\ again' = [again EXCEPT ![c] = FALSE]
  /\ reply' = [reply EXCEPT ![c] = how]

Call(c, o) ==
  /\ pc[c] = "idle" /\ calls < MaxCalls /\ calls' = calls + 1
  /\ op' = [op EXCEPT ![c] = o] /\ Goto(c, "begin")
  /\ reply' = [reply EXCEPT ![c] = "none"]
  /\ effects' = [effects EXCEPT ![c] = 0] /\ saw' = [saw EXCEPT ![c] = "none"]
  /\ UNCHANGED <<kv, lock, seen, left, retries, again>>

(* lock: the coordinator's revision is raised, once the lock is free.      *)
Locks(c) == lock = Nobody /\ lock' = c

Begin(c) ==
  /\ pc[c] = "begin" /\ Locks(c)
  /\ Goto(c, "read") /\ left' = [left EXCEPT ![c] = Reads(op[c])]
  /\ UNCHANGED <<kv, op, seen, retries, again, reply, history>>

(* The transaction ends, and its lock with it.                             *)
Unlock(c) == lock' = IF lock = c THEN Nobody ELSE lock

(* The next record is read as it is committed now; an operation that       *)
(* misses what it needs raises, and its transaction is rolled back.        *)
Read(c) ==
  /\ pc[c] = "read" /\ left[c] # <<>>
  /\ LET n == Head(left[c]) IN
     IF n \in Needed(op[c]) /\ ~Has(kv, n)
     THEN /\ Goto(c, "answer") /\ Forget(c) /\ Unlock(c)
          /\ effects' = [effects EXCEPT ![c] = @ + 1]
          /\ saw' = [saw EXCEPT ![c] = "refused"]
     ELSE /\ seen' = [seen EXCEPT ![c][n] = kv[n]]
          /\ left' = [left EXCEPT ![c] = Tail(@)]
          /\ UNCHANGED <<pc, lock, effects, saw>>
  /\ UNCHANGED <<kv, op, retries, again, reply, calls>>

(* The writes become visible at once.  The answer may be lost.             *)
Commit(c) ==
  /\ pc[c] = "read" /\ left[c] = <<>>
  /\ kv' = Written(kv, seen[c], op[c])
  /\ Unlock(c) /\ Forget(c)
  /\ effects' = [effects EXCEPT ![c] = @ + 1] /\ saw' = [saw EXCEPT ![c] = "done"]
  /\ Goto(c, "answer") \/ Goto(c, "broken")
  /\ UNCHANGED <<op, retries, again, reply, calls>>

Answer(c) ==
  /\ pc[c] = "answer" /\ Return(c, saw[c])
  /\ UNCHANGED <<kv, lock, seen, left, history>>

(* The connection breaks, or the server aborts.  The server keeps the lock *)
(* of a client that is gone until it notices.                              *)
Break(c) ==
  /\ pc[c] \in {"begin", "read"} /\ Goto(c, "broken") /\ Forget(c)
  /\ IF lock = c THEN lock' \in {Nobody, Orphan} ELSE UNCHANGED lock
  /\ UNCHANGED <<kv, op, retries, again, reply, history>>

ServerNotices ==
  /\ lock = Orphan /\ lock' = Nobody
  /\ UNCHANGED <<kv, pc, op, seen, left, retries, again, reply, history>>

(* A mutant: a transaction is retried however often it failed.             *)
Always(c) == TRUE

MayRetry(c) == retries[c] < MaxRetries

(* execute_write: the work is run again, from its lock on.                 *)
RunAgain(c) ==
  /\ pc[c] = "broken"
  /\ IF MayRetry(c)
     THEN Goto(c, "begin") /\ retries' = [retries EXCEPT ![c] = IF @ < MaxRetries THEN @ + 1 ELSE @]
     ELSE Goto(c, "lost") /\ UNCHANGED retries
  /\ UNCHANGED <<kv, lock, op, seen, left, again, reply, history>>

(* _write_reconnecting: once more with a new driver, if it can connect.    *)
Reconnect(c) ==
  /\ pc[c] = "lost"
  /\ \/ /\ ~again[c] /\ again' = [again EXCEPT ![c] = TRUE]
        /\ retries' = [retries EXCEPT ![c] = 0] /\ Goto(c, "begin")
        /\ UNCHANGED <<op, reply>>
     \/ Return(c, "error")
  /\ UNCHANGED <<kv, lock, seen, left, history>>

Step(c) == Begin(c) \/ Read(c) \/ Commit(c) \/ Answer(c) \/ RunAgain(c) \/ Reconnect(c)
Next ==
  \/ \E c \in Clients : Step(c) \/ Break(c) \/ \E o \in Operations : Call(c, o)
  \/ ServerNotices

(* Clients run, the server notices clients that are gone, and gives its    *)
(* lock to everyone who waits for it in turn.                              *)
Fairness == WF_vars(ServerNotices) /\ \A c \in Clients : SF_vars(Step(c))
Spec == Init /\ [][Next]_vars /\ Fairness

-----------------------------------------------------------------------------
(* Every call takes effect on the whole store at instants of its own       *)
(* (Neo4jStore: every write takes a write lock on a coordinator node).     *)
Serial == INSTANCE SerialStore WITH store <- kv, doing <- op
=============================================================================
