-------------------------- MODULE MongoTransactions --------------------------
(***************************************************************************)
(* The MongoDB store's transactions.  A transaction reads the snapshot of  *)
(* its first read and must be the first to change the coordinator document *)
(* since: when another has, or is about to, it is aborted and with_        *)
(* transaction runs it again.  A commit whose outcome is unknown is sent   *)
(* again as the same commit; only when the driver gives up does the store  *)
(* connect anew and run the operation once more.                           *)
(***************************************************************************)
EXTENDS StoreNodes

CONSTANTS
  Clients,
  Operations,  \* the operations clients call
  MaxRetries,  \* bound: retries of one with_transaction
  MaxCalls,    \* bound: calls begun
  Nobody       \* no open transaction has changed the coordinator

VARIABLES
  kv,        \* the node records that are committed
  revision,  \* the coordinator's revision
  writer,    \* whose open transaction has changed the coordinator
  landed,    \* the clients whose commit is durable and unanswered
  pc,        \* client -> where it is
  op,        \* client -> the operation it called
  snapshot,  \* client -> the records and the revision its transaction sees
  retries,   \* client -> how often its transaction or its commit was retried
  again,     \* client -> has it reconnected in this call?
  reply,     \* client -> how its last call ended
  effects,   \* client -> how often its call took effect (history)
  saw,       \* client -> what the last of these effects was (history)
  calls      \* how many calls were begun

history == <<effects, saw, calls>>
vars == <<kv, revision, writer, landed, pc, op, snapshot, retries, again, reply,
          effects, saw, calls>>
NoSnapshot == [kv |-> Empty, revision |-> 0]

TypeOK ==
  /\ IsStore(kv) /\ revision \in Nat /\ writer \in Clients \cup {Nobody}
  /\ landed \subseteq {c \in Clients : pc[c] = "commit"}
  /\ pc \in [Clients -> {"idle", "begin", "lock", "work", "commit", "answer", "lost"}]
  /\ \A c \in Clients : op[c] \in Operations \/ (op[c] = NoOperation /\ pc[c] = "idle")
  /\ op \in [Clients -> Operations \cup {NoOperation}] /\ DOMAIN snapshot = Clients
  /\ \A c \in Clients : IsStore(snapshot[c].kv) /\ snapshot[c].revision \in 0 .. revision
  /\ retries \in [Clients -> 0 .. MaxRetries]
  /\ again \in [Clients -> BOOLEAN]
  /\ reply \in [Clients -> {"none", "done", "refused", "error"}]
  /\ effects \in [Clients -> 0 .. 2] /\ saw \in [Clients -> {"none", "done", "refused"}]
  /\ calls \in 0 .. MaxCalls

(* Revision 1: the store is there (_require_existing_store).               *)
Init ==
  /\ kv = Empty /\ revision = 1 /\ writer = Nobody /\ landed = {}
  /\ pc = [c \in Clients |-> "idle"] /\ op = [c \in Clients |-> NoOperation]
  /\ snapshot = [c \in Clients |-> NoSnapshot]
  /\ retries = [c \in Clients |-> 0] /\ again = [c \in Clients |-> FALSE]
  /\ reply = [c \in Clients |-> "none"]
  /\ effects = [c \in Clients |-> 0] /\ saw = [c \in Clients |-> "none"]
  /\ calls = 0

-----------------------------------------------------------------------------
Goto(c, place) == pc' = [pc EXCEPT ![c] = place]
Forget(c) == snapshot' = [snapshot EXCEPT ![c] = NoSnapshot]
(* An open transaction of the client is aborted, or stays until the server *)
(* expires it.                                                             *)
Abandon(c) == IF writer = c THEN writer' \in {Nobody, c} ELSE UNCHANGED writer

Return(c, how) ==
  /\ Goto(c, "idle") /\ Forget(c)
  /\ op' = [op EXCEPT ![c] = NoOperation]
  /\ retries' = [retries EXCEPT ![c] = 0] /\ again' = [again EXCEPT ![c] = FALSE]
  /\ reply' = [reply EXCEPT ![c] = how]

Call(c, o) ==
  /\ pc[c] = "idle" /\ calls < MaxCalls /\ calls' = calls + 1
  /\ op' = [op EXCEPT ![c] = o] /\ Goto(c, "begin")
  /\ reply' = [reply EXCEPT ![c] = "none"]
  /\ effects' = [effects EXCEPT ![c] = 0] /\ saw' = [saw EXCEPT ![c] = "none"]
  /\ UNCHANGED <<kv, revision, writer, landed, snapshot, retries, again>>

(* The first find_one, of the coordinator, fixes the snapshot.             *)
Begin(c) ==
  /\ pc[c] = "begin" /\ Goto(c, "lock")
  /\ snapshot' = [snapshot EXCEPT ![c] = [kv |-> kv, revision |-> revision]]
  /\ UNCHANGED <<kv, revision, writer, landed, op, retries, again, reply, history>>

Uncontended(c) == writer = Nobody /\ revision = snapshot[c].revision

MayRetry(c) == retries[c] < MaxRetries

CountRetry(c) == retries' = [retries EXCEPT ![c] = @ + 1]

(* with_transaction runs the work again after a transient error, for a     *)
(* limited time; what it raises then is a connection error, or is not.     *)
RunAgain(c, giveUp) ==
  IF MayRetry(c)
  THEN Goto(c, "begin") /\ Forget(c) /\ CountRetry(c) /\ UNCHANGED <<op, again, reply>>
  ELSE giveUp

(* find_one_and_update with the revision read: first, or a write conflict. *)
Lock(c) ==
  /\ pc[c] = "lock"
  /\ IF Uncontended(c)
     THEN Goto(c, "work") /\ writer' = c /\ UNCHANGED <<op, snapshot, retries, again, reply>>
     ELSE RunAgain(c, Return(c, "error")) /\ UNCHANGED writer
  /\ UNCHANGED <<kv, revision, landed, history>>

(* The operation reads its snapshot; if it misses what it needs it raises, *)
(* and the transaction is aborted.                                         *)
Work(c) ==
  /\ pc[c] = "work" /\ writer = c
  /\ IF Refused(snapshot[c].kv, op[c])
     THEN /\ Goto(c, "answer") /\ Abandon(c)
          /\ effects' = [effects EXCEPT ![c] = @ + 1]
          /\ saw' = [saw EXCEPT ![c] = "refused"]
     ELSE Goto(c, "commit") /\ UNCHANGED <<writer, effects, saw>>
  /\ UNCHANGED <<kv, revision, landed, op, snapshot, retries, again, reply, calls>>

(* The server has expired the transaction: it is run again.                *)
Gone(c) ==
  /\ pc[c] = "work" /\ writer # c
  /\ RunAgain(c, Return(c, "error"))
  /\ UNCHANGED <<kv, revision, writer, landed, history>>

(* The server commits the client's transaction and answers, or its answer  *)
(* is lost.                                                                *)
Commit(c) ==
  /\ pc[c] = "commit" /\ writer = c /\ c \notin landed
  /\ kv' = Written(kv, snapshot[c].kv, op[c]) /\ revision' = revision + 1
  /\ writer' = Nobody
  /\ effects' = [effects EXCEPT ![c] = @ + 1] /\ saw' = [saw EXCEPT ![c] = "done"]
  /\ \/ Goto(c, "answer") /\ UNCHANGED landed
     \/ landed' = landed \cup {c} /\ UNCHANGED pc
  /\ UNCHANGED <<op, snapshot, retries, again, reply, calls>>

Recognised(c) == c \in landed

(* The commit's outcome is unknown: it is sent again, as the same commit.  *)
(* A transaction that is gone without having committed is run again.       *)
CommitAgain(c) ==
  /\ pc[c] = "commit" /\ (writer = c => c \in landed)
  /\ landed' = landed \ {c}
  /\ IF Recognised(c) THEN Goto(c, "answer") /\ UNCHANGED <<op, snapshot, retries, again, reply>>
     ELSE RunAgain(c, Return(c, "error"))
  /\ UNCHANGED <<kv, revision, writer, history>>

Answer(c) ==
  /\ pc[c] = "answer" /\ Return(c, saw[c])
  /\ UNCHANGED <<kv, revision, writer, landed, history>>

(* The connection breaks: a transient error for work that did not commit,  *)
(* an unknown outcome for a commit, which is retried until it is given up. *)
Break(c) ==
  /\ \/ /\ pc[c] \in {"begin", "lock", "work"}
        /\ RunAgain(c, Goto(c, "lost") /\ Forget(c) /\ UNCHANGED <<op, retries, again, reply>>)
        /\ UNCHANGED landed
     \/ /\ pc[c] = "commit"
        /\ IF MayRetry(c)
           THEN CountRetry(c) /\ UNCHANGED <<pc, landed, snapshot, op, again, reply>>
           ELSE /\ Goto(c, "lost") /\ Forget(c) /\ landed' = landed \ {c}
                /\ UNCHANGED <<op, retries, again, reply>>
  /\ Abandon(c)
  /\ UNCHANGED <<kv, revision, history>>

(* The server expires a transaction whose client does not go on with it.   *)
Expire ==
  /\ writer # Nobody /\ writer' = Nobody
  /\ UNCHANGED <<kv, revision, landed, pc, op, snapshot, retries, again, reply, history>>

(* _write_reconnecting: once more with a new client, if it can connect.    *)
Reconnect(c) ==
  /\ pc[c] = "lost"
  /\ \/ /\ ~again[c] /\ again' = [again EXCEPT ![c] = TRUE]
        /\ retries' = [retries EXCEPT ![c] = 0] /\ Goto(c, "begin")
        /\ UNCHANGED <<op, snapshot, reply>>
     \/ Return(c, "error")
  /\ UNCHANGED <<kv, revision, writer, landed, history>>

Next ==
  \/ \E c \in Clients :
       \/ (\E o \in Operations : Call(c, o)) \/ Begin(c) \/ Lock(c) \/ Work(c) \/ Gone(c)
       \/ Commit(c) \/ CommitAgain(c) \/ Answer(c) \/ Break(c) \/ Reconnect(c)
  \/ Expire

Spec == Init /\ [][Next]_vars

-----------------------------------------------------------------------------
(* Every call takes effect on the whole store at instants of its own, at   *)
(* most twice (MongoStore: "A transactional logical Pollard store").       *)
Serial == INSTANCE SerialStore WITH store <- kv, doing <- op, MaxEffects <- 2
=============================================================================
