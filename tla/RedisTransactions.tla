-------------------------- MODULE RedisTransactions --------------------------
(***************************************************************************)
(* The Redis store's transactions.  A client watches the store's revision  *)
(* key, reads the records its operation needs one after another while      *)
(* others commit, buffers its writes, and has them executed if nobody has  *)
(* touched the revision since.  It tries again after a conflict, a bounded *)
(* number of times, and once more on a new connection when it loses its    *)
(* own - before or after its writes were executed.                         *)
(***************************************************************************)
EXTENDS StoreNodes

CONSTANTS
  Clients,
  Operations,    \* the operations clients call
  WatchRetries,  \* watch_retries
  MaxCalls       \* bound: calls begun

VARIABLES
  kv,        \* the node records in Redis
  identity,  \* has the store its identity and schema?
  revision,  \* the revision key; 0: missing
  touched,   \* the clients whose watched key has changed since
  pc,        \* client -> where it is
  op,        \* client -> the operation it called
  seen,      \* client -> the records it has read
  left,      \* client -> the records it has still to read
  tries,     \* client -> conflicts so far
  again,     \* client -> has it reconnected in this call?
  fresh,     \* client -> was the revision missing when it watched?
  reply,     \* client -> how its last call ended
  effects,   \* client -> how often its call took effect (history)
  saw,       \* client -> what the last of these effects was (history)
  calls      \* how many calls were begun

server == <<kv, identity, revision, touched>>
history == <<effects, saw, calls>>
vars == <<kv, identity, revision, touched, pc, op, seen, left, tries, again, fresh,
          reply, effects, saw, calls>>

TypeOK ==
  /\ IsStore(kv)
  /\ identity \in BOOLEAN /\ revision \in Nat
  /\ touched \subseteq Clients
  /\ pc \in [Clients -> {"closed", "open", "idle", "watch", "read", "answer", "lost"}]
  /\ \A c \in Clients : op[c] \in Operations \/ (op[c] = NoOperation /\ pc[c] \in {"closed", "open", "idle"})
  /\ op \in [Clients -> Operations \cup {NoOperation}] /\ left \in [Clients -> Seq(Nodes)]
  /\ DOMAIN seen = Clients /\ \A c \in Clients : IsStore(seen[c])
  /\ tries \in [Clients -> 0 .. WatchRetries - 1]
  /\ again \in [Clients -> BOOLEAN] /\ fresh \in [Clients -> BOOLEAN]
  /\ reply \in [Clients -> {"none", "done", "refused", "error"}]
  /\ effects \in [Clients -> 0 .. 2] /\ saw \in [Clients -> {"none", "done", "refused"}]
  /\ calls \in 0 .. MaxCalls

Init ==
  /\ kv = Empty /\ identity = FALSE /\ revision = 0 /\ touched = {}
  /\ pc = [c \in Clients |-> "closed"]
  /\ op = [c \in Clients |-> NoOperation]
  /\ seen = [c \in Clients |-> Empty] /\ left = [c \in Clients |-> <<>>]
  /\ tries = [c \in Clients |-> 0] /\ again = [c \in Clients |-> FALSE]
  /\ fresh = [c \in Clients |-> FALSE]
  /\ reply = [c \in Clients |-> "none"]
  /\ effects = [c \in Clients |-> 0] /\ saw = [c \in Clients |-> "none"]
  /\ calls = 0

-----------------------------------------------------------------------------
(* A client that does not read forgets what it read.                       *)
Forget(c) == seen' = [seen EXCEPT ![c] = Empty] /\ left' = [left EXCEPT ![c] = <<>>]
Goto(c, place) == pc' = [pc EXCEPT ![c] = place]

Watching == {c \in Clients : pc[c] \in {"open", "read"}}
WatchKey(c) == touched' = touched \ {c}
(* The revision key changes under everyone who watches it.                 *)
TouchKey == touched' = touched \cup Watching

Return(c, how) ==
  /\ Goto(c, "idle") /\ Forget(c)
  /\ op' = [op EXCEPT ![c] = NoOperation]
  /\ tries' = [tries EXCEPT ![c] = 0] /\ again' = [again EXCEPT ![c] = FALSE]
  /\ reply' = [reply EXCEPT ![c] = how]

-----------------------------------------------------------------------------
(* _initialize_identity: a store without revision is new only if it has    *)
(* no record at all; identity, schema and revision are written at once.    *)
OpenWatch(c) ==
  /\ pc[c] = "closed" /\ Goto(c, "open")
  /\ fresh' = [fresh EXCEPT ![c] = revision = 0]
  /\ WatchKey(c)
  /\ UNCHANGED <<kv, identity, revision, op, seen, left, tries, again, reply, history>>

OpenExecute(c) ==
  /\ pc[c] = "open"
  /\ IF c \in touched
     THEN Goto(c, "closed") /\ UNCHANGED <<identity, revision, touched>>
     ELSE IF fresh[c] /\ (identity \/ kv # Empty)
     THEN Goto(c, "closed") /\ UNCHANGED <<identity, revision, touched>>
     ELSE IF fresh[c]
     THEN Goto(c, "idle") /\ identity' = TRUE /\ revision' = revision + 1 /\ TouchKey
     ELSE identity /\ Goto(c, "idle") /\ UNCHANGED <<identity, revision, touched>>
  /\ fresh' = [fresh EXCEPT ![c] = FALSE]
  /\ UNCHANGED <<kv, op, seen, left, tries, again, reply, history>>

-----------------------------------------------------------------------------
Call(c, o) ==
  /\ pc[c] = "idle" /\ calls < MaxCalls /\ calls' = calls + 1
  /\ op' = [op EXCEPT ![c] = o] /\ Goto(c, "watch")
  /\ reply' = [reply EXCEPT ![c] = "none"]
  /\ effects' = [effects EXCEPT ![c] = 0] /\ saw' = [saw EXCEPT ![c] = "none"]
  /\ UNCHANGED <<server, seen, left, tries, again, fresh>>

(* _validate_revision: a store that was open has a revision.               *)
RevisionValid == revision # 0

Watch(c) ==
  /\ pc[c] = "watch"
  /\ IF RevisionValid
     THEN /\ Goto(c, "read") /\ WatchKey(c)
          /\ left' = [left EXCEPT ![c] = Reads(op[c])]
          /\ UNCHANGED <<op, seen, tries, again, reply>>
     ELSE Return(c, "error") /\ UNCHANGED touched
  /\ UNCHANGED <<kv, identity, revision, fresh, history>>

(* The next record is read as it is now.  An operation that misses what it *)
(* needs raises at once, before anything is executed.                      *)
Read(c) ==
  /\ pc[c] = "read" /\ left[c] # <<>>
  /\ LET n == Head(left[c]) IN
     IF n \in Needed(op[c]) /\ ~Has(kv, n)
     THEN /\ Goto(c, "answer") /\ Forget(c)
          /\ effects' = [effects EXCEPT ![c] = @ + 1]
          /\ saw' = [saw EXCEPT ![c] = "refused"]
     ELSE /\ seen' = [seen EXCEPT ![c][n] = kv[n]]
          /\ left' = [left EXCEPT ![c] = Tail(@)]
          /\ UNCHANGED <<pc, effects, saw>>
  /\ UNCHANGED <<server, op, tries, again, fresh, reply, calls>>

(* A mutant: the writes are sent without looking at the revision.          *)
NoConflict(c) == FALSE

Conflict(c) == c \in touched

(* EXEC: the buffered writes and the new revision at once, or nothing. The *)
(* answer may be lost.                                                     *)
Execute(c) ==
  /\ pc[c] = "read" /\ left[c] = <<>> /\ ~Conflict(c)
  /\ kv' = Written(kv, seen[c], op[c])
  /\ IF Writes(seen[c], op[c]) # {} THEN revision' = revision + 1 /\ TouchKey
     ELSE UNCHANGED <<revision, touched>>
  /\ effects' = [effects EXCEPT ![c] = @ + 1] /\ saw' = [saw EXCEPT ![c] = "done"]
  /\ Goto(c, "answer") \/ Goto(c, "lost")
  /\ Forget(c)
  /\ UNCHANGED <<identity, op, tries, again, fresh, reply, calls>>

Answer(c) ==
  /\ pc[c] = "answer" /\ Return(c, saw[c])
  /\ UNCHANGED <<server, fresh, history>>

MayRetry(c) == tries[c] + 1 < WatchRetries

(* WatchError: again from the beginning, up to watch_retries times.        *)
Retry(c) ==
  /\ pc[c] = "read" /\ left[c] = <<>> /\ Conflict(c)
  /\ IF MayRetry(c)
     THEN /\ Goto(c, "watch") /\ Forget(c) /\ tries' = [tries EXCEPT ![c] = @ + 1]
          /\ UNCHANGED <<op, again, reply>>
     ELSE Return(c, "error")
  /\ UNCHANGED <<server, fresh, history>>

(* The connection breaks, or the server is not available.                  *)
Disconnect(c) ==
  /\ pc[c] \in {"watch", "read"} /\ Goto(c, "lost") /\ Forget(c)
  /\ UNCHANGED <<server, op, tries, again, fresh, reply, history>>

(* _write_reconnecting: a new client, whose store must be the one it was;  *)
(* the operation is then tried once more.                                  *)
Reconnect(c) ==
  /\ pc[c] = "lost"
  /\ \/ /\ ~again[c] /\ RevisionValid /\ identity
        /\ again' = [again EXCEPT ![c] = TRUE] /\ tries' = [tries EXCEPT ![c] = 0]
        /\ Goto(c, "watch") /\ UNCHANGED <<op, seen, left, reply>>
     \/ Return(c, "error")
  /\ UNCHANGED <<server, fresh, history>>

(* The server drops the revision key.                                      *)
Evict ==
  /\ revision # 0 /\ revision' = 0 /\ TouchKey
  /\ UNCHANGED <<kv, identity, pc, op, seen, left, tries, again, fresh, reply, history>>

Next ==
  \/ \E c \in Clients :
       \/ OpenWatch(c) \/ OpenExecute(c) \/ (\E o \in Operations : Call(c, o))
       \/ Watch(c) \/ Read(c) \/ Execute(c) \/ Answer(c) \/ Retry(c) \/ Disconnect(c) \/ Reconnect(c)
  \/ Evict

Spec == Init /\ [][Next]_vars

-----------------------------------------------------------------------------
(* Every call takes effect on the whole store at an instant of its own     *)
(* (RedisStore: "A logical Pollard store serialized through Redis          *)
(* transactions"), at most twice when its connection was lost.             *)
Serial == INSTANCE SerialStore WITH store <- kv, doing <- op, MaxEffects <- 2

(* A store that lost its revision is not written any more: neither by the  *)
(* clients that were at work nor by one that opens it anew.                *)
FailsClosed == (revision = 0 /\ identity) => UNCHANGED <<kv, identity, revision>>
=============================================================================
