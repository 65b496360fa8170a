------------------------------ MODULE KafkaLog ------------------------------
(***************************************************************************)
(* The Kafka store: one topic orders commands, and each client replays     *)
(* them into a view of its own.  A command's id is the digest of its body, *)
(* so the same command is the same operation wherever it is in the log.    *)
(*                                                                         *)
(* A delivery may be late, after its producer has given it up and sent it  *)
(* again, or never come, and its acknowledgement may be lost.  The topic   *)
(* keeps everything, as the store requires of its configuration.           *)
(***************************************************************************)
EXTENDS Naturals, FiniteSets, Sequences, SequencesExt

CONSTANTS
  Clients,    \* writing clients
  Observers,  \* read-only clients
  Nodes,      \* node ids
  Parent,     \* node -> its parent, or itself
  Results,    \* results
  Values,     \* values of one metadata key
  Offered,    \* the commands clients write
  Absent,     \* no node, no value
  MaxLog,     \* bound: length of the log
  MaxWrites   \* bound: writes begun

Puts == [is : {"put"}, node : Nodes, arg : Results]
Patches == [is : {"meta"}, node : Nodes, arg : Values]
Commands == Puts \cup Patches

VARIABLES
  log,        \* the topic
  at,         \* client -> the offset its view has been replayed to
  sent,       \* client -> what its producer holds: <<command, attempt>>
  pc,         \* client -> where its write is
  cmd,        \* client -> the command it writes
  attempt,    \* client -> how often it has produced it
  ack,        \* client -> the offset its acknowledgement named
  reply,      \* client -> how its last write ended
  confirmed,  \* the commands some write has returned for (history)
  writes      \* how many writes were begun

vars == <<log, at, sent, pc, cmd, attempt, ack, reply, confirmed, writes>>
All == Clients \cup Observers
NoCommand == [is |-> "none"]

TypeOK ==
  /\ log \in Seq(Commands) /\ Len(log) <= MaxLog
  /\ \A c \in All : at[c] \in 0 .. Len(log)
  /\ \A c \in Clients : \A i \in 1 .. Len(sent[c]) : sent[c][i] \in Commands \X (1 .. 2)
  /\ pc \in [Clients -> {"idle", "sent", "acked"}]
  /\ \A c \in Clients : cmd[c] \in Commands \/ (cmd[c] = NoCommand /\ pc[c] = "idle")
  /\ attempt \in [Clients -> 0 .. 2]
  /\ \A c \in Clients : ack[c] \in 0 .. Len(log)
  /\ reply \in [Clients -> {"none", "ok", "uncertain"}]
  /\ confirmed \subseteq Commands
  /\ writes \in 0 .. MaxWrites

Init ==
  /\ log = <<>>
  /\ at = [c \in All |-> 0]
  /\ sent = [c \in Clients |-> <<>>]
  /\ pc = [c \in Clients |-> "idle"]
  /\ cmd = [c \in Clients |-> NoCommand]
  /\ attempt = [c \in Clients |-> 0]
  /\ ack = [c \in Clients |-> 0]
  /\ reply = [c \in Clients |-> "none"]
  /\ confirmed = {} /\ writes = 0

-----------------------------------------------------------------------------
(* Replay: _apply_message, _apply_put and _apply_meta.                     *)
EmptyView ==
  [result |-> [n \in Nodes |-> Absent], rivals |-> [n \in Nodes |-> <<>>],
   value |-> [n \in Nodes |-> Absent], done |-> {}, failed |-> {}]

Has(view, n) == view.result[n] # Absent
HasParent(view, n) == Parent[n] = n \/ Has(view, Parent[n])

(* A mutant: the last result of a node wins.                               *)
LastWins(view, c) ==
  IF c.is = "put" /\ HasParent(view, c.node) THEN [view EXCEPT !.result[c.node] = c.arg]
  ELSE view

Effect(view, c) ==
  LET n == c.node IN
  IF c.is = "put" /\ HasParent(view, n) /\ ~Has(view, n)
  THEN [view EXCEPT !.result[n] = c.arg]
  ELSE IF c.is = "put" /\ HasParent(view, n)
  THEN IF view.result[n] = c.arg THEN view
       ELSE [view EXCEPT !.rivals[n] = Append(@, c.arg)]
  ELSE IF c.is = "meta" /\ Has(view, n) THEN [view EXCEPT !.value[n] = c.arg]
  ELSE [view EXCEPT !.failed = @ \cup {c}]

(* An operation that is known is not applied again.                        *)
Apply(view, c) ==
  IF c \in view.done THEN view ELSE [Effect(view, c) EXCEPT !.done = @ \cup {c}]

ViewAt(k) == FoldLeft(Apply, EmptyView, SubSeq(log, 1, k))
View(c) == ViewAt(at[c])
Whole == ViewAt(Len(log))

-----------------------------------------------------------------------------
(* _sync_current, at the start of every operation of a writing client; an  *)
(* observer keeps the prefix it found when it opened or reconnected.       *)
Synced(c) == at' = [at EXCEPT ![c] = Len(log)]

Read(c) ==
  /\ Synced(c)
  /\ UNCHANGED <<log, sent, pc, cmd, attempt, ack, reply, confirmed, writes>>

(* put and update_meta look for the parent or the node before they write.  *)
Permitted(c) == IF c.is = "put" THEN HasParent(Whole, c.node) ELSE Has(Whole, c.node)

Return(c, how, command) ==
  /\ pc' = [pc EXCEPT ![c] = "idle"]
  /\ attempt' = [attempt EXCEPT ![c] = 0] /\ ack' = [ack EXCEPT ![c] = 0]
  /\ reply' = [reply EXCEPT ![c] = how]
  /\ confirmed' = IF how = "ok" THEN confirmed \cup {command} ELSE confirmed

Produce(c, command, times) ==
  /\ sent' = [sent EXCEPT ![c] = Append(@, <<command, times>>)]
  /\ pc' = [pc EXCEPT ![c] = "sent"]
  /\ attempt' = [attempt EXCEPT ![c] = times]
  /\ reply' = [reply EXCEPT ![c] = "none"]
  /\ UNCHANGED <<confirmed, ack>>

(* _append_command: a command that is known is not sent at all.            *)
Write(c, command) ==
  /\ pc[c] = "idle" /\ writes < MaxWrites /\ writes' = writes + 1
  /\ Permitted(command)
  /\ Synced(c)
  /\ cmd' = [cmd EXCEPT ![c] = command]
  /\ IF command \in Whole.done
     THEN Return(c, "ok", command) /\ UNCHANGED sent
     ELSE Produce(c, command, 1)
  /\ UNCHANGED log

(* The broker appends what a producer holds, in order, whether or not its  *)
(* client still waits; the acknowledgement may be lost, and a delivery may *)
(* fail.                                                                   *)
Deliver(c) ==
  /\ sent[c] # <<>> /\ Len(log) < MaxLog
  /\ log' = Append(log, Head(sent[c])[1])
  /\ sent' = [sent EXCEPT ![c] = Tail(@)]
  /\ \/ /\ pc[c] = "sent" /\ Head(sent[c]) = <<cmd[c], attempt[c]>>
        /\ pc' = [pc EXCEPT ![c] = "acked"]
        /\ ack' = [ack EXCEPT ![c] = Len(log) + 1]
     \/ UNCHANGED <<pc, ack>>
  /\ UNCHANGED <<at, cmd, attempt, reply, confirmed, writes>>
Lose(c) ==
  /\ sent[c] # <<>>
  /\ sent' = [sent EXCEPT ![c] = Tail(@)]
  /\ UNCHANGED <<log, at, pc, cmd, attempt, ack, reply, confirmed, writes>>

(* An acknowledged command is replayed up to its own offset; if that fails *)
(* the view is rebuilt once, and if that fails too the write reports it.   *)
Confirm(c) ==
  /\ pc[c] = "acked"
  /\ \/ /\ \E k \in {ack[c], Len(log)} : at' = [at EXCEPT ![c] = IF k > @ THEN k ELSE @]
        /\ Return(c, "ok", cmd[c])
     \/ Return(c, "uncertain", cmd[c]) /\ UNCHANGED at
  /\ UNCHANGED <<log, sent, cmd, writes>>

Found(c) == cmd[c] \in ViewAt(at'[c]).done

SendAgain(c) == attempt[c] = 1

(* _produce_with_recovery: no acknowledgement came.  The log is searched,  *)
(* if it can be read, before the command is sent a second time or given    *)
(* up.                                                                     *)
Recover(c) ==
  /\ pc[c] = "sent"
  /\ Synced(c) \/ UNCHANGED at
  /\ IF Found(c) THEN Return(c, "ok", cmd[c]) /\ UNCHANGED sent
     ELSE IF SendAgain(c) THEN Produce(c, cmd[c], attempt[c] + 1)
     ELSE Return(c, "uncertain", cmd[c]) /\ UNCHANGED sent
  /\ UNCHANGED <<log, cmd, writes>>

(* reconnect, or a new process: the log is replayed from the beginning;    *)
(* what the old producer held is lost or still on its way.                 *)
Reconnect(c) ==
  /\ Synced(c)
  /\ pc' = [pc EXCEPT ![c] = "idle"]
  /\ reply' = [reply EXCEPT ![c] = "none"]
  /\ attempt' = [attempt EXCEPT ![c] = 0] /\ ack' = [ack EXCEPT ![c] = 0]
  /\ UNCHANGED <<log, sent, cmd, confirmed, writes>>

Next ==
  \/ \E c \in Clients : \/ Read(c) \/ Deliver(c) \/ Lose(c) \/ Confirm(c) \/ Recover(c)
                        \/ Reconnect(c)
                        \/ \E command \in Offered : Write(c, command)
  \/ \E o \in Observers : Read(o)

Spec == Init /\ [][Next]_vars

-----------------------------------------------------------------------------
(* A write that returns is in the log for good, and in every view that is  *)
(* read afterwards (KafkaStore: "consumes through its own command offset   *)
(* before returning").                                                     *)
ReturnedIsInLog == \A command \in confirmed : command \in Whole.done

(* ... and in the view of the client it returned to.                       *)
ReadsOwnWrite == \A c \in Clients : reply[c] = "ok" => cmd[c] \in View(c).done

(* A command that is in the log twice, because it was sent again and both  *)
(* deliveries came, or came late, has its effect once: a late duplicate    *)
(* neither repeats a conflict nor undoes what came in between.             *)
DuplicatesHarmless ==
  \A k \in 1 .. Len(log') :
    (k = Len(log) + 1 /\ log'[k] \in ToSet(log)) => Whole' = Whole

(* No command in the log failed: since its outcome stays with its id, a    *)
(* failed one would be refused for ever (_raise_outcome).                  *)
NothingPoisoned == Whole.failed = {}

(* Every client has seen a prefix of one history, and none sees a tree     *)
(* with holes or less than it saw before.                                  *)
ViewsGrow ==
  \A c \in All :
    LET seen == View(c) sees == View(c)' IN
    \A n \in Nodes : Has(seen, n) => sees.result[n] = seen.result[n] /\ HasParent(sees, n)
=============================================================================
