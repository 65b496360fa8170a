------------------------------ MODULE Approvals ------------------------------
(***************************************************************************)
(* One approval request: reviewers decide it, workers act on it.           *)
(*                                                                         *)
(* decide_approval binds a slot node below the request, whose result names *)
(* the decision, and then stores the decision below the slot; every access *)
(* to the store is a step, and a reviewer may die between any two.         *)
(* ApprovalPolicy.decide reads the ancestors of the cursor, the slot, the  *)
(* decision, and then the request's subtree, while others write.           *)
(*                                                                         *)
(* A worker's cursor is at the request, or below it at the record of the   *)
(* action it dispatched, from where it may roll back.                      *)
(***************************************************************************)
EXTENDS Naturals, FiniteSets

CONSTANTS
  Reviewers,   \* processes of the reviewer service
  Workers,     \* processes that restored the worker's checkpoint
  Decisions,   \* approved or denied, by some reviewer name
  Approving,   \* the decisions with approved = True
  Undecided,   \* no slot is stored
  MaxRepeats,  \* bound: how often reviewers start again
  MaxRecords   \* bound: dispatches of a worker

ASSUME DecisionsAssumption ==
  /\ Approving \subseteq Decisions
  /\ Undecided \notin Decisions

ASSUME BoundsAssumption == MaxRepeats \in Nat /\ MaxRecords \in Nat

VARIABLES
  requested,   \* the request node is stored
  slot,        \* the decision the slot's result names
  conflicts,   \* result_conflicts of the slot
  decisions,   \* the decision nodes stored below the slot
  step,        \* reviewer -> where its call to decide_approval is
  choice,      \* reviewer -> the decision it records
  answer,      \* reviewer -> what its call was told
  repeats,     \* how often a reviewer has started again
  pc,          \* worker -> where its tool_call is
  cursor,      \* worker -> "request" or its last record
  records,     \* worker -> dispatches recorded below the request
  late         \* worker -> a record was stored before its check began

review == <<requested, slot, conflicts, decisions, step, choice, answer, repeats>>
work == <<pc, cursor, records, late>>
vars == <<review, work>>

Steps == {"look", "bind", "validate", "store", "read", "ended"}
Places == {"idle", "climb", "slot", "decision", "subtree", "allowed", "denied", "dispatched"}

TypeOK ==
  /\ requested \in BOOLEAN
  /\ slot \in Decisions \cup {Undecided}
  /\ conflicts \subseteq Decisions
  /\ decisions \subseteq Decisions
  /\ step \in [Reviewers -> Steps]
  /\ choice \in [Reviewers -> Decisions]
  /\ answer \in [Reviewers -> {"none", "accepted", "refused"}]
  /\ repeats \in 0 .. MaxRepeats
  /\ pc \in [Workers -> Places]
  /\ cursor \in [Workers -> {"request", "record"}]
  /\ records \in [Workers -> 0 .. MaxRecords]
  /\ late \in [Workers -> BOOLEAN]

Init ==
  /\ requested = FALSE
  /\ slot = Undecided
  /\ conflicts = {}
  /\ decisions = {}
  /\ step = [v \in Reviewers |-> "look"]
  /\ choice \in [Reviewers -> Decisions]
  /\ answer = [v \in Reviewers |-> "none"]
  /\ repeats = 0
  /\ pc = [w \in Workers |-> "idle"]
  /\ cursor = [w \in Workers |-> "request"]
  /\ records = [w \in Workers |-> 0]
  /\ late = [w \in Workers |-> FALSE]

-----------------------------------------------------------------------------
(* decide_approval.                                                        *)

Goto(v, s) == step' = [step EXCEPT ![v] = s]
Tell(v, a) == answer' = [answer EXCEPT ![v] = a]

(* A mutant: the binding is read back but not compared.                    *)
Unvalidated(v) == slot # Undecided

ValidatedBy(v) == slot = choice[v]

(* The slot is there: a conflict ends the call, a recorded decision is     *)
(* returned, and a missing one is repaired.  Slots and decisions stay as   *)
(* they are once stored, so these reads are one step.                      *)
Look(v) ==
  /\ step[v] = "look"
  /\ requested
  /\ \/ /\ slot = Undecided
        /\ Goto(v, "bind")
        /\ UNCHANGED answer
     \/ /\ slot # Undecided
        /\ ~ValidatedBy(v)
        /\ Goto(v, "ended")
        /\ Tell(v, "refused")
     \/ /\ slot # Undecided
        /\ ValidatedBy(v)
        /\ IF choice[v] \in decisions
           THEN Goto(v, "ended") /\ Tell(v, "accepted")
           ELSE Goto(v, "bind") /\ UNCHANGED answer
  /\ UNCHANGED <<requested, slot, conflicts, decisions, choice, repeats, work>>

(* store.put: the first result stays, another one is kept as a conflict.   *)
PutBinding(v) ==
  IF slot = Undecided THEN slot' = choice[v] /\ UNCHANGED conflicts
  ELSE UNCHANGED slot /\ conflicts' = conflicts \cup ({choice[v]} \ {slot})

BindSlot(v) ==
  /\ step[v] = "bind"
  /\ PutBinding(v)
  /\ Goto(v, "validate")
  /\ UNCHANGED <<requested, decisions, choice, answer, repeats, work>>

Validate(v) ==
  /\ step[v] = "validate"
  /\ IF ValidatedBy(v) THEN Goto(v, "store") /\ UNCHANGED answer
     ELSE Goto(v, "ended") /\ Tell(v, "refused")
  /\ UNCHANGED <<requested, slot, conflicts, decisions, choice, repeats, work>>

StoreDecision(v) ==
  /\ step[v] = "store"
  /\ decisions' = decisions \cup {choice[v]}
  /\ Goto(v, "read")
  /\ UNCHANGED <<requested, slot, conflicts, choice, answer, repeats, work>>

(* _read_decision follows the slot, whatever this call has stored.         *)
ReadBack(v) ==
  /\ step[v] = "read"
  /\ slot \in decisions
  /\ Goto(v, "ended")
  /\ Tell(v, "accepted")
  /\ UNCHANGED <<requested, slot, conflicts, decisions, choice, repeats, work>>

(* The reviewer's process dies, or its call has ended; it starts again,    *)
(* with the same decision or another one.                                  *)
StartAgain(v, d) ==
  /\ repeats < MaxRepeats
  /\ repeats' = repeats + 1
  /\ choice' = [choice EXCEPT ![v] = d]
  /\ Goto(v, "look")
  /\ Tell(v, "none")
  /\ UNCHANGED <<requested, slot, conflicts, decisions, work>>

-----------------------------------------------------------------------------
(* Registered tool calls below the request.                                *)

To(w, p) == pc' = [pc EXCEPT ![w] = p]
(* request_approval stores the request, once; a repeat finds it again.     *)
RequestApproval(w) ==
  /\ pc[w] = "idle"
  /\ ~requested
  /\ requested' = TRUE
  /\ UNCHANGED <<slot, conflicts, decisions, step, choice, answer, repeats, work>>

Recorded == \E w \in Workers : records[w] > 0

BeginCheck(w) ==
  /\ requested
  /\ pc[w] \in {"idle", "denied"}
  /\ To(w, "climb")
  /\ late' = [late EXCEPT ![w] = Recorded]
  /\ UNCHANGED <<review, cursor, records>>

(* From the cursor to the request: a dispatch on the way denies, and so    *)
(* does a request for another action, registry or actor.                   *)
Climb(w) ==
  /\ pc[w] = "climb"
  /\ \E fits \in BOOLEAN :
       To(w, IF cursor[w] = "record" \/ ~fits THEN "denied" ELSE "slot")
  /\ UNCHANGED <<review, cursor, records, late>>

ReadSlot(w) ==
  /\ pc[w] = "slot"
  /\ To(w, IF slot = Undecided THEN "denied" ELSE "decision")
  /\ UNCHANGED <<review, cursor, records, late>>

(* A mutant: the slot alone is taken for the decision.                     *)
BoundOnly == slot \in Approving

Granted == slot \in decisions /\ slot \in Approving

ReadDecision(w) ==
  /\ pc[w] = "decision"
  /\ To(w, IF Granted THEN "subtree" ELSE "denied")
  /\ UNCHANGED <<review, cursor, records, late>>

Exhausted(w) == Recorded

ReadSubtree(w) ==
  /\ pc[w] = "subtree"
  /\ To(w, IF Exhausted(w) THEN "denied" ELSE "allowed")
  /\ UNCHANGED <<review, cursor, records, late>>

(* The handler starts; what it does outside cannot be taken back.          *)
Dispatch(w) ==
  /\ pc[w] = "allowed"
  /\ To(w, "dispatched")
  /\ UNCHANGED <<review, cursor, records, late>>

(* The result, an unknown outcome or a failed recording is stored below    *)
(* the cursor, which moves there.                                          *)
Record(w) ==
  /\ pc[w] = "dispatched"
  /\ records[w] < MaxRecords
  /\ records' = [records EXCEPT ![w] = @ + 1]
  /\ cursor' = [cursor EXCEPT ![w] = "record"]
  /\ To(w, "idle")
  /\ UNCHANGED <<review, late>>

(* The budget refuses the call, or the handler is known to have failed: a  *)
(* refusal or nothing is stored, neither of which uses the approval up.    *)
Fail(w) ==
  /\ pc[w] \in {"allowed", "dispatched"}
  /\ To(w, "idle")
  /\ UNCHANGED <<review, cursor, records, late>>

Rollback(w) ==
  /\ pc[w] \in {"idle", "denied"}
  /\ cursor[w] = "record"
  /\ cursor' = [cursor EXCEPT ![w] = "request"]
  /\ UNCHANGED <<review, pc, records, late>>

ReviewerNext(v) ==
  \/ Look(v) \/ BindSlot(v) \/ Validate(v) \/ StoreDecision(v) \/ ReadBack(v)
  \/ \E d \in Decisions : StartAgain(v, d)

WorkerNext(w) ==
  \/ RequestApproval(w) \/ BeginCheck(w) \/ Climb(w) \/ ReadSlot(w) \/ ReadDecision(w) \/ ReadSubtree(w)
  \/ Dispatch(w) \/ Record(w) \/ Fail(w) \/ Rollback(w)

Next ==
  \/ \E v \in Reviewers : ReviewerNext(v)
  \/ \E w \in Workers : WorkerNext(w)

Spec == Init /\ [][Next]_vars

-----------------------------------------------------------------------------
(* However reviewers race, die and start again, at most one decision is    *)
(* ever stored, and it is the one the slot names (decide_approval).        *)
OneDecision == decisions \subseteq {slot}

(* A reviewer that was told its decision is recorded told the truth, and   *)
(* one that was refused had proposed another decision: repeating exactly   *)
(* the bound decision always repairs a crash (decide_approval).            *)
AnswersTrue == \A v \in Reviewers :
  /\ answer[v] = "accepted" => choice[v] \in decisions
  /\ answer[v] = "refused" => slot # choice[v]

(* An action is dispatched under an approving decision that is stored:     *)
(* a crash between slot and decision approves nothing (ApprovalPolicy).    *)
DispatchApproved == \A w \in Workers :
  pc[w] \in {"allowed", "dispatched"} => slot \in decisions \cap Approving

(* Once an action is recorded below the request no later check allows      *)
(* another, by any worker and also after rollback; only checks that had    *)
(* begun before can (ApprovalPolicy.decide).                               *)
RecordExhausts == \A w \in Workers :
  pc[w] \in {"allowed", "dispatched"} => ~late[w]

(* The slot keeps its first decision, and a stored decision stays.         *)
DecisionIsFinal ==
  [][(slot # Undecided => slot' = slot) /\ decisions \subseteq decisions']_vars

(* The slot behaves as a write-once register (decide_approval).            *)
Register == INSTANCE WriteOnce
  WITH Proposers <- Reviewers, Values <- Decisions, Unbound <- Undecided,
       value <- slot, proposal <- choice
BindsOnce == Register!Spec
=============================================================================
