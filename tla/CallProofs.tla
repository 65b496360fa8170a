------------------------------ MODULE CallProofs ------------------------------
(***************************************************************************)
(* Proofs about what one call goes through: the approval it waits for      *)
(* (Approvals), the meters around it (MeasuredCall), the stream of its     *)
(* answer (StreamedCall) and the process that may give that answer         *)
(* (CodexProcess).  `late' is a variable of two of them; no theorem is     *)
(* about both.                                                             *)
(***************************************************************************)
EXTENDS Approvals, Totals, Sequences, SequenceTheorems
-----------------------------------------------------------------------------
(* Proofs, for any reviewers, workers and decisions.  A reviewer knows     *)
(* more of the slot at each of its steps (ReviewInv), and so does a worker *)
(* (CheckInv); neither is undone by what others write, because slots,      *)
(* decisions and records only ever come to be.                             *)
ReviewInv ==
  /\ OneDecision
  /\ AnswersTrue
  /\ \A v \in Reviewers :
       /\ step[v] = "validate" => slot # Undecided
       /\ step[v] \in {"store", "read"} => slot = choice[v]
       /\ step[v] = "read" => choice[v] \in decisions
       /\ answer[v] = "refused" => slot # Undecided

CheckInv == \A w \in Workers :
  /\ pc[w] \in {"subtree", "allowed", "dispatched"} => slot \in decisions \cap Approving
  /\ pc[w] \in {"allowed", "dispatched"} => ~late[w]
  /\ late[w] => Recorded

IInv == TypeOK /\ ReviewInv /\ CheckInv

-----------------------------------------------------------------------------
(* The types hold at first.                                                *)
LEMMA InitTypes == Init => TypeOK
<1> SUFFICES ASSUME Init PROVE TypeOK
  OBVIOUS
<1>1. late \in [Workers -> BOOLEAN]
  BY Zenon DEF Init
<1>2. requested \in BOOLEAN
  BY DEF Init
<1>3. repeats \in 0 .. MaxRepeats /\ records \in [Workers -> 0 .. MaxRecords]
  BY BoundsAssumption DEF Init
<1>4. step \in [Reviewers -> Steps] /\ pc \in [Workers -> Places]
  BY DEF Init, Steps, Places
<1> QED
  BY <1>1, <1>2, <1>3, <1>4 DEF Init, TypeOK

(* The types are kept by every step.                                       *)
LEMMA NextTypes == TypeOK /\ [Next]_vars => TypeOK'
<1> SUFFICES ASSUME TypeOK, [Next]_vars PROVE TypeOK'
  OBVIOUS
<1> USE DEF Steps, Places, Goto, Tell, To
<1>1. ASSUME NEW v \in Reviewers, Look(v) PROVE TypeOK'
  BY <1>1 DEF TypeOK, Look, ValidatedBy, work
<1>2. ASSUME NEW v \in Reviewers, BindSlot(v) PROVE TypeOK'
  BY <1>2 DEF TypeOK, BindSlot, PutBinding, work
<1>3. ASSUME NEW v \in Reviewers, Validate(v) PROVE TypeOK'
  BY <1>3 DEF TypeOK, Validate, ValidatedBy, work
<1>4. ASSUME NEW v \in Reviewers, StoreDecision(v) PROVE TypeOK'
  BY <1>4 DEF TypeOK, StoreDecision, work
<1>5. ASSUME NEW v \in Reviewers, ReadBack(v) PROVE TypeOK'
  BY <1>5 DEF TypeOK, ReadBack, work
<1>6. ASSUME NEW v \in Reviewers, NEW d \in Decisions, StartAgain(v, d) PROVE TypeOK'
  BY <1>6, BoundsAssumption DEF TypeOK, StartAgain, work
<1>7. ASSUME NEW w \in Workers, RequestApproval(w) PROVE TypeOK'
  BY <1>7 DEF TypeOK, RequestApproval, work
<1>8. ASSUME NEW w \in Workers, BeginCheck(w) PROVE TypeOK'
  BY <1>8 DEF TypeOK, BeginCheck, review, Recorded
<1>9. ASSUME NEW w \in Workers, Climb(w) PROVE TypeOK'
  BY <1>9 DEF TypeOK, Climb, review
<1>10. ASSUME NEW w \in Workers, ReadSlot(w) PROVE TypeOK'
  BY <1>10 DEF TypeOK, ReadSlot, review
<1>11. ASSUME NEW w \in Workers, ReadDecision(w) PROVE TypeOK'
  BY <1>11 DEF TypeOK, ReadDecision, review
<1>12. ASSUME NEW w \in Workers, ReadSubtree(w) PROVE TypeOK'
  BY <1>12 DEF TypeOK, ReadSubtree, review
<1>13. ASSUME NEW w \in Workers, Dispatch(w) PROVE TypeOK'
  BY <1>13 DEF TypeOK, Dispatch, review
<1>14. ASSUME NEW w \in Workers, Record(w) PROVE TypeOK'
  BY <1>14, BoundsAssumption DEF TypeOK, Record, review
<1>15. ASSUME NEW w \in Workers, Fail(w) PROVE TypeOK'
  BY <1>15 DEF TypeOK, Fail, review
<1>16. ASSUME NEW w \in Workers, Rollback(w) PROVE TypeOK'
  BY <1>16 DEF TypeOK, Rollback, review
<1>17. CASE UNCHANGED vars
  BY <1>17 DEF TypeOK, vars, review, work
<1> QED
  BY <1>1, <1>2, <1>3, <1>4, <1>5, <1>6, <1>7, <1>8, <1>9, <1>10, <1>11, <1>12,
     <1>13, <1>14, <1>15, <1>16, <1>17 DEF Next, ReviewerNext, WorkerNext

(* Types are correct in every reachable state.                             *)
THEOREM ApprovalTypes == Spec => []TypeOK
<1>1. Init => TypeOK
  BY InitTypes
<1>2. TypeOK /\ [Next]_vars => TypeOK'
  BY NextTypes
<1> QED
  BY <1>1, <1>2, PTL DEF Spec

-----------------------------------------------------------------------------
(* What one step does to slot, decisions and records: each only comes to   *)
(* be.  A decision is added only by the reviewer whose choice is bound.    *)
LEMMA StepEffect ==
  ASSUME TypeOK, ReviewInv, [Next]_vars
  PROVE  /\ slot # Undecided => slot' = slot
         /\ decisions \subseteq decisions'
         /\ decisions' \subseteq {slot'}
         /\ Recorded => Recorded'
<1>1. ASSUME NEW v \in Reviewers, BindSlot(v)
      PROVE  /\ slot # Undecided => slot' = slot
             /\ UNCHANGED <<decisions, records>>
  BY <1>1 DEF BindSlot, PutBinding, work
<1>2. ASSUME NEW v \in Reviewers, StoreDecision(v)
      PROVE  /\ UNCHANGED <<slot, records>>
             /\ decisions' = decisions \cup {slot}
  BY <1>2 DEF StoreDecision, ReviewInv, work
<1>3. ASSUME NEW w \in Workers, Record(w)
      PROVE  /\ UNCHANGED <<slot, decisions>>
             /\ Recorded'
  BY <1>3 DEF Record, TypeOK, Recorded, review
<1>4. ASSUME NEW v \in Reviewers,
             \/ Look(v) \/ Validate(v) \/ ReadBack(v)
             \/ \E d \in Decisions : StartAgain(v, d)
      PROVE  UNCHANGED <<slot, decisions, records>>
  BY <1>4 DEF Look, Validate, ReadBack, StartAgain, work
<1>5. ASSUME NEW w \in Workers,
             \/ RequestApproval(w) \/ BeginCheck(w) \/ Climb(w) \/ ReadSlot(w)
             \/ ReadDecision(w) \/ ReadSubtree(w) \/ Dispatch(w) \/ Fail(w) \/ Rollback(w)
      PROVE  UNCHANGED <<slot, decisions, records>>
  BY <1>5 DEF RequestApproval, BeginCheck, Climb, ReadSlot, ReadDecision, ReadSubtree,
     Dispatch, Fail, Rollback, review, work
<1>6. CASE UNCHANGED vars
  BY <1>6 DEF vars, review, work, ReviewInv, OneDecision, Recorded
<1>7. decisions \subseteq {slot} /\ decisions \subseteq Decisions /\ Undecided \notin Decisions
  BY DecisionsAssumption DEF ReviewInv, OneDecision, TypeOK
<1>8. ASSUME UNCHANGED records PROVE Recorded => Recorded'
  BY <1>8 DEF Recorded
<1>9. CASE \E v \in Reviewers : ReviewerNext(v)
  BY <1>1, <1>2, <1>4, <1>7, <1>8, <1>9 DEF ReviewerNext
<1>10. CASE \E w \in Workers : WorkerNext(w)
  BY <1>3, <1>5, <1>7, <1>8, <1>10 DEF WorkerNext
<1> QED
  BY <1>6, <1>9, <1>10 DEF Next

-----------------------------------------------------------------------------
(* A reviewer's step: what it knows of the slot is true of the next state. *)
LEMMA ReviewStep ==
  ASSUME TypeOK, TypeOK', ReviewInv, NEW v \in Reviewers, ReviewerNext(v)
  PROVE  ReviewInv'
<1> USE DEF TypeOK, Goto, Tell
<1>1. Undecided \notin Decisions
  BY DecisionsAssumption
<1>2. CASE Look(v)
  BY <1>1, <1>2 DEF Look, ValidatedBy, ReviewInv, OneDecision, AnswersTrue
<1>3. CASE BindSlot(v)
  BY <1>1, <1>3 DEF BindSlot, PutBinding, ReviewInv, OneDecision, AnswersTrue
<1>4. CASE Validate(v)
  BY <1>1, <1>4 DEF Validate, ValidatedBy, ReviewInv, OneDecision, AnswersTrue
<1>5. CASE StoreDecision(v)
  BY <1>1, <1>5 DEF StoreDecision, ReviewInv, OneDecision, AnswersTrue
<1>6. CASE ReadBack(v)
  BY <1>1, <1>6 DEF ReadBack, ReviewInv, OneDecision, AnswersTrue
<1>7. ASSUME NEW d \in Decisions, StartAgain(v, d) PROVE ReviewInv'
  BY <1>1, <1>7 DEF StartAgain, ReviewInv, OneDecision, AnswersTrue
<1> QED
  BY <1>2, <1>3, <1>4, <1>5, <1>6, <1>7 DEF ReviewerNext

(* Workers write nothing that a reviewer knows of.                         *)
LEMMA WorkApart ==
  ASSUME NEW w \in Workers, WorkerNext(w)
  PROVE  UNCHANGED <<slot, conflicts, decisions, step, choice, answer, repeats>>
  BY DEF WorkerNext, RequestApproval, BeginCheck, Climb, ReadSlot, ReadDecision,
     ReadSubtree, Dispatch, Record, Fail, Rollback, review

(* Nor do reviewers write anything of a worker's.                          *)
LEMMA ReviewApart ==
  ASSUME NEW v \in Reviewers, ReviewerNext(v)
  PROVE  UNCHANGED <<requested, work>>
  BY DEF ReviewerNext, Look, BindSlot, Validate, StoreDecision, ReadBack, StartAgain

LEMMA ReviewKept == ASSUME TypeOK, TypeOK', ReviewInv, [Next]_vars PROVE ReviewInv'
<1>1. ASSUME UNCHANGED <<slot, decisions, step, choice, answer>> PROVE ReviewInv'
  BY <1>1 DEF ReviewInv, OneDecision, AnswersTrue
<1> QED
  BY <1>1, ReviewStep, WorkApart DEF Next, vars, review

(* A worker's step: it goes on only as far as what it has read allows.     *)
LEMMA CheckStep ==
  ASSUME TypeOK, CheckInv, NEW w \in Workers, WorkerNext(w), Recorded => Recorded'
  PROVE  CheckInv'
<1> USE DEF TypeOK, To
<1>1. UNCHANGED <<slot, decisions>>
  BY WorkApart
<1>2. CASE RequestApproval(w) \/ Rollback(w)
  <2>1. UNCHANGED <<pc, late>>
    BY <1>2 DEF RequestApproval, Rollback, work
  <2> QED
    BY <1>1, <2>1 DEF CheckInv
<1>3. CASE BeginCheck(w)
  <2>1. pc'[w] = "climb" /\ (late'[w] => Recorded)
    BY <1>3 DEF BeginCheck
  <2>2. \A x \in Workers \ {w} : pc'[x] = pc[x] /\ late'[x] = late[x]
    BY <1>3 DEF BeginCheck
  <2> QED
    BY <1>1, <2>1, <2>2 DEF CheckInv
<1>4. CASE Climb(w) \/ ReadSlot(w) \/ Fail(w)
  <2>1. UNCHANGED late /\ pc'[w] \notin {"subtree", "allowed", "dispatched"}
    BY <1>4 DEF Climb, ReadSlot, Fail
  <2>2. \A x \in Workers \ {w} : pc'[x] = pc[x]
    BY <1>4 DEF Climb, ReadSlot, Fail
  <2> QED
    BY <1>1, <2>1, <2>2 DEF CheckInv
<1>5. CASE ReadDecision(w)
  <2>1. UNCHANGED late /\ pc'[w] \in {"subtree", "denied"}
    BY <1>5 DEF ReadDecision
  <2>2. pc'[w] = "subtree" => slot \in decisions \cap Approving
    BY <1>5 DEF ReadDecision, Granted
  <2>3. \A x \in Workers \ {w} : pc'[x] = pc[x]
    BY <1>5 DEF ReadDecision
  <2> QED
    BY <1>1, <2>1, <2>2, <2>3 DEF CheckInv
<1>6. CASE ReadSubtree(w)
  <2>1. UNCHANGED late /\ pc[w] = "subtree" /\ pc'[w] \in {"allowed", "denied"}
    BY <1>6 DEF ReadSubtree
  <2>2. pc'[w] = "allowed" => ~ Recorded
    BY <1>6 DEF ReadSubtree, Exhausted
  <2>3. \A x \in Workers \ {w} : pc'[x] = pc[x]
    BY <1>6 DEF ReadSubtree
  <2> QED
    BY <1>1, <2>1, <2>2, <2>3 DEF CheckInv
<1>7. CASE Dispatch(w)
  <2>1. UNCHANGED late /\ pc[w] = "allowed" /\ pc'[w] = "dispatched"
    BY <1>7 DEF Dispatch
  <2>2. \A x \in Workers \ {w} : pc'[x] = pc[x]
    BY <1>7 DEF Dispatch
  <2> QED
    BY <1>1, <2>1, <2>2 DEF CheckInv
<1>8. CASE Record(w)
  <2>1. UNCHANGED late /\ pc'[w] = "idle"
    BY <1>8 DEF Record
  <2>2. \A x \in Workers \ {w} : pc'[x] = pc[x]
    BY <1>8 DEF Record
  <2> QED
    BY <1>1, <2>1, <2>2 DEF CheckInv
<1> QED
  BY <1>2, <1>3, <1>4, <1>5, <1>6, <1>7, <1>8 DEF WorkerNext

LEMMA CheckKept ==
  ASSUME TypeOK, ReviewInv, CheckInv, [Next]_vars
  PROVE  CheckInv'
<1>1. /\ decisions \subseteq decisions'
      /\ decisions' \subseteq {slot'}
      /\ Recorded => Recorded'
  BY StepEffect
<1>2. ASSUME UNCHANGED work PROVE CheckInv'
  <2>1. slot \in decisions => slot' = slot
    BY <1>1
  <2> QED
    BY <1>1, <1>2, <2>1 DEF CheckInv, work
<1> QED
  BY <1>1, <1>2, CheckStep, ReviewApart DEF Next, vars

LEMMA Inductive == Spec => []IInv
<1>1. Init => IInv
  <2> SUFFICES ASSUME Init PROVE IInv
    OBVIOUS
  <2>1. ReviewInv
    BY DEF Init, ReviewInv, OneDecision, AnswersTrue
  <2>2. \A w \in Workers : pc[w] = "idle" /\ ~ late[w]
    BY DEF Init
  <2>3. CheckInv
    BY <2>2 DEF CheckInv
  <2> QED
    BY <2>1, <2>3, InitTypes DEF IInv
<1>2. IInv /\ [Next]_vars => IInv'
  BY NextTypes, ReviewKept, CheckKept DEF IInv
<1> QED
  BY <1>1, <1>2, PTL DEF Spec

-----------------------------------------------------------------------------
(* However reviewers race, die and start again, one decision stands, and   *)
(* what each was told of it is true (decide_approval).                     *)
THEOREM OneDecisionStands == Spec => [](OneDecision /\ AnswersTrue)
<1>1. IInv => OneDecision /\ AnswersTrue
  BY DEF IInv, ReviewInv
<1> QED
  BY <1>1, Inductive, PTL

(* Nothing is dispatched without a stored, approving decision              *)
(* (ApprovalPolicy.decide).                                                *)
THEOREM DispatchIsApproved == Spec => []DispatchApproved
<1>1. IInv => DispatchApproved
  BY DEF IInv, CheckInv, DispatchApproved
<1> QED
  BY <1>1, Inductive, PTL

(* A check that begins after an action was recorded allows no other        *)
(* (ApprovalPolicy.decide).                                                *)
THEOREM RecordsExhaust == Spec => []RecordExhausts
<1>1. IInv => RecordExhausts
  BY DEF IInv, CheckInv, RecordExhausts
<1> QED
  BY <1>1, Inductive, PTL

(* Neither slot nor decision is ever changed or removed (decide_approval). *)
THEOREM DecisionStays == Spec => DecisionIsFinal
<1>1. IInv /\ [Next]_vars => [(slot # Undecided => slot' = slot) /\ decisions \subseteq decisions']_vars
  BY StepEffect DEF IInv
<1> QED
  BY <1>1, Inductive, PTL DEF Spec, DecisionIsFinal

(* Every step of a reviewer is one of the write-once register's, or none   *)
(* of its business.                                                        *)
LEMMA StepBinds ==
  ASSUME IInv, [Next]_vars
  PROVE  [Register!Next]_(Register!vars)
<1> USE DEF IInv, TypeOK, Register!vars, Goto, Tell
<1>1. ASSUME NEW v \in Reviewers, Look(v) PROVE [Register!Next]_(Register!vars)
  <2>1. CASE UNCHANGED answer
    BY <1>1, <2>1 DEF Look
  <2>2. CASE slot # Undecided /\ slot # choice[v] /\ answer' = [answer EXCEPT ![v] = "refused"]
    BY <1>1, <2>2 DEF Look, Register!Next, Register!Refuse
  <2>3. CASE slot = choice[v] /\ answer' = [answer EXCEPT ![v] = "accepted"]
    BY <1>1, <2>3 DEF Look, Register!Next, Register!Accept
  <2> QED
    BY <1>1, <2>1, <2>2, <2>3 DEF Look, ValidatedBy
<1>2. ASSUME NEW v \in Reviewers, BindSlot(v) PROVE [Register!Next]_(Register!vars)
  BY <1>2 DEF BindSlot, PutBinding, Register!Next, Register!Bind
<1>3. ASSUME NEW v \in Reviewers, Validate(v) PROVE [Register!Next]_(Register!vars)
  BY <1>3 DEF Validate, ValidatedBy, ReviewInv, Register!Next, Register!Refuse
<1>4. ASSUME NEW v \in Reviewers, StoreDecision(v) PROVE UNCHANGED Register!vars
  BY <1>4 DEF StoreDecision
<1>5. ASSUME NEW v \in Reviewers, ReadBack(v) PROVE [Register!Next]_(Register!vars)
  BY <1>5 DEF ReadBack, ReviewInv, Register!Next, Register!Accept
<1>6. ASSUME NEW v \in Reviewers, NEW d \in Decisions, StartAgain(v, d)
      PROVE  [Register!Next]_(Register!vars)
  BY <1>6 DEF StartAgain, Register!Next, Register!Propose
<1>7. ASSUME NEW w \in Workers, WorkerNext(w) PROVE UNCHANGED Register!vars
  BY <1>7, WorkApart
<1>8. CASE UNCHANGED vars
  BY <1>8 DEF vars, review
<1> QED
  BY <1>1, <1>2, <1>3, <1>4, <1>5, <1>6, <1>7, <1>8 DEF Next, ReviewerNext

(* The decision slot implements the write-once register (decide_approval). *)
THEOREM ImplementsRegister == Spec => BindsOnce
<1>1. Init => Register!Init
  BY DEF Init, Register!Init
<1>2. IInv /\ [Next]_vars => [Register!Next]_(Register!vars)
  BY StepBinds
<1> QED
  BY <1>1, <1>2, Inductive, PTL DEF Spec, BindsOnce, Register!Spec
-----------------------------------------------------------------------------
(* A call through all that is done around its step (MeasuredCall): what    *)
(* was begun ends, what was sent is charged, and the first error is what   *)
(* the caller sees, whatever fails and however often.                      *)
CONSTANTS Measured, Estimate, Usages, Unreported, Budget, MaxCalls, MaxFaults
VARIABLES at, entered, mine, exits, sent, usage, answered, unknown, held, settled, errors,
          cleanup, tree, raised, adrift, calls, faults

Call == INSTANCE MeasuredCall

(* What meters measure and providers report are natural numbers, and that  *)
(* there is no report is none of these.                                    *)
CallAllowed ==
  /\ Measured \in Nat /\ Estimate \in Nat /\ Budget \in Nat
  /\ Usages \subseteq Nat /\ Unreported \notin Usages
  /\ MaxCalls \in Nat /\ MaxFaults \in Nat

CallErrors == {"lease", "enter", "measure", "step", "exit", "stop", "accounting", "settle", "put"}
CallNode == [is : Call!NodeKinds, tokens : Nat]
CallTypes == Call!TypeOK /\ errors \in Seq(CallErrors)

(* The types by part.                                                      *)
CallLists ==
  /\ entered \in Seq(1 .. Measured) /\ mine \in Seq(1 .. Measured)
  /\ exits \in Seq(1 .. Measured)
CallFlags ==
  /\ at \in Call!Stages
  /\ sent \in BOOLEAN /\ answered \in BOOLEAN /\ unknown \in BOOLEAN /\ held \in BOOLEAN
  /\ usage \in Usages \cup {Unreported} /\ adrift \in BOOLEAN
CallCounts ==
  /\ settled \in Nat /\ calls \in 0 .. MaxCalls /\ faults \in 0 .. MaxFaults

(* Where a call is before its step was called, and after it.               *)
CallBefore == {"estimating", "leasing", "measuring", "dispatching"}
CallAfter == {"unleasing", "judging", "settling", "recording"}

(* The measurements stopped so far are the last of those to be stopped, in *)
(* reverse, and these are all unless measure() itself has raised.          *)
CallMine == mine = entered \/ Call!Has("measure")
CallReversed ==
  Len(exits) <= Len(mine) /\ \A i \in 1 .. Len(exits) : exits[i] = mine[Len(mine) - i + 1]
CallLeft == CallMine /\ CallReversed
CallProperlyEnded ==
  \/ calls = 0 \/ raised \in {"BudgetExceeded", "estimate"} \/ Call!Has("measure")
  \/ exits = Call!Reverse(entered)

CallOrder ==
  /\ at \in CallBefore => exits = <<>> /\ errors = <<>>
  /\ at \in {"estimating", "leasing"} => entered = <<>> /\ mine = <<>>
  /\ at = "dispatching" => mine = entered
  /\ at = "stopping" => CallLeft
  /\ at \in CallAfter => CallLeft /\ Len(exits) = Len(mine)
  /\ at \in {"settling", "recording"} => errors = <<>>
  /\ at = "idle" => CallProperlyEnded
  /\ at = "idle" /\ errors # <<>> => raised = Head(errors)

CallCharged ==
  \/ tree # <<>> /\ Call!Last(tree).is # "refusal"
       /\ Call!Last(tree).tokens =
            (IF raised = "none" /\ usage # Unreported THEN usage ELSE Estimate)
  \/ adrift /\ raised # "none"

CallSent ==
  /\ at \in CallBefore => ~sent
  /\ at \in {"stopping"} \cup CallAfter /\ sent => Call!NotReleased
  /\ at = "idle" /\ sent => CallCharged

CallAgreed ==
  ~adrift =>
    /\ at \in {"idle", "estimating"} => settled = Call!Spent /\ ~held
    /\ at = "recording" => settled = Call!Spent + Call!Tokens /\ ~held
    /\ at \notin {"idle", "estimating", "recording"} => settled = Call!Spent

MeasuredInv == CallTypes /\ CallOrder /\ CallSent /\ CallAgreed

-----------------------------------------------------------------------------
(* The sum MeasuredCall takes is that of Totals.                           *)
LEMMA CallTotal ==
  ASSUME NEW S, NEW f
  PROVE  Call!Total(S, f) = Total(S, f)
BY DEF Call!Total, Call!Units, Call!Cardinality, Total, Units, Cardinality

(* A sum over the places of a sequence that gains one.                     *)
LEMMA CallOneMore ==
  ASSUME NEW len \in Nat, NEW f, NEW g, g[len + 1] \in Nat,
         \A i \in 1 .. len : g[i] \in Nat /\ g[i] = f[i]
  PROVE  Total(1 .. len + 1, g) = Total(1 .. len, f) + g[len + 1]
<1> DEFINE S == 1 .. len
           x == len + 1
<1>1. 1 .. len + 1 = S \cup {x}
  OBVIOUS
<1>7. x \notin S
  OBVIOUS
<1>2. IsFiniteSet(S)
  BY FS_Interval
<1>3. g[x] \in Nat
  OBVIOUS
<1>4. \A y \in S : g[y] \in Nat
  OBVIOUS
<1>5. \A y \in S : g[y] = f[y]
  OBVIOUS
<1>6. Total(S \cup {x}, g) = Total(S, f) + g[x]
  <2> HIDE DEF S, x
  <2> QED
    BY <1>2, <1>3, <1>4, <1>5, <1>7, TotalGains
<1> QED
  BY <1>1, <1>6

(* What a record adds to what the tree has spent.                          *)
LEMMA CallPuts ==
  ASSUME CallAllowed, tree \in Seq(CallNode), NEW kind \in Call!NodeKinds, NEW n \in Nat,
         Call!Put(kind, n)
  PROVE  /\ tree' \in Seq(CallNode) /\ tree' # <<>>
         /\ Call!Last(tree') = [is |-> kind, tokens |-> n]
         /\ Call!Spent' = Call!Spent + n
<1> DEFINE new == [is |-> kind, tokens |-> n]
           f == [i \in DOMAIN tree |-> tree[i].tokens]
           g == [i \in DOMAIN tree' |-> tree'[i].tokens]
           len == Len(tree)
<1>1. new \in CallNode /\ tree' = Append(tree, new)
  BY DEF CallNode, Call!Put
<1> HIDE DEF new
<1>2. /\ tree' \in Seq(CallNode) /\ len \in Nat /\ Len(tree') = len + 1
      /\ tree'[len + 1] = new /\ \A i \in 1 .. len : tree'[i] = tree[i]
  BY <1>1
<1>3. DOMAIN tree = 1 .. len /\ DOMAIN tree' = 1 .. len + 1
  BY <1>2
<1>4. 1 .. len + 1 = (1 .. len) \cup {len + 1} /\ len + 1 \notin 1 .. len
  BY <1>2
<1>5. \A i \in 1 .. len : tree[i] \in CallNode
  BY <1>3
<1>6. /\ \A i \in 1 .. len : g[i] = f[i] /\ g[i] \in Nat
      /\ g[len + 1] = new.tokens
  <2>1. \A i \in 1 .. len : g[i] = tree[i].tokens /\ f[i] = tree[i].tokens
    BY <1>2, <1>3, <1>4
  <2>2. g[len + 1] = new.tokens
    BY <1>2, <1>3, <1>4
  <2> QED
    BY <1>5, <2>1, <2>2 DEF CallNode
<1>7. new.tokens = n
  BY DEF new
<1>10. Call!Spent' = Total(1 .. len + 1, g) /\ Call!Spent = Total(1 .. len, f)
  <2>1. Call!Spent' = Total(DOMAIN tree', g) /\ Call!Spent = Total(DOMAIN tree, f)
    BY CallTotal DEF Call!Spent
  <2> HIDE DEF f, g
  <2> QED
    BY <1>3, <1>4, <2>1
<1> HIDE DEF f, g
<1>8. g[len + 1] \in Nat
  BY <1>6, <1>7
<1>9. Total(1 .. len + 1, g) = Total(1 .. len, f) + g[len + 1]
  <2> HIDE DEF len
  <2> QED
    BY <1>2, <1>6, <1>8, CallOneMore
<1>11. tree' # <<>> /\ Call!Last(tree') = new
  BY <1>2 DEF Call!Last
<1> QED
  BY <1>2, <1>6, <1>7, <1>9, <1>10, <1>11 DEF new

(* What has been spent is a number.                                        *)
LEMMA CallSpentType ==
  ASSUME tree \in Seq(CallNode)
  PROVE  Call!Spent \in Nat
<1> DEFINE f == [i \in DOMAIN tree |-> tree[i].tokens]
<1>1. DOMAIN tree = 1 .. Len(tree) /\ Len(tree) \in Nat
  OBVIOUS
<1>2. IsFiniteSet(DOMAIN tree)
  BY <1>1, FS_Interval
<1>3. \A i \in DOMAIN tree : f[i] \in Nat
  <2>1. \A i \in DOMAIN tree : tree[i] \in CallNode /\ f[i] = tree[i].tokens
    BY <1>1
  <2> HIDE DEF f
  <2> QED
    BY <2>1 DEF CallNode
<1>5. Call!Spent = Total(DOMAIN tree, f)
  BY CallTotal DEF Call!Spent
<1> HIDE DEF f
<1>4. Total(DOMAIN tree, f) \in Nat
  BY <1>2, <1>3, TotalType
<1> QED
  BY <1>4, <1>5

(* An error that is added comes last.                                      *)
LEMMA CallErrorAdded ==
  ASSUME errors \in Seq(CallErrors), NEW e \in CallErrors, Call!Error(e)
  PROVE  /\ errors' \in Seq(CallErrors) /\ errors' # <<>>
         /\ Call!Has("measure") => Call!Has("measure")'
         /\ e = "measure" => Call!Has("measure")'
         /\ errors = <<>> => Head(errors') = e
         /\ errors # <<>> => Head(errors') = Head(errors)
<1> DEFINE len == Len(errors)
<1>1. /\ errors' = Append(errors, e) /\ errors' \in Seq(CallErrors)
      /\ len \in Nat /\ Len(errors') = len + 1
      /\ errors'[len + 1] = e /\ \A i \in 1 .. len : errors'[i] = errors[i]
  BY DEF Call!Error
<1>2. DOMAIN errors = 1 .. len /\ DOMAIN errors' = 1 .. len + 1
  BY <1>1
<1>3. Call!Has("measure") => Call!Has("measure")'
  BY <1>1, <1>2 DEF Call!Has, Call!Range
<1>4. e = "measure" => Call!Has("measure")'
  BY <1>1, <1>2 DEF Call!Has, Call!Range
<1>5. errors = <<>> => Head(errors') = e
  BY <1>1
<1>6. errors # <<>> => Head(errors') = Head(errors)
  BY <1>1
<1> QED
  BY <1>1, <1>3, <1>4, <1>5, <1>6
-----------------------------------------------------------------------------
(* The types are kept: what changes is of the kind it was.                 *)
LEMMA CallTypesByPart ==
  CallTypes <=>
    CallLists /\ CallFlags /\ CallCounts /\ tree \in Seq(CallNode) /\ errors \in Seq(CallErrors)
BY DEF CallTypes, CallLists, CallFlags, CallCounts, CallNode, Call!TypeOK

LEMMA CallElement ==
  ASSUME NEW S, NEW s \in Seq(S), NEW n \in 1 .. Len(s)
  PROVE  s[n] \in S
OBVIOUS

LEMMA CallListsKept ==
  ASSUME CallAllowed, CallLists, Call!Next
  PROVE  CallLists'
<1> USE DEF CallLists
<1>1. CASE Call!Begin
  BY <1>1 DEF Call!Begin
<1>2. CASE Call!EnterMeasurement
  <2>1. Len(entered) + 1 \in 1 .. Measured
    BY <1>2 DEF Call!EnterMeasurement, Call!MoreToEnter, CallAllowed
  <2> QED
    BY <1>2, <2>1 DEF Call!EnterMeasurement
<1>3. CASE Call!EnterRaises \/ Call!AllStarted
  BY <1>3 DEF Call!EnterRaises, Call!Unwind, Call!AllStarted
<1>4. CASE Call!StopMeasurement
  <2> DEFINE n == Len(mine) - Len(exits)
  <2>1. n \in 1 .. Len(mine)
    BY <1>4 DEF Call!StopMeasurement
  <2>2. exits' = Append(exits, mine[n]) /\ UNCHANGED <<entered, mine>>
    BY <1>4 DEF Call!StopMeasurement, Call!NextToStop
  <2> HIDE DEF n
  <2>3. mine[n] \in 1 .. Measured
    BY <2>1, CallElement
  <2> QED
    BY <2>2, <2>3
<1>5. CASE UNCHANGED <<entered, mine, exits>>
  BY <1>5
<1>6. Call!Refuse \/ Call!EstimateRaises \/ Call!Reserve \/ Call!StartLease \/ Call!MeasureRaises
      \/ Call!StepRaises \/ Call!StepReturns \/ Call!AllStopped \/ Call!StopLease
      => UNCHANGED <<entered, mine, exits>>
  BY DEF Call!Refuse, Call!EstimateRaises, Call!Reserve, Call!StartLease, Call!MeasureRaises,
         Call!StepRaises, Call!StepReturns, Call!AllStopped, Call!StopLease, Call!work
<1>7. Call!FailCall \/ Call!AccountingRaises \/ Call!Account \/ Call!Settle \/ Call!Record
      => UNCHANGED <<entered, mine, exits>>
  BY DEF Call!FailCall, Call!AccountingRaises, Call!Account, Call!Settle, Call!Record, Call!work
<1> QED
  BY <1>1, <1>2, <1>3, <1>4, <1>5, <1>6, <1>7 DEF Call!Next

LEMMA CallErrorsKept ==
  ASSUME CallTypes, Call!Next
  PROVE  errors' \in Seq(CallErrors)
<1>1. errors \in Seq(CallErrors)
  BY DEF CallTypes
<1>2. ASSUME NEW e \in CallErrors, Call!Error(e) PROVE errors' \in Seq(CallErrors)
  BY <1>1, <1>2, CallErrorAdded
<1>3. Call!StartLease \/ Call!EnterRaises \/ Call!MeasureRaises \/ Call!StepRaises
      \/ Call!StopMeasurement \/ Call!StopLease
      => errors' = errors \/ \E e \in CallErrors : Call!Error(e)
  BY DEF Call!StartLease, Call!EnterRaises, Call!MeasureRaises, Call!StepRaises,
         Call!StopMeasurement, Call!StopLease, CallErrors
<1>4. Call!Settle \/ Call!Record => errors' = errors \/ \E e \in CallErrors : Call!Error(e)
  BY DEF Call!Settle, Call!Record, CallErrors
<1>5. Call!Begin \/ Call!AccountingRaises => errors' = <<>> \/ errors' = <<"accounting">>
  BY DEF Call!Begin, Call!AccountingRaises
<1>6. Call!Refuse \/ Call!EstimateRaises \/ Call!Reserve \/ Call!EnterMeasurement
      \/ Call!AllStarted \/ Call!StepReturns \/ Call!AllStopped \/ Call!FailCall \/ Call!Account
      => errors' = errors
  BY DEF Call!Refuse, Call!EstimateRaises, Call!Reserve, Call!EnterMeasurement, Call!AllStarted,
         Call!StepReturns, Call!AllStopped, Call!FailCall, Call!Account
<1>7. <<>> \in Seq(CallErrors) /\ <<"accounting">> \in Seq(CallErrors)
  BY DEF CallErrors
<1> QED
  BY <1>1, <1>2, <1>3, <1>4, <1>5, <1>6, <1>7 DEF Call!Next

LEMMA CallFlagsKept ==
  ASSUME CallFlags, Call!Next
  PROVE  CallFlags'
<1> USE DEF CallFlags, Call!Stages, Call!Goto, Call!Over
<1>1. CASE Call!Begin \/ Call!Refuse \/ Call!EstimateRaises \/ Call!Reserve \/ Call!StartLease
  BY <1>1 DEF Call!Begin, Call!Refuse, Call!EstimateRaises, Call!Reserve, Call!StartLease,
              Call!work
<1>2. CASE Call!EnterMeasurement \/ Call!EnterRaises \/ Call!MeasureRaises \/ Call!AllStarted
           \/ Call!StepRaises \/ Call!StepReturns
  BY <1>2 DEF Call!EnterMeasurement, Call!EnterRaises, Call!MeasureRaises, Call!AllStarted,
              Call!StepRaises, Call!StepReturns, Call!work
<1>3. CASE Call!StopMeasurement \/ Call!AllStopped \/ Call!StopLease
  BY <1>3 DEF Call!StopMeasurement, Call!AllStopped, Call!StopLease, Call!work
<1>4. CASE Call!FailCall
  BY <1>4 DEF Call!FailCall, Call!Note, Call!Release, Call!work
<1>5. CASE Call!AccountingRaises \/ Call!Account \/ Call!Settle \/ Call!Record
  BY <1>5 DEF Call!AccountingRaises, Call!Account, Call!Settle, Call!Record, Call!work
<1> QED
  BY <1>1, <1>2, <1>3, <1>4, <1>5 DEF Call!Next

LEMMA CallTreeKept ==
  ASSUME CallAllowed, CallTypes, Call!Next
  PROVE  tree' \in Seq(CallNode)
<1>1. tree \in Seq(CallNode)
  BY CallTypesByPart
<1>2. Call!Tokens \in Nat /\ Estimate \in Nat
  BY DEF Call!Tokens, CallAllowed, CallTypes, Call!TypeOK
<1>3. ASSUME NEW kind \in Call!NodeKinds, NEW n \in Nat, Call!Put(kind, n)
      PROVE  tree' \in Seq(CallNode)
  BY <1>1, <1>3, CallPuts
<1>4. CASE Call!Refuse
  <2>1. Call!Put("refusal", 0) /\ "refusal" \in Call!NodeKinds
    BY <1>4 DEF Call!Refuse, Call!NodeKinds
  <2> QED
    BY <1>3, <2>1
<1>5. CASE Call!FailCall
  <2>1. \/ UNCHANGED tree
        \/ Call!Put("call_outcome_unknown", Estimate) \/ Call!Put("call_recording_failed", Estimate)
    BY <1>5 DEF Call!FailCall, Call!Note, Call!Release
  <2>2. {"call_outcome_unknown", "call_recording_failed"} \subseteq Call!NodeKinds
    BY DEF Call!NodeKinds
  <2> QED
    BY <1>1, <1>2, <1>3, <2>1, <2>2
<1>6. CASE Call!Record
  <2>1. UNCHANGED tree \/ Call!Put("call", Call!Tokens)
    BY <1>6 DEF Call!Record
  <2>2. "call" \in Call!NodeKinds
    BY DEF Call!NodeKinds
  <2> QED
    BY <1>1, <1>2, <1>3, <2>1, <2>2
<1>7. Call!Refuse \/ Call!FailCall \/ Call!Record \/ tree' = tree
  BY DEF Call!Next, Call!Begin, Call!EstimateRaises, Call!Reserve, Call!StartLease,
         Call!EnterMeasurement, Call!EnterRaises, Call!MeasureRaises, Call!AllStarted,
         Call!StepRaises, Call!StepReturns, Call!StopMeasurement, Call!AllStopped,
         Call!StopLease, Call!AccountingRaises, Call!Account, Call!Settle
<1> QED
  BY <1>1, <1>4, <1>5, <1>6, <1>7

LEMMA CallCountsKept ==
  ASSUME CallAllowed, CallTypes, Call!Next
  PROVE  CallCounts'
<1>1. settled \in Nat /\ calls \in 0 .. MaxCalls /\ faults \in 0 .. MaxFaults
  BY CallTypesByPart DEF CallCounts
<1>2. Call!Tokens \in Nat /\ Estimate \in Nat /\ MaxCalls \in Nat /\ MaxFaults \in Nat
  BY DEF Call!Tokens, CallAllowed, CallTypes, Call!TypeOK
<1>3. calls' = calls \/ (calls < MaxCalls /\ calls' = calls + 1)
  BY DEF Call!Next, Call!Begin, Call!Refuse, Call!EstimateRaises, Call!Reserve, Call!StartLease,
         Call!EnterMeasurement, Call!EnterRaises, Call!MeasureRaises, Call!AllStarted,
         Call!StepRaises, Call!StepReturns, Call!StopMeasurement, Call!AllStopped,
         Call!StopLease, Call!FailCall, Call!AccountingRaises, Call!Account, Call!Settle,
         Call!Record
<1>4. ASSUME NEW a, NEW b
      PROVE  Call!Cardinality({x \in {1, 2} : <<a, b>>[x] = FALSE}) \in Nat
  <2>1. IsFiniteSet({1, 2})
    <3>1. IsFiniteSet({1})
      BY FS_Singleton
    <3>2. IsFiniteSet({1} \cup {2})
      BY <3>1, FS_AddElement
    <3>3. {1, 2} = {1} \cup {2}
      OBVIOUS
    <3> QED
      BY <3>2, <3>3
  <2>2. IsFiniteSet({x \in {1, 2} : <<a, b>>[x] = FALSE})
    BY <2>1, FS_Subset
  <2>3. Cardinality({x \in {1, 2} : <<a, b>>[x] = FALSE}) \in Nat
    BY <2>2, FS_CardinalityType
  <2> QED
    BY <2>3 DEF Cardinality, Call!Cardinality
<1>5. CASE Call!FailCall
  <2>1. \/ Call!Fault \/ Call!Fine
        \/ \E a, b \in BOOLEAN :
             /\ faults' = faults + Call!Cardinality({x \in {1, 2} : <<a, b>>[x] = FALSE})
             /\ faults' <= MaxFaults
    BY <1>5 DEF Call!FailCall, Call!Note, Call!Release
  <2>2. faults' \in 0 .. MaxFaults
    <3>1. CASE Call!Fault \/ Call!Fine
      BY <1>1, <1>2, <3>1 DEF Call!Fault, Call!Fine
    <3>2. ASSUME NEW a, NEW b, faults' <= MaxFaults,
                 faults' = faults + Call!Cardinality({x \in {1, 2} : <<a, b>>[x] = FALSE})
          PROVE  faults' \in 0 .. MaxFaults
      <4> DEFINE k == Call!Cardinality({x \in {1, 2} : <<a, b>>[x] = FALSE})
      <4>1. k \in Nat
        BY <1>4
      <4> HIDE DEF k
      <4>2. faults' = faults + k
        BY <3>2 DEF k
      <4> QED
        BY <1>1, <3>2, <4>1, <4>2
    <3>3. CASE \E a, b \in BOOLEAN :
                 /\ faults' = faults + Call!Cardinality({x \in {1, 2} : <<a, b>>[x] = FALSE})
                 /\ faults' <= MaxFaults
      <4>1. PICK a \in BOOLEAN, b \in BOOLEAN :
              /\ faults' = faults + Call!Cardinality({x \in {1, 2} : <<a, b>>[x] = FALSE})
              /\ faults' <= MaxFaults
        BY <3>3
      <4> QED
        BY <3>2, <4>1
    <3> QED
      BY <2>1, <3>1, <3>3
  <2>3. settled' = settled \/ settled' = settled + Estimate
    BY <1>5 DEF Call!FailCall, Call!Note, Call!Release
  <2> QED
    BY <1>1, <1>2, <1>3, <2>2, <2>3 DEF CallCounts
<1>6. CASE Call!Begin
  BY <1>1, <1>2, <1>6 DEF CallCounts, Call!Begin
<1>7. CASE ~ (Call!FailCall \/ Call!Begin)
  <2>1. Call!Fault \/ Call!Fine
    BY <1>7 DEF Call!Next, Call!Refuse, Call!EstimateRaises, Call!Reserve, Call!StartLease,
         Call!EnterMeasurement, Call!EnterRaises, Call!MeasureRaises, Call!AllStarted,
         Call!StepRaises, Call!StepReturns, Call!StopMeasurement, Call!AllStopped,
         Call!StopLease, Call!AccountingRaises, Call!Account, Call!Settle, Call!Record
  <2>2. faults' \in 0 .. MaxFaults
    BY <1>1, <1>2, <2>1 DEF Call!Fault, Call!Fine
  <2>3. settled' = settled \/ settled' = settled + Call!Tokens
    BY <1>7 DEF Call!Next, Call!Refuse, Call!EstimateRaises, Call!Reserve, Call!StartLease,
         Call!EnterMeasurement, Call!EnterRaises, Call!MeasureRaises, Call!AllStarted,
         Call!StepRaises, Call!StepReturns, Call!StopMeasurement, Call!AllStopped,
         Call!StopLease, Call!AccountingRaises, Call!Account, Call!Settle, Call!Record,
         Call!SettleCall
  <2> QED
    BY <1>1, <1>2, <1>3, <2>2, <2>3 DEF CallCounts
<1> QED
  BY <1>5, <1>6, <1>7

LEMMA CallTypesKept ==
  ASSUME CallAllowed, CallTypes, Call!Next
  PROVE  CallTypes'
<1>1. CallLists /\ CallFlags
  BY CallTypesByPart
<1>2. /\ CallLists' /\ CallFlags' /\ CallCounts'
      /\ tree' \in Seq(CallNode) /\ errors' \in Seq(CallErrors)
  BY <1>1, CallListsKept, CallErrorsKept, CallFlagsKept, CallTreeKept, CallCountsKept
<1> QED
  BY <1>2 DEF CallTypes, CallLists, CallFlags, CallCounts, CallNode, Call!TypeOK

-----------------------------------------------------------------------------
(* What was begun ends: the order in which measurements are left.          *)
LEMMA CallLeftBegins ==
  ASSUME mine' = entered', exits' = <<>>, CallLists'
  PROVE  CallLeft'
BY DEF CallLeft, CallMine, CallReversed, CallLists

LEMMA CallLeftStays ==
  ASSUME CallLeft, UNCHANGED <<entered, mine, exits>>,
         Call!Has("measure") => Call!Has("measure")'
  PROVE  CallLeft'
<1>1. CallMine'
  BY DEF CallLeft, CallMine
<1>2. CallReversed'
  BY DEF CallLeft, CallReversed
<1> QED
  BY <1>1, <1>2 DEF CallLeft

(* When as many were left as were to be, all were, in reverse.             *)
LEMMA CallEnds ==
  ASSUME CallTypes, CallLeft, Len(exits) = Len(mine), UNCHANGED <<entered, mine, exits>>,
         Call!Has("measure") => Call!Has("measure")'
  PROVE  CallProperlyEnded'
<1>1. CASE Call!Has("measure")
  BY <1>1 DEF CallProperlyEnded
<1>2. CASE mine = entered
  <2>1. entered \in Seq(1 .. Measured) /\ exits \in Seq(1 .. Measured)
    BY CallTypesByPart DEF CallLists
  <2> DEFINE turned == [i \in 1 .. Len(entered) |-> entered[(Len(entered) - i) + 1]]
  <2>2. \A i \in 1 .. Len(entered) : exits[i] = turned[i]
    BY <1>2 DEF CallLeft, CallReversed
  <2>3. DOMAIN exits = 1 .. Len(entered) /\ exits = [i \in DOMAIN exits |-> exits[i]]
    BY <1>2, <2>1
  <2>4. exits = turned
    BY <2>2, <2>3
  <2> QED
    BY <2>4 DEF CallProperlyEnded, Call!Reverse
<1> QED
  BY <1>1, <1>2 DEF CallLeft, CallMine

LEMMA CallOrderKept ==
  ASSUME CallTypes, CallTypes', CallOrder, Call!Next
  PROVE  CallOrder'
<1> USE DEF Call!Goto, CallBefore, CallAfter
<1>0. CallLists /\ CallLists' /\ errors \in Seq(CallErrors) /\ at' \in Call!Stages
  BY DEF CallTypes, CallLists, Call!TypeOK
<1>a. ASSUME NEW e \in CallErrors, Call!Error(e)
      PROVE  /\ errors' # <<>>
             /\ Call!Has("measure") => Call!Has("measure")'
             /\ e = "measure" => Call!Has("measure")'
             /\ errors = <<>> => Head(errors') = e
  BY <1>0, <1>a, CallErrorAdded
<1>b. UNCHANGED errors => (Call!Has("measure") => Call!Has("measure")')
  BY DEF Call!Has
<1>1. CASE Call!Begin \/ Call!Reserve
  BY <1>1 DEF CallOrder, Call!Begin, Call!Reserve, Call!work
<1>2. CASE Call!Refuse
  <2>1. at' = "idle" /\ raised' = "BudgetExceeded" /\ errors' = <<>>
    BY <1>2 DEF CallOrder, Call!Refuse, Call!Over, Call!Primary
  <2> QED
    BY <2>1 DEF CallOrder, CallProperlyEnded
<1>3. CASE Call!EstimateRaises
  <2>1. at' = "idle" /\ raised' = "estimate" /\ errors' = <<>>
    BY <1>3 DEF CallOrder, Call!EstimateRaises, Call!Over, Call!Primary
  <2> QED
    BY <2>1 DEF CallOrder, CallProperlyEnded
<1>4. CASE Call!StartLease
  <2>1. mine = entered /\ exits = <<>> /\ UNCHANGED <<entered, mine, exits>>
    BY <1>4 DEF CallOrder, Call!StartLease, Call!work
  <2>2. CallLeft'
    BY <1>0, <2>1, CallLeftBegins
  <2>3. at' = "stopping" \/ (at' = "measuring" /\ exits' = <<>> /\ errors' = <<>>)
    BY <1>4, <2>1 DEF CallOrder, Call!StartLease, Call!work
  <2> QED
    BY <2>2, <2>3 DEF CallOrder
<1>5. CASE Call!EnterMeasurement \/ Call!AllStarted
  BY <1>5 DEF CallOrder, Call!EnterMeasurement, Call!AllStarted
<1>6. CASE Call!EnterRaises
  <2>1. at' = "stopping" /\ mine' = entered' /\ exits' = <<>>
    BY <1>6 DEF CallOrder, Call!EnterRaises, Call!Unwind
  <2>2. CallLeft'
    BY <1>0, <2>1, CallLeftBegins
  <2> QED
    BY <2>1, <2>2 DEF CallOrder
<1>7. CASE Call!MeasureRaises
  <2>1. at' = "stopping" /\ exits' = <<>> /\ Call!Error("measure")
    BY <1>7 DEF CallOrder, Call!MeasureRaises, Call!work
  <2>2. "measure" \in CallErrors
    BY DEF CallErrors
  <2>3. Call!Has("measure")'
    BY <1>a, <2>1, <2>2
  <2>4. CallReversed'
    BY <1>0, <2>1 DEF CallReversed, CallLists
  <2> QED
    BY <2>1, <2>3, <2>4 DEF CallOrder, CallLeft, CallMine
<1>8. CASE Call!StepRaises \/ Call!StepReturns
  <2>1. at' = "stopping" /\ mine' = entered' /\ exits' = <<>>
    BY <1>8 DEF CallOrder, Call!StepRaises, Call!StepReturns
  <2>2. CallLeft'
    BY <1>0, <2>1, CallLeftBegins
  <2> QED
    BY <2>1, <2>2 DEF CallOrder
<1>9. CASE Call!StopMeasurement
  <2> DEFINE len == Len(exits)
             n == Len(mine)
             last == mine[n - len]
  <2>1. len \in Nat /\ n \in Nat
    BY <1>0 DEF CallLists
  <2>2. exits' = Append(exits, last) /\ at' = "stopping" /\ UNCHANGED <<entered, mine>> /\ len < n
    BY <1>9 DEF Call!StopMeasurement, Call!NextToStop
  <2>3. CallLeft
    BY <1>9 DEF CallOrder, Call!StopMeasurement
  <2>4. UNCHANGED errors \/ Call!Error("exit")
    BY <1>9 DEF Call!StopMeasurement
  <2>5. "exit" \in CallErrors
    BY DEF CallErrors
  <2>6. CallMine'
    <3>1. Call!Has("measure") => Call!Has("measure")'
      BY <1>a, <1>b, <2>4, <2>5
    <3> QED
      BY <2>2, <2>3, <3>1 DEF CallLeft, CallMine
  <2>7. Len(exits') = len + 1 /\ exits'[len + 1] = last /\ \A i \in 1 .. len : exits'[i] = exits[i]
    BY <1>0, <2>2 DEF CallLists
  <2>8. \A i \in 1 .. len : exits[i] = mine[n - i + 1]
    BY <2>3 DEF CallLeft, CallReversed
  <2>9. n - (len + 1) + 1 = n - len
    BY <2>1
  <2>10. \A i \in 1 .. len + 1 : exits'[i] = mine[n - i + 1]
    <3> HIDE DEF len, n
    <3>1. \A i \in 1 .. len + 1 : i \in 1 .. len \/ i = len + 1
      BY <2>1
    <3> QED
      BY <2>7, <2>8, <2>9, <3>1
  <2>11. CallReversed'
    BY <2>1, <2>2, <2>7, <2>10 DEF CallReversed
  <2> QED
    BY <2>2, <2>6, <2>11 DEF CallOrder, CallLeft
<1>10. CASE Call!AllStopped
  <2>1. /\ at = "stopping" /\ at' = "unleasing" /\ UNCHANGED <<entered, mine, exits, errors>>
        /\ Len(exits) = Len(mine)
    BY <1>10 DEF Call!AllStopped, Call!work
  <2>2. CallLeft'
    BY <1>b, <2>1, CallLeftStays DEF CallOrder
  <2> QED
    BY <2>1, <2>2 DEF CallOrder
<1>11. CASE Call!StopLease \/ Call!AccountingRaises \/ Call!Account
  <2>1. /\ at \in {"unleasing", "judging"} /\ at' \in {"judging", "settling"}
        /\ UNCHANGED <<entered, mine, exits>>
        /\ at' = "settling" => errors' = <<>>
    BY <1>11 DEF Call!StopLease, Call!AccountingRaises, Call!Account, Call!work
  <2>2. \/ UNCHANGED errors \/ Call!Error("stop")
        \/ errors = <<>> /\ errors' = <<"accounting">>
    BY <1>11 DEF Call!StopLease, Call!AccountingRaises, Call!Account
  <2>3. Call!Has("measure") => Call!Has("measure")'
    <3>1. "stop" \in CallErrors
      BY DEF CallErrors
    <3>2. errors = <<>> => ~ Call!Has("measure")
      BY DEF Call!Has, Call!Range
    <3> QED
      BY <1>a, <1>b, <2>2, <3>1, <3>2
  <2>4. CallLeft /\ Len(exits) = Len(mine)
    BY <2>1 DEF CallOrder
  <2>5. CallLeft'
    BY <2>1, <2>3, <2>4, CallLeftStays
  <2> QED
    BY <2>1, <2>4, <2>5 DEF CallOrder
<1>12. CASE Call!FailCall
  <2>1. /\ at = "judging" /\ at' = "idle" /\ UNCHANGED <<entered, mine, exits, errors>>
        /\ errors # <<>> /\ raised' = Head(errors)
    BY <1>12 DEF Call!FailCall, Call!Over, Call!Primary, Call!work
  <2>2. CallProperlyEnded'
    BY <1>b, <2>1, CallEnds DEF CallOrder
  <2> QED
    BY <2>1, <2>2 DEF CallOrder
<1>13. CASE Call!Settle \/ Call!Record
  <2>1. /\ at \in {"settling", "recording"} /\ at' \in {"recording", "idle"}
        /\ UNCHANGED <<entered, mine, exits>>
    BY <1>13 DEF Call!Settle, Call!Record, Call!Over, Call!work
  <2>2. errors = <<>> /\ CallLeft /\ Len(exits) = Len(mine)
    BY <2>1 DEF CallOrder
  <2>3. /\ at' = "recording" => UNCHANGED errors
        /\ at' = "idle" /\ errors' # <<>> => raised' = Head(errors')
    BY <1>13, <2>2 DEF Call!Settle, Call!Record, Call!Over, Call!Primary, Call!work
  <2>4. UNCHANGED errors \/ Call!Error("settle") \/ Call!Error("put")
    BY <1>13 DEF Call!Settle, Call!Record
  <2>5. Call!Has("measure") => Call!Has("measure")'
    BY <1>a, <1>b, <2>4 DEF CallErrors
  <2>6. CallProperlyEnded' /\ CallLeft'
    BY <2>1, <2>2, <2>5, CallEnds, CallLeftStays
  <2> QED
    BY <2>1, <2>2, <2>3, <2>6 DEF CallOrder
<1> QED
  BY <1>1, <1>2, <1>3, <1>4, <1>5, <1>6, <1>7, <1>8, <1>9, <1>10, <1>11, <1>12, <1>13
  DEF Call!Next

-----------------------------------------------------------------------------
(* What was sent is charged.                                               *)
LEMMA CallRaisedFirst ==
  ASSUME errors \in Seq(CallErrors), errors # <<>>
  PROVE  Call!Primary(errors) # "none"
<1>1. Head(errors) \in CallErrors
  OBVIOUS
<1>2. "none" \notin CallErrors
  BY DEF CallErrors
<1> QED
  BY <1>1, <1>2 DEF Call!Primary

LEMMA CallSentKept ==
  ASSUME CallAllowed, CallTypes, CallTypes', CallOrder, CallSent, Call!Next
  PROVE  CallSent'
<1> USE DEF Call!Goto, CallBefore, CallAfter
<1>0. tree \in Seq(CallNode) /\ errors \in Seq(CallErrors) /\ errors' \in Seq(CallErrors)
  BY DEF CallTypes, CallNode, Call!TypeOK
<1>1. CASE Call!Begin \/ Call!Reserve \/ Call!EnterMeasurement \/ Call!AllStarted
  BY <1>1 DEF CallSent, Call!Begin, Call!Reserve, Call!EnterMeasurement, Call!AllStarted,
              Call!work
<1>2. CASE Call!Refuse \/ Call!EstimateRaises
  BY <1>2 DEF CallSent, Call!Refuse, Call!EstimateRaises, Call!Over, Call!work
<1>3. CASE Call!StartLease \/ Call!EnterRaises \/ Call!MeasureRaises
  BY <1>3 DEF CallSent, Call!StartLease, Call!EnterRaises, Call!MeasureRaises, Call!work
<1>4. CASE Call!StepRaises \/ Call!StepReturns
  <2>1. at' = "stopping" /\ (sent' => Call!NotReleased')
    BY <1>4 DEF CallSent, Call!StepRaises, Call!StepReturns, Call!NotReleased
  <2> QED
    BY <2>1 DEF CallSent
<1>5. CASE Call!StopMeasurement \/ Call!AllStopped \/ Call!StopLease \/ Call!AccountingRaises
           \/ Call!Account
  <2>1. /\ at \in {"stopping"} \cup CallAfter /\ at' \in {"stopping"} \cup CallAfter
        /\ UNCHANGED <<sent, unknown, answered>>
    BY <1>5 DEF Call!StopMeasurement, Call!AllStopped, Call!StopLease, Call!AccountingRaises,
                Call!Account, Call!work
  <2> QED
    BY <2>1 DEF CallSent, Call!NotReleased
<1>6. CASE Call!FailCall
  <2>1. /\ at = "judging" /\ at' = "idle" /\ UNCHANGED <<sent, usage, unknown, answered>>
        /\ errors # <<>> /\ raised' = Call!Primary(errors)
        /\ Call!NotReleased => Call!Note(errors)
    BY <1>6 DEF Call!FailCall, Call!Over, Call!work
  <2>2. raised' # "none"
    BY <1>0, <2>1, CallRaisedFirst
  <2>3. ASSUME sent PROVE CallCharged'
    <3>1. Call!Note(errors)
      BY <2>1, <2>3 DEF CallSent
    <3>2. CASE adrift'
      BY <2>2, <3>2 DEF CallCharged
    <3>3. CASE ~ adrift'
      <4> DEFINE kind == IF unknown THEN "call_outcome_unknown" ELSE "call_recording_failed"
      <4>1. Call!Put(kind, Estimate) /\ kind # "refusal" /\ kind \in Call!NodeKinds
        BY <3>1, <3>3 DEF Call!Note, Call!NodeKinds
      <4> HIDE DEF kind
      <4>2. tree' # <<>> /\ Call!Last(tree') = [is |-> kind, tokens |-> Estimate]
        BY <1>0, <4>1, CallPuts DEF CallAllowed
      <4>3. Call!Last(tree').is # "refusal" /\ Call!Last(tree').tokens = Estimate
        BY <4>1, <4>2
      <4> QED
        BY <2>2, <4>2, <4>3 DEF CallCharged
    <3> QED
      BY <3>2, <3>3
  <2> QED
    BY <2>1, <2>3 DEF CallSent
<1>7. CASE Call!Settle
  <2>1. \/ at' = "recording" /\ at = "settling" /\ UNCHANGED <<sent, unknown, answered>>
        \/ at' = "idle" /\ adrift' /\ raised' = Call!Primary(errors') /\ errors' # <<>>
    BY <1>0, <1>7 DEF Call!Settle, Call!Over, Call!Error, Call!work
  <2>2. CASE at' = "recording"
    BY <2>1, <2>2 DEF CallSent, Call!NotReleased
  <2>3. CASE at' = "idle"
    <3>1. raised' # "none"
      <4>1. errors' # <<>> => Call!Primary(errors') # "none"
        <5>1. errors' # <<>> => Head(errors') \in CallErrors
          BY <1>0
        <5> QED
          BY <5>1 DEF CallErrors, Call!Primary
      <4> QED
        BY <2>1, <2>3, <4>1
    <3> QED
      BY <2>1, <2>3, <3>1 DEF CallSent, CallCharged
  <2> QED
    BY <2>1, <2>2, <2>3
<1>8. CASE Call!Record
  <2>1. at' = "idle" /\ UNCHANGED usage
    BY <1>8 DEF Call!Record, Call!Over, Call!work
  <2>2. CASE Call!Put("call", Call!Tokens) /\ raised' = Call!Primary(<<>>)
    <3>1. Call!Tokens \in Nat /\ "call" \in Call!NodeKinds
      BY DEF Call!Tokens, Call!NodeKinds, CallAllowed, CallTypes, Call!TypeOK
    <3>2. tree' # <<>> /\ Call!Last(tree') = [is |-> "call", tokens |-> Call!Tokens]
      BY <1>0, <2>2, <3>1, CallPuts
    <3>3. raised' = "none"
      BY <2>2 DEF Call!Primary
    <3>4. Call!Last(tree').is # "refusal" /\ Call!Last(tree').tokens = Call!Tokens
      BY <3>2
    <3>5. CallCharged'
      BY <2>1, <3>2, <3>3, <3>4 DEF CallCharged, Call!Tokens
    <3> QED
      BY <2>1, <3>5 DEF CallSent
  <2>3. CASE adrift' /\ errors' # <<>> /\ raised' = Call!Primary(errors')
    <3>1. Head(errors') \in CallErrors
      BY <1>0, <2>3
    <3>2. raised' # "none"
      BY <2>3, <3>1 DEF CallErrors, Call!Primary
    <3> QED
      BY <2>1, <2>3, <3>2 DEF CallSent, CallCharged
  <2> QED
    BY <1>0, <1>8, <2>2, <2>3 DEF Call!Record, Call!Over, Call!Error
<1> QED
  BY <1>1, <1>2, <1>3, <1>4, <1>5, <1>6, <1>7, <1>8 DEF Call!Next

-----------------------------------------------------------------------------
(* The shared counters agree with the tree.                                *)
LEMMA CallAgreedStays ==
  ASSUME CallAgreed, UNCHANGED <<settled, held, tree, adrift>>,
         at' \in {"idle", "estimating"} => at \in {"idle", "estimating"},
         at' # "recording", at # "recording"
  PROVE  CallAgreed'
<1>1. Call!Spent' = Call!Spent
  BY DEF Call!Spent
<1> QED
  BY <1>1 DEF CallAgreed

LEMMA CallAgreedKept ==
  ASSUME CallAllowed, CallTypes, CallOrder, CallAgreed, Call!Next
  PROVE  CallAgreed'
<1> USE DEF Call!Goto
<1>0. tree \in Seq(CallNode) /\ Call!Spent \in Nat /\ Estimate \in Nat /\ Call!Tokens \in Nat
  <2>1. tree \in Seq(CallNode)
    BY DEF CallTypes, CallNode, Call!TypeOK
  <2>2. Estimate \in Nat /\ Call!Tokens \in Nat
    BY DEF Call!Tokens, CallAllowed, CallTypes, Call!TypeOK
  <2> QED
    BY <2>1, <2>2, CallSpentType
<1>1. tree' = tree => Call!Spent' = Call!Spent
  BY DEF Call!Spent
<1>2. CASE Call!Begin \/ Call!EstimateRaises \/ Call!StartLease \/ Call!EnterMeasurement
           \/ Call!EnterRaises \/ Call!MeasureRaises \/ Call!AllStarted
  <2>1. /\ UNCHANGED <<settled, held, tree, adrift>>
        /\ at' \in {"idle", "estimating"} => at \in {"idle", "estimating"}
        /\ at' # "recording" /\ at # "recording"
    BY <1>2 DEF Call!Begin, Call!EstimateRaises, Call!StartLease, Call!EnterMeasurement,
                Call!EnterRaises, Call!MeasureRaises, Call!AllStarted, Call!Over
  <2> QED
    BY <2>1, CallAgreedStays
<1>3. CASE Call!StepRaises \/ Call!StepReturns \/ Call!StopMeasurement \/ Call!AllStopped
           \/ Call!StopLease \/ Call!AccountingRaises \/ Call!Account
  <2>1. /\ UNCHANGED <<settled, held, tree, adrift>>
        /\ at' \in {"idle", "estimating"} => at \in {"idle", "estimating"}
        /\ at' # "recording" /\ at # "recording"
    BY <1>3 DEF Call!StepRaises, Call!StepReturns, Call!StopMeasurement, Call!AllStopped,
                Call!StopLease, Call!AccountingRaises, Call!Account
  <2> QED
    BY <2>1, CallAgreedStays
<1>4. CASE Call!Refuse
  <2>1. /\ at = "estimating" /\ at' = "idle" /\ Call!Put("refusal", 0)
        /\ UNCHANGED <<settled, held, adrift>>
    BY <1>4 DEF Call!Refuse, Call!Over
  <2>2. Call!Spent' = Call!Spent + 0
    <3>1. "refusal" \in Call!NodeKinds /\ 0 \in Nat
      BY DEF Call!NodeKinds
    <3> QED
      BY <1>0, <2>1, <3>1, CallPuts
  <2> QED
    BY <1>0, <2>1, <2>2 DEF CallAgreed
<1>5. CASE Call!Reserve
  <2>1. at = "estimating" /\ at' = "leasing" /\ UNCHANGED <<settled, tree, adrift>>
    BY <1>5 DEF Call!Reserve
  <2> QED
    BY <1>1, <2>1 DEF CallAgreed
<1>6. CASE Call!FailCall
  <2>1. at = "judging" /\ at' = "idle" /\ (Call!Note(errors) \/ Call!Release)
    BY <1>6 DEF Call!FailCall, Call!Over
  <2>2. CASE Call!Release
    BY <1>1, <2>1, <2>2 DEF Call!Release, CallAgreed
  <2>3. CASE Call!Note(errors)
    <3> DEFINE kind == IF unknown THEN "call_outcome_unknown" ELSE "call_recording_failed"
    <3>1. CASE adrift'
      BY <3>1 DEF CallAgreed
    <3>2. CASE ~ adrift'
      <4>1. /\ ~ adrift /\ settled' = settled + Estimate /\ held' = FALSE
            /\ Call!Put(kind, Estimate)
        BY <2>3, <3>2 DEF Call!Note
      <4>2. kind \in Call!NodeKinds
        BY DEF Call!NodeKinds
      <4> HIDE DEF kind
      <4>3. Call!Spent' = Call!Spent + Estimate
        BY <1>0, <4>1, <4>2, CallPuts
      <4> QED
        BY <2>1, <4>1, <4>3 DEF CallAgreed
    <3> QED
      BY <3>1, <3>2
  <2> QED
    BY <2>1, <2>2, <2>3
<1>7. CASE Call!Settle
  <2>1. CASE adrift'
    BY <2>1 DEF CallAgreed
  <2>2. CASE ~ adrift'
    <3>1. /\ at = "settling" /\ at' = "recording" /\ held' = FALSE
          /\ settled' = settled + Call!Tokens /\ UNCHANGED <<tree, usage, adrift>>
      BY <1>7, <2>2 DEF Call!Settle, Call!SettleCall, Call!work
    <3>2. Call!Tokens' = Call!Tokens
      BY <3>1 DEF Call!Tokens
    <3> QED
      BY <1>1, <3>1, <3>2 DEF CallAgreed
  <2> QED
    BY <2>1, <2>2
<1>8. CASE Call!Record
  <2>1. CASE adrift'
    BY <2>1 DEF CallAgreed
  <2>2. CASE ~ adrift'
    <3>1. /\ at = "recording" /\ at' = "idle" /\ Call!Put("call", Call!Tokens)
          /\ UNCHANGED <<settled, held, adrift>>
      BY <1>8, <2>2 DEF Call!Record, Call!Over
    <3>2. "call" \in Call!NodeKinds
      BY DEF Call!NodeKinds
    <3>3. Call!Spent' = Call!Spent + Call!Tokens
      BY <1>0, <3>1, <3>2, CallPuts
    <3> QED
      BY <3>1, <3>3 DEF CallAgreed
  <2> QED
    BY <2>1, <2>2
<1> QED
  BY <1>2, <1>3, <1>4, <1>5, <1>6, <1>7, <1>8 DEF Call!Next

-----------------------------------------------------------------------------
(* At first there is no call, no error and nothing spent.                  *)
LEMMA CallStarts == ASSUME CallAllowed, Call!Init PROVE MeasuredInv
<1>1. CallTypes
  <2>1. CallLists /\ tree \in Seq(CallNode) /\ errors \in Seq(CallErrors)
    BY DEF CallLists, Call!Init
  <2>2. CallFlags
    BY DEF CallFlags, Call!Init, Call!Stages
  <2>3. CallCounts
    BY DEF CallCounts, CallAllowed, Call!Init
  <2> QED
    BY <2>1, <2>2, <2>3, CallTypesByPart
<1>2. CallOrder
  BY DEF CallOrder, CallBefore, CallAfter, CallProperlyEnded, Call!Init
<1>3. CallSent
  BY DEF CallSent, CallBefore, CallAfter, Call!Init
<1>4. CallAgreed
  <2>1. DOMAIN tree = {}
    BY DEF Call!Init
  <2>2. Call!Spent = 0
    BY <2>1, CallTotal, TotalEmpty DEF Call!Spent
  <2> QED
    BY <2>2 DEF CallAgreed, Call!Init
<1> QED
  BY <1>1, <1>2, <1>3, <1>4 DEF MeasuredInv

LEMMA CallStep == ASSUME CallAllowed, MeasuredInv, [Call!Next]_Call!vars PROVE MeasuredInv'
<1>1. CASE Call!Next
  BY <1>1, CallTypesKept, CallOrderKept, CallSentKept, CallAgreedKept DEF MeasuredInv
<1>2. CASE UNCHANGED Call!vars
  <2> USE <1>2 DEF Call!vars, MeasuredInv
  <2>1. CallTypes'
    BY DEF CallTypes, Call!TypeOK
  <2>2. CallOrder'
    BY DEF CallOrder, CallLeft, CallMine, CallReversed, CallProperlyEnded, Call!Has
  <2>3. CallSent'
    BY DEF CallSent, CallCharged, Call!NotReleased
  <2>4. CallAgreed'
    BY DEF CallAgreed, Call!Spent, Call!Tokens
  <2> QED
    BY <2>1, <2>2, <2>3, <2>4
<1> QED
  BY <1>1, <1>2

LEMMA CallInductive == ASSUME CallAllowed PROVE Call!Spec => []MeasuredInv
BY CallStarts, CallStep, PTL DEF Call!Spec

(* Whatever fails around a call, a measurement that was entered is left    *)
(* exactly once and in reverse order before the call is over, unless a     *)
(* later meter's measure() itself raised (_start_measurements,             *)
(* _stop_measurements).                                                    *)
THEOREM CallMeasurementsEnd == ASSUME CallAllowed PROVE Call!Spec => []Call!MeasurementsEnd
<1>1. MeasuredInv => Call!MeasurementsEnd
  BY DEF MeasuredInv, CallTypes, Call!TypeOK, CallOrder, CallProperlyEnded, Call!MeasurementsEnd,
         Call!Ended
<1> QED
  BY <1>1, CallInductive, PTL

(* A call that reached the provider is charged in the tree at what it      *)
(* reported or at the estimate, unless the store failed just then, and     *)
(* then it is not reported as done (Run._call).                            *)
THEOREM CallSentIsCharged == ASSUME CallAllowed PROVE Call!Spec => []Call!SentIsCharged
<1>1. MeasuredInv => Call!SentIsCharged
  BY DEF MeasuredInv, CallSent, CallCharged, Call!SentIsCharged, Call!Ended
<1> QED
  BY <1>1, CallInductive, PTL

(* Between calls the shared counters and the tree agree and nothing is     *)
(* held, whatever errors the calls went through, until the store itself    *)
(* fails to settle, release or record.                                     *)
THEOREM CallAccountsAgree == ASSUME CallAllowed PROVE Call!Spec => []Call!AccountsAgree
<1>1. MeasuredInv => Call!AccountsAgree
  BY DEF MeasuredInv, CallAgreed, Call!AccountsAgree, Call!Ended
<1> QED
  BY <1>1, CallInductive, PTL

(* What the caller sees is the error that came first, not what cleaning up *)
(* raised after it (_raise_primary).                                       *)
THEOREM CallFirstErrorRaised == ASSUME CallAllowed PROVE Call!Spec => []Call!FirstErrorRaised
<1>1. MeasuredInv => Call!FirstErrorRaised
  BY DEF MeasuredInv, CallOrder, Call!FirstErrorRaised, Call!Ended
<1> QED
  BY <1>1, CallInductive, PTL

-----------------------------------------------------------------------------
(* A call whose step returns a stream (StreamedCall): the caller is given  *)
(* what the provider sent, in order, and a call that was begun to be       *)
(* answered is in the tree however it ended.                               *)
CONSTANTS Letters, MaxChunks, Keep
VARIABLES heap, result, chunks, emitted, holds, node, replayed

Stream == INSTANCE StreamedCall

StreamAllowed == MaxChunks \in Nat

(* A chunk as it is kept: its text, and where its object is.               *)
StreamRef == [kind : Stream!Kinds, text : {Stream!Nothing} \cup {<<l>> : l \in Letters},
              object : 0 .. MaxChunks]
StreamTypes ==
  /\ heap = [a \in 1 .. MaxChunks |-> heap[a]]
  /\ chunks \in Seq(StreamRef) /\ sent \in Seq(Stream!Chunk) /\ emitted \in Seq(Stream!Chunk)

StreamSame(c) ==
  Len(c) = Len(sent) /\ \A i \in 1 .. Len(sent) : c[i].kind = sent[i].kind /\ c[i].text = sent[i].text

(* A chunk that was received and not yet passed on is the last one sent.   *)
StreamAtChunk ==
  /\ sent # <<>> /\ emitted = Stream!Front(sent)
  /\ Stream!ByValue(Stream!Last(chunks)) = Stream!Last(sent)
StreamOver ==
  /\ Stream!IsPrefix(emitted, sent) /\ (node.is = "call" => emitted = sent)
  /\ at = "over" /\ sent # <<>> => node.is # "none"
StreamKept == node.is = "call" /\ Keep => StreamSame(node.chunks)

StreamInv ==
  /\ StreamTypes /\ StreamSame(chunks)
  /\ at \in {"called", "chunk", "over", "replaying"}
  /\ at = "called" => emitted = sent
  /\ at = "chunk" => StreamAtChunk
  /\ at \in {"called", "chunk"} => node = Stream!NoNode
  /\ at \in {"over", "replaying"} => StreamOver
  /\ StreamKept
  /\ at = "replaying" /\ Keep => StreamSame(replayed)

LEMMA StreamPrefixes ==
  ASSUME NEW S, NEW s \in Seq(S)
  PROVE  /\ Stream!IsPrefix(s, s)
         /\ s # <<>> => /\ Stream!IsPrefix(Stream!Front(s), s)
                        /\ Append(Stream!Front(s), Stream!Last(s)) = s
<1>1. Stream!IsPrefix(s, s)
  BY DEF Stream!IsPrefix
<1>2. ASSUME s # <<>>
      PROVE  /\ Stream!IsPrefix(Stream!Front(s), s)
             /\ Append(Stream!Front(s), Stream!Last(s)) = s
  <2> DEFINE len == Len(s)
             f == SubSeq(s, 1, len - 1)
  <2>1. len \in Nat /\ len >= 1
    BY <1>2
  <2>2. f \in Seq(S) /\ Len(f) = len - 1 /\ \A i \in 1 .. len - 1 : f[i] = s[i]
    <3> DEFINE k == len - 1
    <3>1. (\A i \in 1 .. k : s[i] \in S) /\ k \in Nat
      BY <2>1
    <3> HIDE DEF k, len
    <3>2. /\ SubSeq(s, 1, k) \in Seq(S) /\ Len(SubSeq(s, 1, k)) = k
          /\ \A i \in 1 .. k : SubSeq(s, 1, k)[i] = s[i]
      BY <3>1
    <3> QED
      BY <3>2 DEF k
  <2>3. SubSeq(f, 1, len - 1) = f
    BY <2>1, <2>2
  <2>4. Append(f, s[len]) = s
    <3>1. s[len] \in S
      BY <2>1
    <3>2. /\ Append(f, s[len]) \in Seq(S) /\ Len(Append(f, s[len])) = len
          /\ \A i \in 1 .. len : Append(f, s[len])[i] = s[i]
      BY <2>1, <2>2, <3>1
    <3> QED
      BY <3>2
  <2> QED
    BY <2>1, <2>2, <2>3, <2>4 DEF Stream!IsPrefix, Stream!Front, Stream!Last
<1> QED
  BY <1>1, <1>2

(* Another chunk: it is kept as what it is.                                *)
LEMMA StreamReceives ==
  ASSUME StreamAllowed, StreamInv, NEW c \in Stream!Chunk, Stream!NextChunk(c)
  PROVE  StreamInv'
<1> DEFINE len == Len(sent)
           address == IF c.object = Stream!Nothing THEN 0 ELSE len + 1
           new == [kind |-> c.kind, text |-> c.text, object |-> address]
<1>1. /\ at = "called" /\ at' = "chunk" /\ len < MaxChunks
      /\ heap' = IF address = 0 THEN heap ELSE [heap EXCEPT ![address] = c.object]
      /\ chunks' = Append(chunks, new) /\ sent' = Append(sent, c)
      /\ UNCHANGED <<result, emitted, holds, node, replayed>>
  BY DEF Stream!NextChunk
<1>2. StreamTypes /\ StreamSame(chunks) /\ emitted = sent /\ node = Stream!NoNode
  BY <1>1 DEF StreamInv
<1>3. len \in Nat /\ sent \in Seq(Stream!Chunk) /\ chunks \in Seq(StreamRef) /\ Len(chunks) = len
  BY <1>2 DEF StreamTypes, StreamSame
<1>4. address \in 0 .. MaxChunks /\ (address # 0 => address = len + 1 /\ c.object # Stream!Nothing)
  BY <1>1, <1>3 DEF StreamAllowed
<1>5. new \in StreamRef
  BY <1>4 DEF StreamRef, Stream!Chunk
<1>6. /\ heap' = [a \in 1 .. MaxChunks |-> heap'[a]]
      /\ address # 0 => heap'[address] = c.object
  <2>1. heap = [a \in 1 .. MaxChunks |-> heap[a]]
    BY <1>2 DEF StreamTypes
  <2>2. CASE address = 0
    BY <1>1, <2>1, <2>2
  <2>3. CASE address # 0
    <3>1. heap' = [heap EXCEPT ![address] = c.object] /\ address \in 1 .. MaxChunks
      BY <1>1, <1>4, <2>3
    <3> HIDE DEF address
    <3> QED
      BY <2>1, <3>1
  <2> QED
    BY <2>2, <2>3
<1>7. (IF address = 0 THEN Stream!Nothing ELSE heap'[address]) = c.object
  BY <1>6
<1>8. new.kind = c.kind /\ new.text = c.text /\ new.object = address
  OBVIOUS
<1> HIDE DEF address, new, len
<1>9. /\ chunks' \in Seq(StreamRef) /\ Len(chunks') = len + 1 /\ chunks'[len + 1] = new
      /\ \A i \in 1 .. len : chunks'[i] = chunks[i]
  BY <1>1, <1>3, <1>5
<1>10. /\ sent' \in Seq(Stream!Chunk) /\ Len(sent') = len + 1 /\ sent'[len + 1] = c
       /\ \A i \in 1 .. len : sent'[i] = sent[i]
  BY <1>1, <1>3 DEF len
<1>11. StreamTypes'
  BY <1>1, <1>2, <1>6, <1>9, <1>10 DEF StreamTypes
<1>12. StreamSame(chunks)'
  <2>1. \A i \in 1 .. len : chunks[i].kind = sent[i].kind /\ chunks[i].text = sent[i].text
    BY <1>2 DEF StreamSame, len
  <2>2. \A i \in 1 .. len + 1 : i \in 1 .. len \/ i = len + 1
    BY <1>3
  <2>3. \A i \in 1 .. len + 1 : chunks'[i].kind = sent'[i].kind /\ chunks'[i].text = sent'[i].text
    BY <1>8, <1>9, <1>10, <2>1, <2>2
  <2> QED
    BY <1>9, <1>10, <2>3 DEF StreamSame
<1>13. StreamAtChunk'
  <2>1. Stream!Last(chunks') = new /\ Stream!Last(sent') = c /\ sent' # <<>>
    BY <1>3, <1>9, <1>10 DEF Stream!Last
  <2>2. Stream!Front(sent') = sent
    <3>1. SubSeq(sent', 1, len) = sent
      BY <1>3, <1>10 DEF len
    <3> QED
      BY <1>3, <1>10, <3>1 DEF Stream!Front
  <2>3. Stream!ByValue(Stream!Last(chunks))' =
          [kind |-> Stream!Last(chunks').kind, text |-> Stream!Last(chunks').text,
           object |-> IF Stream!Last(chunks').object = 0 THEN Stream!Nothing
                      ELSE heap'[Stream!Last(chunks').object]]
    BY DEF Stream!ByValue, Stream!Deref
  <2>4. Stream!ByValue(Stream!Last(chunks))' = Stream!Last(sent)'
    <3>1. c = [kind |-> c.kind, text |-> c.text, object |-> c.object]
      BY DEF Stream!Chunk
    <3> QED
      BY <1>7, <1>8, <2>1, <2>3, <3>1
  <2> QED
    BY <1>1, <1>2, <2>1, <2>2, <2>4 DEF StreamAtChunk
<1> QED
  BY <1>1, <1>2, <1>11, <1>12, <1>13 DEF StreamInv, StreamKept, Stream!NoNode

(* It is passed on.                                                        *)
LEMMA StreamPasses ==
  ASSUME StreamAllowed, StreamInv, Stream!Consume
  PROVE  StreamInv'
<1>1. /\ at = "chunk" /\ at' = "called" /\ UNCHANGED <<chunks, sent, holds, node, replayed>>
      /\ emitted' = Append(emitted, Stream!ByValue(Stream!Last(chunks)))
  BY DEF Stream!Consume, Stream!OnDelta
<1>2. StreamTypes /\ StreamSame(chunks) /\ StreamAtChunk /\ node = Stream!NoNode
  BY <1>1 DEF StreamInv
<1>3. emitted' = sent
  <2>1. sent \in Seq(Stream!Chunk)
    BY <1>2 DEF StreamTypes
  <2> QED
    BY <1>1, <1>2, <2>1, StreamPrefixes DEF StreamAtChunk
<1>4. heap' = heap \/ \E a, t : heap' = [heap EXCEPT ![a] = t]
  BY DEF Stream!Consume, Stream!Replace, Stream!MergeDelta, Stream!PutThere, Stream!MergeInto
<1>5. heap' = [a \in 1 .. MaxChunks |-> heap'[a]]
  BY <1>2, <1>4 DEF StreamTypes
<1>6. StreamTypes'
  BY <1>1, <1>2, <1>3, <1>5 DEF StreamTypes
<1>7. StreamSame(chunks)'
  BY <1>1, <1>2 DEF StreamSame
<1> QED
  BY <1>1, <1>2, <1>3, <1>6, <1>7 DEF StreamInv, StreamKept, Stream!NoNode

(* It ends, in one way or another, and is replayed.                        *)
LEMMA StreamEnds ==
  ASSUME StreamAllowed, StreamInv, Stream!Complete \/ Stream!Fail
  PROVE  StreamInv'
<1>1. /\ at \in {"called", "chunk"} /\ at' = "over"
      /\ UNCHANGED <<heap, chunks, sent, emitted, replayed>>
  BY DEF Stream!Complete, Stream!Fail
<1>2. StreamTypes /\ StreamSame(chunks)
  BY DEF StreamInv
<1>3. StreamTypes' /\ StreamSame(chunks)'
  BY <1>1, <1>2 DEF StreamTypes, StreamSame
<1>4. Stream!IsPrefix(emitted', sent')
  <2>1. emitted = sent \/ (sent # <<>> /\ emitted = Stream!Front(sent))
    BY <1>1 DEF StreamInv, StreamAtChunk
  <2>2. sent \in Seq(Stream!Chunk)
    BY <1>2 DEF StreamTypes
  <2>3. Stream!IsPrefix(emitted, sent)
    BY <2>1, <2>2, StreamPrefixes
  <2> QED
    BY <1>1, <2>3
<1>5. sent # <<>> => chunks # <<>>
  BY <1>2 DEF StreamTypes, StreamSame
<1>6. CASE Stream!Complete
  <2>1. /\ at = "called" /\ node'.is = "call"
        /\ Keep => node'.chunks = [i \in 1 .. Len(chunks) |-> Stream!ByValue(chunks[i])]
    BY <1>6 DEF Stream!Complete
  <2>2. emitted = sent
    BY <2>1 DEF StreamInv
  <2>3. ASSUME Keep PROVE StreamSame(node.chunks)'
    <3>1. Len(node'.chunks) = Len(sent)
      BY <1>2, <2>1, <2>3 DEF StreamTypes, StreamSame
    <3>2. \A i \in 1 .. Len(sent) : /\ node'.chunks[i].kind = chunks[i].kind
                                    /\ node'.chunks[i].text = chunks[i].text
      BY <1>2, <2>1, <2>3 DEF StreamSame, Stream!ByValue
    <3>3. \A i \in 1 .. Len(sent) : chunks[i].kind = sent[i].kind /\ chunks[i].text = sent[i].text
      BY <1>2 DEF StreamSame
    <3> QED
      BY <1>1, <3>1, <3>2, <3>3 DEF StreamSame
  <2>4. StreamOver'
    BY <1>1, <1>4, <2>1, <2>2 DEF StreamOver
  <2> QED
    BY <1>1, <1>3, <2>3, <2>4 DEF StreamInv, StreamKept
<1>7. CASE Stream!Fail
  <2>1. node'.is = IF chunks # <<>> THEN "unknown" ELSE "none"
    BY <1>7 DEF Stream!Fail, Stream!Unknown, Stream!NoNode
  <2>2. StreamOver'
    BY <1>1, <1>4, <1>5, <2>1 DEF StreamOver
  <2> QED
    BY <1>1, <1>3, <2>1, <2>2 DEF StreamInv, StreamKept
<1> QED
  BY <1>6, <1>7

LEMMA StreamReplays ==
  ASSUME StreamInv, Stream!Replay
  PROVE  StreamInv'
<1>1. /\ at = "over" /\ node.is = "call" /\ replayed' = node.chunks /\ at' = "replaying"
      /\ UNCHANGED <<heap, result, chunks, sent, emitted, holds, node>>
  BY DEF Stream!Replay
<1>2. StreamTypes' /\ StreamSame(chunks)' /\ StreamOver' /\ StreamKept'
  BY <1>1 DEF StreamInv, StreamTypes, StreamSame, StreamOver, StreamKept
<1>3. Keep => StreamSame(replayed)'
  BY <1>1 DEF StreamInv, StreamKept, StreamSame
<1> QED
  BY <1>1, <1>2, <1>3 DEF StreamInv

LEMMA StreamInductive == ASSUME StreamAllowed PROVE Stream!Spec => []StreamInv
<1>1. Stream!Init => StreamInv
  BY DEF StreamInv, StreamTypes, StreamSame, StreamKept, Stream!NoNode, Stream!Init
<1>2. ASSUME StreamInv, [Stream!Next]_Stream!vars PROVE StreamInv'
  <2>1. CASE Stream!Next
    BY <1>2, <2>1, StreamReceives, StreamPasses, StreamEnds, StreamReplays DEF Stream!Next
  <2>2. CASE UNCHANGED Stream!vars
    BY <1>2, <2>2 DEF StreamInv, StreamTypes, StreamSame, StreamAtChunk, StreamOver, StreamKept,
                      Stream!vars, Stream!ByValue, Stream!Deref
  <2> QED
    BY <1>2, <2>1, <2>2
<1> QED
  BY <1>1, <1>2, PTL DEF Stream!Spec

(* on_delta is given the chunks in their order, each as it was sent and    *)
(* once, and all of them when the call is recorded (_consume_step_result). *)
THEOREM StreamDeltasInOrder == ASSUME StreamAllowed PROVE Stream!Spec => []Stream!DeltasInOrder
<1>1. StreamInv => Stream!DeltasInOrder
  <2> SUFFICES ASSUME StreamInv PROVE Stream!DeltasInOrder
    OBVIOUS
  <2>1. sent \in Seq(Stream!Chunk)
    BY DEF StreamInv, StreamTypes
  <2>2. Stream!IsPrefix(emitted, sent)
    BY <2>1, StreamPrefixes DEF StreamInv, StreamAtChunk, StreamOver
  <2>3. node.is = "call" => emitted = sent
    BY DEF StreamInv, StreamOver, Stream!NoNode
  <2> QED
    BY <2>2, <2>3 DEF Stream!DeltasInOrder
<1> QED
  BY <1>1, StreamInductive, PTL

(* A call that the provider had begun to answer is in the tree when it is  *)
(* over, also when the stream, on_delta or a cancellation ended it         *)
(* (mark_post_dispatch_outcome_unknown).                                   *)
THEOREM StreamAnsweredIsRecorded ==
  ASSUME StreamAllowed PROVE Stream!Spec => []Stream!AnsweredIsRecorded
<1>1. StreamInv => Stream!AnsweredIsRecorded
  BY DEF StreamInv, StreamOver, Stream!AnsweredIsRecorded
<1> QED
  BY <1>1, StreamInductive, PTL

(* A replay gives on_delta the chunks of the recorded call, in their order *)
(* (_reemit_chunks).                                                       *)
THEOREM StreamReplayedInOrder ==
  ASSUME StreamAllowed PROVE Stream!Spec => []Stream!ReplayedInOrder
<1>1. StreamInv => Stream!ReplayedInOrder
  BY DEF StreamInv, StreamSame, Stream!ReplayedInOrder
<1> QED
  BY <1>1, StreamInductive, PTL

-----------------------------------------------------------------------------
(* A Codex call (CodexProcess): its answer is all that the process wrote,  *)
(* and no process outlives it.                                             *)
CONSTANTS Texts, MaxEvents, MaxErrors, PipeSize, QueueSize, MaxOutput, Prompt, Faults
VARIABLES process, pipe, stdin, wrote, thread, chunk, writer, queue, main, closed, sizes,
          parsed, error

Codex == INSTANCE CodexProcess WITH Limit <- MaxOutput

(* An agent's message is no message of a thread about itself.              *)
CodexAllowed == Texts \cap {"closed", "io_error"} = {}

CodexSays == Codex!Events \cup {"chunk", "io_error", "closed"}
CodexMessage == [from : Codex!Readers, is : CodexSays] \cup [from : {"stdin"}, is : {"io_error"}]
CodexTypes ==
  /\ process \in {"running", "done", "failed", "killed"} /\ held \in BOOLEAN
  /\ pipe \in [Codex!Readers -> Seq(CodexSays)] /\ pipe["stdout"] \in Seq(Codex!Events)
  /\ wrote \in [out : Seq(Codex!Events), err : Nat]
  /\ thread \in [Codex!Readers -> {"reading", "sending", "closing", "ended"}]
  /\ chunk \in [Codex!Readers -> CodexSays]
  /\ queue \in Seq(CodexMessage)
  /\ main \in {"collecting", "returned", "raised"} /\ closed \subseteq Codex!Readers
  /\ parsed \in Seq(Codex!Events)

(* The queue qu has the events es of the process, in this order.           *)
CodexEvent(m) == m.from = "stdout" /\ m.is \notin {"closed", "io_error"}
CodexQueued(qu, es) ==
  /\ es \in Seq(Codex!Events)
  /\ \E place \in [1 .. Len(es) -> 1 .. Len(qu)] :
       /\ \A k \in 1 .. Len(es) : CodexEvent(qu[place[k]]) /\ qu[place[k]].is = es[k]
       /\ \A k, l \in 1 .. Len(es) : k < l => place[k] < place[l]
       /\ \A i \in 1 .. Len(qu) : CodexEvent(qu[i]) => \E k \in 1 .. Len(es) : place[k] = i

(* What the thread of the output is about to send.                         *)
CodexCarried ==
  IF thread["stdout"] = "sending" /\ chunk["stdout"] # "io_error" THEN <<chunk["stdout"]>> ELSE <<>>

(* Nothing is lost, doubled or overtaken between process and caller.       *)
CodexInOrder ==
  \E es : CodexQueued(queue, es)
          /\ wrote.out = parsed \o (es \o (CodexCarried \o pipe["stdout"]))

(* The output has ended, and nothing of it is left to be read; or it has   *)
(* failed, and the caller will come upon that.                             *)
CodexDrained == pipe["stdout"] = <<>> /\ Codex!Exited /\ ~held
CodexBroken == \E i \in 1 .. Len(queue) : queue[i].from = "stdout" /\ queue[i].is = "io_error"
CodexClosing == thread["stdout"] \in {"closing", "ended"} => CodexDrained \/ CodexBroken
CodexNoMore(first) == \A i \in first .. Len(queue) : queue[i].from # "stdout"
CodexClosedLast ==
  \A i \in 1 .. Len(queue) : queue[i].from = "stdout" /\ queue[i].is = "closed" =>
    thread["stdout"] = "ended" /\ CodexNoMore(i + 1)
CodexClosed ==
  "stdout" \in closed => CodexDrained /\ thread["stdout"] = "ended" /\ CodexNoMore(1)

CodexCarries ==
  thread["stdout"] = "sending" /\ chunk["stdout"] # "io_error" => chunk["stdout"] \in Codex!Events
CodexTurn == "turn.completed" \in Codex!Range(parsed) => Codex!Last(parsed) = "turn.completed"

CodexFlow == CodexInOrder /\ CodexClosing /\ CodexClosedLast /\ CodexClosed /\ CodexCarries
CodexInv ==
  /\ CodexTypes /\ CodexTurn
  /\ main = "collecting" => CodexFlow
  /\ main # "collecting" => Codex!Exited
  /\ Codex!AnswerIsWhole

-----------------------------------------------------------------------------
(* Sequences, and the events of a queue as it gains or loses a message.    *)
AppendsBehind(a, b, e) == Append(a \o b, e) = a \o Append(b, e)
LEMMA AppendBehind ==
  ASSUME NEW S, NEW a \in Seq(S), NEW b \in Seq(S), NEW e \in S
  PROVE  AppendsBehind(a, b, e)
<1> DEFINE s == Append(a \o b, e)
           t == a \o Append(b, e)
<1> DEFINE c == a \o b
           d == Append(b, e)
<1>0. /\ c \in Seq(S) /\ Len(c) = Len(a) + Len(b) /\ Len(a) \in Nat /\ Len(b) \in Nat
      /\ \A i \in 1 .. Len(a) : c[i] = a[i]
      /\ \A i \in 1 .. Len(b) : c[Len(a) + i] = b[i]
  OBVIOUS
<1>1. /\ d \in Seq(S) /\ Len(d) = Len(b) + 1 /\ d[Len(b) + 1] = e
      /\ \A i \in 1 .. Len(b) : d[i] = b[i]
  OBVIOUS
<1> HIDE DEF c, d
<1>2. /\ s \in Seq(S) /\ Len(s) = Len(a) + Len(b) + 1 /\ s[Len(a) + Len(b) + 1] = e
      /\ \A i \in 1 .. Len(a) + Len(b) : s[i] = c[i]
  BY <1>0 DEF c
<1>3. /\ t \in Seq(S) /\ Len(t) = Len(a) + Len(b) + 1
      /\ \A i \in 1 .. Len(a) : t[i] = a[i]
      /\ \A i \in 1 .. Len(b) + 1 : t[Len(a) + i] = d[i]
  BY <1>1 DEF d
<1> HIDE DEF s, t
<1>4. \A i \in 1 .. Len(s) : s[i] = t[i]
  <2> SUFFICES ASSUME NEW i \in 1 .. Len(s) PROVE s[i] = t[i]
    OBVIOUS
  <2>1. CASE i <= Len(a)
    BY <1>0, <1>2, <1>3, <2>1
  <2>2. CASE i > Len(a) /\ i <= Len(a) + Len(b)
    <3> DEFINE j == i - Len(a)
    <3>1. j \in 1 .. Len(b) /\ j \in 1 .. Len(b) + 1 /\ i = Len(a) + j
      BY <1>0, <2>2
    <3> HIDE DEF j
    <3>2. i \in 1 .. Len(a) + Len(b)
      BY <1>0, <2>2
    <3>3. s[i] = c[i]
      BY <1>2, <3>2
    <3>4. c[i] = b[j] /\ t[i] = d[j] /\ d[j] = b[j]
      BY <1>0, <1>1, <1>3, <3>1
    <3> QED
      BY <3>3, <3>4
  <2>3. CASE i = Len(a) + (Len(b) + 1)
    BY <1>0, <1>1, <1>2, <1>3, <2>3
  <2> QED
    BY <1>0, <1>2, <2>1, <2>2, <2>3
<1>5. s = t
  BY <1>2, <1>3, <1>4, SeqEqual
<1> QED
  BY <1>5 DEF s, t, c, d, AppendsBehind

AppendsBehindAll(a, b, c, p, e) ==
  Append(a \o (b \o (c \o p)), e) = a \o (b \o (c \o Append(p, e)))
LEMMA AppendBehindAll ==
  ASSUME NEW S, NEW a \in Seq(S), NEW b \in Seq(S), NEW c \in Seq(S), NEW p \in Seq(S), NEW e \in S
  PROVE  AppendsBehindAll(a, b, c, p, e)
<1>1. c \o p \in Seq(S) /\ b \o (c \o p) \in Seq(S)
  OBVIOUS
<1>2. AppendsBehind(c, p, e)
  BY AppendBehind
<1>3. AppendsBehind(b, c \o p, e)
  BY <1>1, AppendBehind
<1>4. AppendsBehind(a, b \o (c \o p), e)
  BY <1>1, AppendBehind
<1> QED
  BY <1>2, <1>3, <1>4 DEF AppendsBehind, AppendsBehindAll

LEMMA HeadBehind ==
  ASSUME NEW S, NEW a \in Seq(S), NEW b \in Seq(S), b # <<>>
  PROVE  a \o b = Append(a, Head(b)) \o Tail(b)
<1> DEFINE s == a \o b
           t == Append(a, Head(b)) \o Tail(b)
<1>1. /\ Head(b) \in S /\ Tail(b) \in Seq(S) /\ Len(Tail(b)) = Len(b) - 1 /\ Head(b) = b[1]
      /\ \A i \in 1 .. Len(Tail(b)) : Tail(b)[i] = b[i + 1]
  OBVIOUS
<1> DEFINE c == Append(a, Head(b))
           d == Tail(b)
<1>2. /\ s \in Seq(S) /\ Len(s) = Len(a) + Len(b) /\ Len(a) \in Nat /\ Len(b) \in Nat
      /\ \A i \in 1 .. Len(a) : s[i] = a[i]
      /\ \A i \in 1 .. Len(b) : s[Len(a) + i] = b[i]
  OBVIOUS
<1>3. /\ c \in Seq(S) /\ Len(c) = Len(a) + 1 /\ c[Len(a) + 1] = b[1]
      /\ \A i \in 1 .. Len(a) : c[i] = a[i]
  BY <1>1
<1> HIDE DEF c, d
<1>4. /\ d \in Seq(S) /\ Len(d) = Len(b) - 1 /\ \A i \in 1 .. Len(b) - 1 : d[i] = b[i + 1]
  BY <1>1 DEF d
<1>5. /\ t \in Seq(S) /\ Len(t) = Len(c) + Len(d)
      /\ \A i \in 1 .. Len(c) : t[i] = c[i]
      /\ \A i \in 1 .. Len(d) : t[Len(c) + i] = d[i]
  BY <1>3, <1>4 DEF c, d
<1> HIDE DEF s, t
<1>6. \A i \in 1 .. Len(s) : s[i] = t[i]
  <2> SUFFICES ASSUME NEW i \in 1 .. Len(s) PROVE s[i] = t[i]
    OBVIOUS
  <2>1. CASE i <= Len(a)
    BY <1>2, <1>3, <1>5, <2>1
  <2>2. CASE i = Len(a) + 1
    BY <1>2, <1>3, <1>5, <2>2
  <2>3. CASE i > Len(a) + 1
    <3>1. /\ i - (Len(a) + 1) \in 1 .. Len(d) /\ i = Len(c) + (i - (Len(a) + 1))
          /\ i - (Len(a) + 1) \in 1 .. Len(b) - 1
          /\ (i - (Len(a) + 1)) + 1 = i - Len(a)
          /\ i - Len(a) \in 1 .. Len(b) /\ i = Len(a) + (i - Len(a))
      BY <1>2, <1>3, <1>4, <2>3
    <3>2. s[i] = b[i - Len(a)]
      BY <1>2, <3>1
    <3>3. t[i] = d[i - (Len(a) + 1)]
      BY <1>5, <3>1
    <3> QED
      BY <1>4, <3>1, <3>2, <3>3
  <2>4. i \in Nat /\ Len(a) \in Nat
    BY <1>2
  <2>5. i <= Len(a) \/ i = Len(a) + 1 \/ i > Len(a) + 1
    BY <2>4
  <2> QED
    BY <2>1, <2>2, <2>3, <2>5
<1>7. t \in Seq(S) /\ Len(t) = Len(s)
  BY <1>2, <1>3, <1>4, <1>5
<1>8. s = t
  BY <1>2, <1>6, <1>7, SeqEqual
<1> QED
  BY <1>8 DEF s, t, c, d

LEMMA QueuedEvent ==
  ASSUME CodexAllowed, NEW qu \in Seq(CodexMessage), NEW m \in CodexMessage, NEW es,
         CodexQueued(qu, es), CodexEvent(m), m.is \in Codex!Events
  PROVE  CodexQueued(Append(qu, m), Append(es, m.is))
<1> DEFINE n == Len(es)
           w == Append(qu, m)
           fs == Append(es, m.is)
<1>1. PICK place \in [1 .. n -> 1 .. Len(qu)] :
        /\ \A k \in 1 .. n : CodexEvent(qu[place[k]]) /\ qu[place[k]].is = es[k]
        /\ \A k, l \in 1 .. n : k < l => place[k] < place[l]
        /\ \A i \in 1 .. Len(qu) : CodexEvent(qu[i]) => \E k \in 1 .. n : place[k] = i
  BY DEF CodexQueued
<1>2. es \in Seq(Codex!Events) /\ n \in Nat
  BY DEF CodexQueued
<1>3. /\ fs \in Seq(Codex!Events) /\ Len(fs) = n + 1 /\ fs[n + 1] = m.is
      /\ \A k \in 1 .. n : fs[k] = es[k]
  BY <1>2
<1>4. /\ w \in Seq(CodexMessage) /\ Len(w) = Len(qu) + 1 /\ w[Len(qu) + 1] = m
      /\ Len(qu) \in Nat /\ \A i \in 1 .. Len(qu) : w[i] = qu[i]
  OBVIOUS
<1> DEFINE last == Len(qu) + 1
           spot == [k \in 1 .. n + 1 |-> IF k = n + 1 THEN last ELSE place[k]]
<1>5. \A k \in 1 .. n : spot[k] = place[k] /\ place[k] \in 1 .. Len(qu)
  BY <1>1, <1>2
<1>6. spot[n + 1] = last /\ spot \in [1 .. n + 1 -> 1 .. Len(w)]
  BY <1>2, <1>4, <1>5
<1>7. \A k \in 1 .. n + 1 : k \in 1 .. n \/ k = n + 1
  BY <1>2
<1> HIDE DEF n, w, fs, spot
<1>8. \A k \in 1 .. n + 1 : CodexEvent(w[spot[k]]) /\ w[spot[k]].is = fs[k]
  <2> SUFFICES ASSUME NEW k \in 1 .. n + 1
               PROVE  CodexEvent(w[spot[k]]) /\ w[spot[k]].is = fs[k]
    OBVIOUS
  <2>1. CASE k \in 1 .. n
    <3>1. spot[k] = place[k] /\ w[place[k]] = qu[place[k]] /\ fs[k] = es[k]
      BY <1>3, <1>4, <1>5, <2>1
    <3>2. CodexEvent(qu[place[k]]) /\ qu[place[k]].is = es[k]
      BY <1>1, <2>1
    <3> QED
      BY <3>1, <3>2
  <2>2. CASE k = n + 1
    <3>1. spot[k] = Len(qu) + 1 /\ fs[k] = m.is
      BY <1>3, <1>6, <2>2
    <3> QED
      BY <1>4, <3>1
  <2> QED
    BY <1>7, <2>1, <2>2
<1>9. \A k, l \in 1 .. n + 1 : k < l => spot[k] < spot[l]
  <2> SUFFICES ASSUME NEW k \in 1 .. n + 1, NEW l \in 1 .. n + 1, k < l PROVE spot[k] < spot[l]
    OBVIOUS
  <2>1. k \in 1 .. n
    BY <1>2
  <2>2. CASE l \in 1 .. n
    <3>1. place[k] < place[l]
      BY <1>1, <2>1, <2>2
    <3> QED
      BY <1>5, <2>1, <2>2, <3>1
  <2>3. CASE l = n + 1
    <3>1. place[k] \in 1 .. Len(qu) /\ spot[k] = place[k] /\ spot[l] = Len(qu) + 1
      BY <1>5, <1>6, <2>1, <2>3
    <3> QED
      BY <1>4, <3>1
  <2> QED
    BY <1>7, <2>2, <2>3
<1>10. \A i \in 1 .. Len(w) : CodexEvent(w[i]) => \E k \in 1 .. n + 1 : spot[k] = i
  <2>1. ASSUME NEW i \in 1 .. Len(qu), CodexEvent(w[i]) PROVE \E k \in 1 .. n + 1 : spot[k] = i
    <3>1. CodexEvent(qu[i])
      BY <1>4, <2>1
    <3>2. PICK k \in 1 .. n : place[k] = i
      BY <1>1, <3>1
    <3>3. k \in 1 .. n + 1 /\ spot[k] = i
      BY <1>2, <1>5, <3>2
    <3> QED
      BY <3>3
  <2>2. \A i \in 1 .. Len(w) : i \in 1 .. Len(qu) \/ i = last
    BY <1>4
  <2>3. n + 1 \in 1 .. n + 1
    BY <1>2
  <2> QED
    BY <1>6, <2>1, <2>2, <2>3
<1>11. CodexQueued(w, fs)
  <2> DEFINE N == n + 1
  <2>1. /\ Len(fs) = N /\ spot \in [1 .. N -> 1 .. Len(w)]
        /\ \A k \in 1 .. N : CodexEvent(w[spot[k]]) /\ w[spot[k]].is = fs[k]
        /\ \A k, l \in 1 .. N : k < l => spot[k] < spot[l]
        /\ \A i \in 1 .. Len(w) : CodexEvent(w[i]) => \E k \in 1 .. N : spot[k] = i
    BY <1>3, <1>6, <1>8, <1>9, <1>10
  <2> HIDE DEF N
  <2> QED
    BY <1>3, <2>1 DEF CodexQueued
<1> QED
  BY <1>11 DEF w, fs

LEMMA QueuedOther ==
  ASSUME NEW qu \in Seq(CodexMessage), NEW m \in CodexMessage, NEW es,
         CodexQueued(qu, es), ~CodexEvent(m)
  PROVE  CodexQueued(Append(qu, m), es)
<1> DEFINE n == Len(es)
           w == Append(qu, m)
<1>1. PICK place \in [1 .. n -> 1 .. Len(qu)] :
        /\ \A k \in 1 .. n : CodexEvent(qu[place[k]]) /\ qu[place[k]].is = es[k]
        /\ \A k, l \in 1 .. n : k < l => place[k] < place[l]
        /\ \A i \in 1 .. Len(qu) : CodexEvent(qu[i]) => \E k \in 1 .. n : place[k] = i
  BY DEF CodexQueued
<1>2. /\ Len(w) = Len(qu) + 1 /\ w[Len(qu) + 1] = m
      /\ Len(qu) \in Nat /\ \A i \in 1 .. Len(qu) : w[i] = qu[i]
  OBVIOUS
<1>3. \A i \in 1 .. Len(w) : i \in 1 .. Len(qu) \/ i = Len(qu) + 1
  BY <1>2
<1>4. place \in [1 .. n -> 1 .. Len(w)]
  BY <1>1, <1>2
<1> HIDE DEF n, w
<1>5. \A k \in 1 .. n : CodexEvent(w[place[k]]) /\ w[place[k]].is = es[k]
  BY <1>1, <1>2
<1>6. \A i \in 1 .. Len(w) : CodexEvent(w[i]) => \E k \in 1 .. n : place[k] = i
  BY <1>1, <1>2, <1>3
<1> QED
  BY <1>1, <1>4, <1>5, <1>6 DEF CodexQueued, n, w

(* The first message is no event, or it is the first event.                *)
LEMMA QueuedHead ==
  ASSUME NEW qu \in Seq(CodexMessage), qu # <<>>, NEW es, CodexQueued(qu, es)
  PROVE  /\ ~CodexEvent(Head(qu)) => CodexQueued(Tail(qu), es)
         /\ CodexEvent(Head(qu)) =>
              es # <<>> /\ Head(es) = Head(qu).is /\ CodexQueued(Tail(qu), Tail(es))
<1> DEFINE n == Len(es)
           w == Tail(qu)
<1>1. PICK place \in [1 .. n -> 1 .. Len(qu)] :
        /\ \A k \in 1 .. n : CodexEvent(qu[place[k]]) /\ qu[place[k]].is = es[k]
        /\ \A k, l \in 1 .. n : k < l => place[k] < place[l]
        /\ \A i \in 1 .. Len(qu) : CodexEvent(qu[i]) => \E k \in 1 .. n : place[k] = i
  BY DEF CodexQueued
<1>2. es \in Seq(Codex!Events) /\ n \in Nat
  BY DEF CodexQueued
<1>3. /\ Len(qu) \in Nat /\ Len(qu) >= 1 /\ Len(w) = Len(qu) - 1 /\ Head(qu) = qu[1]
      /\ \A i \in 1 .. Len(w) : w[i] = qu[i + 1]
  OBVIOUS
<1>4. \A i \in 2 .. Len(qu) : i - 1 \in 1 .. Len(w) /\ w[i - 1] = qu[i]
  BY <1>3
<1>5. ASSUME ~CodexEvent(Head(qu)) PROVE CodexQueued(Tail(qu), es)
  <2> DEFINE spot == [k \in 1 .. n |-> place[k] - 1]
  <2>1. \A k \in 1 .. n : place[k] \in 1 .. Len(qu) /\ place[k] # 1
    BY <1>1, <1>3, <1>5
  <2>2. \A k \in 1 .. n : place[k] \in 2 .. Len(qu)
    BY <1>3, <2>1
  <2>3. \A k \in 1 .. n : spot[k] = place[k] - 1 /\ spot[k] \in 1 .. Len(w) /\ w[spot[k]] = qu[place[k]]
    BY <1>4, <2>2
  <2>4. spot \in [1 .. n -> 1 .. Len(w)]
    BY <2>3
  <2> HIDE DEF spot, n, w
  <2>5. \A k \in 1 .. n : CodexEvent(w[spot[k]]) /\ w[spot[k]].is = es[k]
    BY <1>1, <2>3
  <2>6. \A k, l \in 1 .. n : k < l => spot[k] < spot[l]
    <3> SUFFICES ASSUME NEW k \in 1 .. n, NEW l \in 1 .. n, k < l PROVE spot[k] < spot[l]
      OBVIOUS
    <3>1. place[k] < place[l] /\ place[k] \in Int /\ place[l] \in Int
      BY <1>1, <2>2
    <3> QED
      BY <2>3, <3>1
  <2>7. \A i \in 1 .. Len(w) : CodexEvent(w[i]) => \E k \in 1 .. n : spot[k] = i
    <3> SUFFICES ASSUME NEW i \in 1 .. Len(w), CodexEvent(w[i]) PROVE \E k \in 1 .. n : spot[k] = i
      OBVIOUS
    <3>1. i + 1 \in 1 .. Len(qu) /\ CodexEvent(qu[i + 1])
      BY <1>3
    <3>2. PICK k \in 1 .. n : place[k] = i + 1
      BY <1>1, <3>1
    <3>3. spot[k] = i
      BY <2>3, <3>2
    <3> QED
      BY <3>3
  <2> QED
    BY <1>2, <2>4, <2>5, <2>6, <2>7 DEF CodexQueued, n, w
<1>6. ASSUME CodexEvent(Head(qu))
      PROVE  es # <<>> /\ Head(es) = Head(qu).is /\ CodexQueued(Tail(qu), Tail(es))
  <2>1. PICK first \in 1 .. n : place[first] = 1
    BY <1>1, <1>3, <1>6
  <2>2. n >= 1 /\ 1 \in 1 .. n
    BY <1>2, <2>1
  <2>3. first = 1
    <3>1. ~ (1 < first)
      BY <1>1, <2>1, <2>2
    <3> QED
      BY <1>2, <2>1, <3>1
  <2>4. es # <<>> /\ Head(es) = es[1] /\ es[1] = Head(qu).is
    BY <1>1, <1>2, <1>3, <2>1, <2>2, <2>3
  <2> DEFINE fs == Tail(es)
             spot == [k \in 1 .. n - 1 |-> place[k + 1] - 1]
  <2>5. /\ fs \in Seq(Codex!Events) /\ Len(fs) = n - 1
        /\ \A k \in 1 .. n - 1 : fs[k] = es[k + 1] /\ k + 1 \in 1 .. n
    BY <1>2, <2>4
  <2>6. \A k \in 1 .. n - 1 : place[k + 1] \in 2 .. Len(qu)
    <3> SUFFICES ASSUME NEW k \in 1 .. n - 1 PROVE place[k + 1] \in 2 .. Len(qu)
      OBVIOUS
    <3>1. k + 1 \in 1 .. n /\ 1 < k + 1
      BY <2>5
    <3>2. place[k + 1] \in 1 .. Len(qu) /\ place[1] < place[k + 1]
      BY <1>1, <2>2, <3>1
    <3> QED
      BY <1>3, <2>1, <2>3, <3>2
  <2>7. \A k \in 1 .. n - 1 :
          /\ spot[k] = place[k + 1] - 1 /\ spot[k] \in 1 .. Len(w)
          /\ w[spot[k]] = qu[place[k + 1]]
    BY <1>4, <2>6
  <2>8. spot \in [1 .. n - 1 -> 1 .. Len(w)]
    BY <2>7
  <2> HIDE DEF spot, n, w, fs
  <2>9. \A k \in 1 .. n - 1 : CodexEvent(w[spot[k]]) /\ w[spot[k]].is = fs[k]
    <3> SUFFICES ASSUME NEW k \in 1 .. n - 1 PROVE CodexEvent(w[spot[k]]) /\ w[spot[k]].is = fs[k]
      OBVIOUS
    <3> DEFINE j == k + 1
    <3>1. j \in 1 .. n /\ fs[k] = es[j] /\ w[spot[k]] = qu[place[j]]
      BY <2>5, <2>7
    <3> HIDE DEF j
    <3>2. CodexEvent(qu[place[j]]) /\ qu[place[j]].is = es[j]
      BY <1>1, <3>1
    <3> QED
      BY <3>1, <3>2
  <2>10. \A k, l \in 1 .. n - 1 : k < l => spot[k] < spot[l]
    <3> SUFFICES ASSUME NEW k \in 1 .. n - 1, NEW l \in 1 .. n - 1, k < l PROVE spot[k] < spot[l]
      OBVIOUS
    <3>1. k + 1 < l + 1 /\ k + 1 \in 1 .. n /\ l + 1 \in 1 .. n
      BY <2>5
    <3>2. place[k + 1] < place[l + 1] /\ place[k + 1] \in Int /\ place[l + 1] \in Int
      BY <1>1, <2>6, <3>1
    <3> QED
      BY <2>7, <3>2
  <2>11. \A i \in 1 .. Len(w) : CodexEvent(w[i]) => \E k \in 1 .. n - 1 : spot[k] = i
    <3> SUFFICES ASSUME NEW i \in 1 .. Len(w), CodexEvent(w[i])
                 PROVE  \E k \in 1 .. n - 1 : spot[k] = i
      OBVIOUS
    <3>1. i + 1 \in 1 .. Len(qu) /\ CodexEvent(qu[i + 1]) /\ i \in 1 .. Len(w)
      BY <1>3
    <3>2. PICK k \in 1 .. n : place[k] = i + 1
      BY <1>1, <3>1
    <3>3. k # 1
      BY <2>1, <2>3, <3>2
    <3>4. k - 1 \in 1 .. n - 1 /\ (k - 1) + 1 = k
      BY <1>2, <3>3
    <3>5. spot[k - 1] = i
      BY <2>7, <3>2, <3>4
    <3> QED
      BY <3>4, <3>5
  <2>12. CodexQueued(w, fs)
    <3> DEFINE N == n - 1
    <3>1. /\ Len(fs) = N /\ spot \in [1 .. N -> 1 .. Len(w)]
          /\ \A k \in 1 .. N : CodexEvent(w[spot[k]]) /\ w[spot[k]].is = fs[k]
          /\ \A k, l \in 1 .. N : k < l => spot[k] < spot[l]
          /\ \A i \in 1 .. Len(w) : CodexEvent(w[i]) => \E k \in 1 .. N : spot[k] = i
      BY <2>5, <2>8, <2>9, <2>10, <2>11
    <3> HIDE DEF N
    <3> QED
      BY <2>5, <3>1 DEF CodexQueued
  <2> QED
    BY <2>4, <2>12 DEF w, fs
<1> QED
  BY <1>5, <1>6

LEMMA QueuedNone ==
  ASSUME NEW qu, NEW es, CodexQueued(qu, es), \A i \in 1 .. Len(qu) : ~CodexEvent(qu[i])
  PROVE  es = <<>>
<1>1. es \in Seq(Codex!Events)
  BY DEF CodexQueued
<1>2. \A k \in 1 .. Len(es) : FALSE
  BY DEF CodexQueued
<1> QED
  BY <1>1, <1>2

LEMMA HeadOfBoth ==
  ASSUME NEW S, NEW a \in Seq(S), a # <<>>, NEW b \in Seq(S)
  PROVE  a \o b # <<>> /\ Head(a \o b) = Head(a) /\ Tail(a \o b) = Tail(a) \o b
<1> DEFINE s == Tail(a \o b)
           t == Tail(a) \o b
           c == a \o b
           d == Tail(a)
<1>1. /\ c \in Seq(S) /\ Len(c) = Len(a) + Len(b) /\ Len(a) \in Nat /\ Len(b) \in Nat
      /\ Len(a) >= 1 /\ a[1] = Head(a)
      /\ \A i \in 1 .. Len(a) : c[i] = a[i]
      /\ \A i \in 1 .. Len(b) : c[Len(a) + i] = b[i]
  OBVIOUS
<1>2. d \in Seq(S) /\ Len(d) = Len(a) - 1 /\ \A i \in 1 .. Len(a) - 1 : d[i] = a[i + 1]
  OBVIOUS
<1> HIDE DEF c, d
<1>3. c # <<>> /\ Head(c) = Head(a)
  BY <1>1
<1>4. /\ s \in Seq(S) /\ Len(s) = Len(c) - 1
      /\ \A i \in 1 .. Len(c) - 1 : s[i] = c[i + 1]
  BY <1>1, <1>3 DEF c
<1>5. /\ t \in Seq(S) /\ Len(t) = Len(d) + Len(b)
      /\ \A i \in 1 .. Len(d) : t[i] = d[i]
      /\ \A i \in 1 .. Len(b) : t[Len(d) + i] = b[i]
  BY <1>2 DEF d
<1> HIDE DEF s, t
<1>6. \A i \in 1 .. Len(s) : s[i] = t[i]
  <2> SUFFICES ASSUME NEW i \in 1 .. Len(s) PROVE s[i] = t[i]
    OBVIOUS
  <2>1. i \in Nat /\ i >= 1 /\ i <= Len(a) + Len(b) - 1 /\ s[i] = c[i + 1]
    BY <1>1, <1>4
  <2>2. CASE i <= Len(a) - 1
    <3>1. i + 1 \in 1 .. Len(a) /\ i \in 1 .. Len(a) - 1 /\ i \in 1 .. Len(d)
      BY <1>1, <1>2, <2>1, <2>2
    <3> QED
      BY <1>1, <1>2, <1>5, <2>1, <3>1
  <2>3. CASE i > Len(a) - 1
    <3> DEFINE j == i + 1 - Len(a)
    <3>0. Len(a) \in Nat /\ Len(b) \in Nat /\ Len(d) = Len(a) - 1
      BY <1>1, <1>2
    <3>1. j \in 1 .. Len(b) /\ i + 1 = Len(a) + j /\ i = Len(d) + j
      BY <2>1, <2>3, <3>0
    <3> HIDE DEF j
    <3>2. c[i + 1] = b[j] /\ t[i] = b[j]
      BY <1>1, <1>5, <3>1
    <3> QED
      BY <2>1, <3>2
  <2>4. i <= Len(a) - 1 \/ i > Len(a) - 1
    BY <1>1, <2>1
  <2> QED
    BY <2>2, <2>3, <2>4
<1>7. Len(t) = Len(s)
  BY <1>1, <1>2, <1>4, <1>5
<1>8. s = t
  BY <1>4, <1>5, <1>6, <1>7, SeqEqual
<1> QED
  BY <1>3, <1>8 DEF s, t, c, d

-----------------------------------------------------------------------------
(* A step of the prompt's thread, or of time, is none of the process, of   *)
(* the threads that read, or of the caller.                                *)
CodexAside ==
  /\ process' = process /\ held' = held /\ pipe' = pipe /\ wrote' = wrote
  /\ thread' = thread /\ chunk' = chunk /\ main' = main /\ closed' = closed
  /\ parsed' = parsed /\ result' = result

LEMMA CodexWrites ==
  ASSUME Codex!Writer \/ Codex!WriteFails \/ Codex!Deadline
  PROVE  CodexAside
<1>1. CASE Codex!WritePrompt \/ Codex!WriterEnds \/ Codex!WriterSends \/ Codex!WriteFails
  BY <1>1 DEF Codex!WritePrompt, Codex!WriterEnds, Codex!WriterSends, Codex!WriteFails,
              Codex!threads, Codex!caller, Codex!outside, CodexAside
<1>2. CASE Codex!Deadline
  BY <1>2 DEF Codex!Deadline, Codex!threads, Codex!caller, Codex!outside, CodexAside
<1> QED
  BY <1>1, <1>2 DEF Codex!Writer

(* What a step leaves alone.                                               *)
CodexStill ==
  /\ queue' = queue /\ wrote'.out = wrote.out /\ parsed' = parsed /\ closed' = closed
  /\ thread'["stdout"] = thread["stdout"] /\ chunk'["stdout"] = chunk["stdout"]
  /\ pipe'["stdout"] = pipe["stdout"]
  /\ (Codex!Exited => (Codex!Exited)' /\ held' = held)

LEMMA CodexFlowStill ==
  ASSUME CodexFlow, CodexStill
  PROVE  CodexFlow'
<1>1. CodexInOrder'
  <2>1. PICK es : CodexQueued(queue, es)
                    /\ wrote.out = parsed \o (es \o (CodexCarried \o pipe["stdout"]))
    BY DEF CodexFlow, CodexInOrder
  <2>2. CodexCarried' = CodexCarried
    BY DEF CodexCarried, CodexStill
  <2>3. CodexQueued(queue', es)
    BY <2>1 DEF CodexStill
  <2>4. wrote'.out = parsed' \o (es \o (CodexCarried' \o pipe'["stdout"]))
    BY <2>1, <2>2 DEF CodexStill
  <2> QED
    BY <2>3, <2>4 DEF CodexInOrder
<1>2. CodexClosing'
  BY DEF CodexFlow, CodexClosing, CodexStill, CodexDrained, CodexBroken
<1>3. CodexClosedLast'
  BY DEF CodexFlow, CodexClosedLast, CodexStill, CodexNoMore
<1>4. CodexClosed'
  <2>1. CodexDrained => CodexDrained'
    BY DEF CodexStill, CodexDrained
  <2>2. CodexNoMore(1) => CodexNoMore(1)'
    BY DEF CodexStill, CodexNoMore
  <2>3. CodexClosed /\ ("stdout" \in closed' => "stdout" \in closed)
    BY DEF CodexFlow, CodexStill
  <2>4. thread["stdout"] = "ended" => (thread["stdout"] = "ended")'
    BY DEF CodexStill
  <2> QED
    BY <2>1, <2>2, <2>3, <2>4 DEF CodexClosed
<1>5. CodexCarries'
  BY DEF CodexFlow, CodexCarries, CodexStill, Codex!Events
<1> QED
  BY <1>1, <1>2, <1>3, <1>4, <1>5 DEF CodexFlow

-----------------------------------------------------------------------------
(* Each step keeps the events in order.                                    *)
LEMMA CodexWriteFlows ==
  ASSUME CodexTypes, CodexFlow, NEW e \in Codex!Events, Codex!WriteEvent(e)
  PROVE  CodexFlow'
<1>1. /\ queue' = queue /\ parsed' = parsed /\ closed' = closed /\ thread' = thread /\ chunk' = chunk
      /\ process = "running" /\ pipe'["stdout"] = Append(pipe["stdout"], e)
  BY DEF Codex!WriteEvent, Codex!Alive, Codex!Write, Codex!threads, Codex!caller, CodexTypes,
         Codex!Readers
<1>2. wrote'.out = Append(wrote.out, e)
  BY DEF Codex!WriteEvent, CodexTypes
<1>3. ~Codex!Exited
  BY <1>1 DEF Codex!Exited
<1>4. CodexInOrder'
  <2> DEFINE S == Codex!Events
             p == pipe["stdout"]
             c == CodexCarried
  <2>1. PICK es : CodexQueued(queue, es) /\ wrote.out = parsed \o (es \o (c \o p))
    BY DEF CodexFlow, CodexInOrder
  <2>2. parsed \in Seq(S) /\ p \in Seq(S) /\ es \in Seq(S)
    BY <2>1 DEF CodexTypes, CodexQueued
  <2>3. c \in Seq(S)
    BY DEF CodexFlow, CodexCarries, CodexCarried
  <2>4. CodexCarried' = c
    BY <1>1 DEF CodexCarried
  <2> HIDE DEF S, p, c
  <2>6. e \in S
    BY DEF S
  <2>9. AppendsBehindAll(parsed, es, c, p, e)
    BY <2>2, <2>3, <2>6, AppendBehindAll
  <2>10. wrote'.out = parsed' \o (es \o (CodexCarried' \o pipe'["stdout"]))
    BY <1>1, <1>2, <2>1, <2>4, <2>9 DEF p, AppendsBehindAll
  <2>11. CodexQueued(queue', es)
    BY <1>1, <2>1
  <2> QED
    BY <2>10, <2>11 DEF CodexInOrder
<1>5. CodexClosing'
  BY <1>1, <1>3 DEF CodexFlow, CodexClosing, CodexDrained, CodexBroken
<1>6. CodexClosedLast'
  BY <1>1 DEF CodexFlow, CodexClosedLast, CodexNoMore
<1>7. CodexClosed'
  BY <1>1, <1>3 DEF CodexFlow, CodexClosed, CodexDrained
<1>8. CodexCarries'
  BY <1>1 DEF CodexFlow, CodexCarries, Codex!Events
<1> QED
  BY <1>4, <1>5, <1>6, <1>7, <1>8 DEF CodexFlow

LEMMA CodexReadFlows ==
  ASSUME CodexAllowed, CodexTypes, CodexFlow, Codex!ReadChunk("stdout")
  PROVE  CodexFlow'
<1> DEFINE S == Codex!Events
           p == pipe["stdout"]
<1>1. /\ queue' = queue /\ parsed' = parsed /\ closed' = closed /\ wrote' = wrote
      /\ thread["stdout"] = "reading" /\ thread'["stdout"] = "sending"
      /\ chunk'["stdout"] = Head(p) /\ pipe'["stdout"] = Tail(p)
  BY DEF Codex!ReadChunk, Codex!caller, CodexTypes, Codex!Readers
<1>2. p \in Seq(S) /\ p # <<>> /\ parsed \in Seq(S)
  BY DEF CodexTypes, Codex!ReadChunk
<1>3. Head(p) \in S /\ Tail(p) \in Seq(S)
  BY <1>2
<1>4. "io_error" \notin S
  BY DEF CodexAllowed, Codex!Events
<1> HIDE DEF S, p
<1>5. CodexInOrder'
  <2>1. PICK es : CodexQueued(queue, es) /\ wrote.out = parsed \o (es \o (CodexCarried \o p))
    BY DEF CodexFlow, CodexInOrder, p
  <2>2. CodexCarried = <<>> /\ CodexCarried' = <<Head(p)>>
    BY <1>1, <1>3, <1>4 DEF CodexCarried
  <2>3. <<>> \o p = p /\ <<Head(p)>> \o Tail(p) = p
    <3>1. <<>> \o p = Append(<<>>, Head(p)) \o Tail(p)
      BY <1>2, HeadBehind
    <3> QED
      BY <1>2, <1>3, <3>1
  <2>4. CodexCarried \o p = CodexCarried' \o pipe'["stdout"]
    BY <1>1, <2>2, <2>3
  <2>5. wrote'.out = parsed' \o (es \o (CodexCarried' \o pipe'["stdout"]))
    BY <1>1, <2>1, <2>4
  <2>6. CodexQueued(queue', es)
    BY <1>1, <2>1
  <2> QED
    BY <2>5, <2>6 DEF CodexInOrder
<1>6. CodexClosing'
  BY <1>1 DEF CodexClosing
<1>7. CodexClosedLast'
  BY <1>1 DEF CodexFlow, CodexClosedLast, CodexNoMore
<1>8. CodexClosed'
  BY <1>1 DEF CodexFlow, CodexClosed
<1>9. CodexCarries'
  BY <1>1, <1>3 DEF CodexCarries, S, Codex!Events
<1> QED
  BY <1>5, <1>6, <1>7, <1>8, <1>9 DEF CodexFlow

(* The output ends, or cannot be read.                                     *)
LEMMA CodexEndFlows ==
  ASSUME CodexTypes, CodexFlow, main = "collecting",
         Codex!ReadEnds("stdout") \/ Codex!ReadFails("stdout")
  PROVE  CodexFlow'
<1>1. /\ queue' = queue /\ parsed' = parsed /\ closed' = closed /\ wrote' = wrote /\ pipe' = pipe
      /\ process' = process /\ held' = held /\ thread["stdout"] = "reading"
  BY DEF Codex!ReadEnds, Codex!ReadFails, Codex!caller, Codex!outside
<1>2. \/ thread'["stdout"] = "closing" /\ CodexDrained
      \/ thread'["stdout"] = "sending" /\ chunk'["stdout"] = "io_error"
  BY DEF Codex!ReadEnds, Codex!ReadFails, Codex!Stopped, Codex!EndOfFile, CodexDrained, CodexTypes,
         Codex!Readers
<1>3. CodexInOrder'
  <2>1. PICK es : CodexQueued(queue, es)
                    /\ wrote.out = parsed \o (es \o (CodexCarried \o pipe["stdout"]))
    BY DEF CodexFlow, CodexInOrder
  <2>2. CodexCarried' = CodexCarried
    BY <1>1, <1>2 DEF CodexCarried
  <2>3. CodexQueued(queue', es)
    BY <1>1, <2>1
  <2>4. wrote'.out = parsed' \o (es \o (CodexCarried' \o pipe'["stdout"]))
    BY <1>1, <2>1, <2>2
  <2> QED
    BY <2>3, <2>4 DEF CodexInOrder
<1>4. CodexClosing'
  BY <1>1, <1>2 DEF CodexClosing, CodexDrained, Codex!Exited
<1>5. CodexClosedLast'
  BY <1>1 DEF CodexFlow, CodexClosedLast, CodexNoMore
<1>6. CodexClosed'
  BY <1>1 DEF CodexFlow, CodexClosed
<1>7. CodexCarries'
  BY <1>2 DEF CodexCarries
<1> QED
  BY <1>3, <1>4, <1>5, <1>6, <1>7 DEF CodexFlow

(* A message is sent.                                                      *)
CodexSent(m) ==
  /\ m \in CodexMessage /\ queue' = Append(queue, m)
  /\ parsed' = parsed /\ closed' = closed /\ wrote' = wrote /\ pipe' = pipe
  /\ process' = process /\ held' = held /\ chunk' = chunk

CodexGrows(m) ==
  /\ Len(queue) \in Nat /\ Len(queue') = Len(queue) + 1 /\ queue'[Len(queue) + 1] = m
  /\ \A i \in 1 .. Len(queue) : queue'[i] = queue[i]
  /\ \A i \in 1 .. Len(queue') : i \in 1 .. Len(queue) \/ i = Len(queue) + 1

LEMMA CodexQueueGrows ==
  ASSUME CodexTypes, NEW m, CodexSent(m)
  PROVE  CodexGrows(m)
<1>1. queue \in Seq(CodexMessage) /\ m \in CodexMessage /\ queue' = Append(queue, m)
  BY DEF CodexTypes, CodexSent
<1>2. Len(queue') = Len(queue) + 1 /\ queue'[Len(queue) + 1] = m /\ Len(queue) \in Nat
  BY <1>1
<1>3. \A i \in 1 .. Len(queue) : queue'[i] = queue[i]
  BY <1>1
<1> QED
  BY <1>2, <1>3 DEF CodexGrows

LEMMA CodexSentBroken ==
  ASSUME CodexTypes, NEW m, CodexSent(m), CodexBroken \/ (m.from = "stdout" /\ m.is = "io_error")
  PROVE  CodexBroken'
<1>1. CodexGrows(m)
  BY CodexQueueGrows
<1>2. CASE CodexBroken
  <2>1. PICK i \in 1 .. Len(queue) : queue[i].from = "stdout" /\ queue[i].is = "io_error"
    BY <1>2 DEF CodexBroken
  <2>2. i \in 1 .. Len(queue') /\ queue'[i] = queue[i]
    BY <1>1, <2>1 DEF CodexGrows
  <2> QED
    BY <2>1, <2>2 DEF CodexBroken
<1>3. CASE m.from = "stdout" /\ m.is = "io_error"
  <2>1. Len(queue) + 1 \in 1 .. Len(queue') /\ queue'[Len(queue) + 1] = m
    BY <1>1 DEF CodexGrows
  <2> QED
    BY <1>3, <2>1 DEF CodexBroken
<1> QED
  BY <1>2, <1>3

LEMMA CodexSentDrained ==
  ASSUME NEW m, CodexSent(m), CodexDrained
  PROVE  CodexDrained'
BY DEF CodexSent, CodexDrained, Codex!Exited

(* A thread other than the output's sends.                               *)
LEMMA CodexSendErrorFlows ==
  ASSUME CodexTypes, CodexFlow, NEW m, CodexSent(m), m.from # "stdout",
         thread'["stdout"] = thread["stdout"]
  PROVE  CodexFlow'
<1>1. CodexGrows(m)
  BY CodexQueueGrows
<1>2. CodexInOrder'
  <2>1. PICK es : CodexQueued(queue, es)
                    /\ wrote.out = parsed \o (es \o (CodexCarried \o pipe["stdout"]))
    BY DEF CodexFlow, CodexInOrder
  <2>2. CodexCarried' = CodexCarried
    BY DEF CodexCarried, CodexSent
  <2>3. CodexQueued(Append(queue, m), es)
    BY <2>1, QueuedOther DEF CodexTypes, CodexSent, CodexEvent
  <2>4. wrote'.out = parsed' \o (es \o (CodexCarried' \o pipe'["stdout"]))
    BY <2>1, <2>2 DEF CodexSent
  <2>5. CodexQueued(queue', es)
    BY <2>3 DEF CodexSent
  <2> QED
    BY <2>4, <2>5 DEF CodexInOrder
<1>3. CodexClosing'
  <2>1. CodexBroken => CodexBroken'
    BY CodexSentBroken
  <2>2. CodexDrained => CodexDrained'
    BY CodexSentDrained
  <2> QED
    BY <2>1, <2>2 DEF CodexFlow, CodexClosing
<1>4. \A f \in Nat \ {0} : CodexNoMore(f) => CodexNoMore(f)'
  <2> SUFFICES ASSUME NEW f \in Nat \ {0}, CodexNoMore(f), NEW i \in f .. Len(queue')
               PROVE  queue'[i].from # "stdout"
    BY DEF CodexNoMore
  <2>1. i \in 1 .. Len(queue')
    BY <1>1 DEF CodexGrows
  <2>2. CASE i \in 1 .. Len(queue)
    <3>1. i \in f .. Len(queue)
      BY <1>1, <2>2 DEF CodexGrows
    <3> QED
      BY <1>1, <2>2, <3>1 DEF CodexNoMore, CodexGrows
  <2>3. CASE i = Len(queue) + 1
    BY <1>1, <2>3 DEF CodexGrows
  <2> QED
    BY <1>1, <2>1, <2>2, <2>3 DEF CodexGrows
<1>5. CodexClosedLast'
  <2> SUFFICES ASSUME NEW i \in 1 .. Len(queue'), queue'[i].from = "stdout", queue'[i].is = "closed"
               PROVE  thread'["stdout"] = "ended" /\ CodexNoMore(i + 1)'
    BY DEF CodexClosedLast
  <2>1. i \in 1 .. Len(queue) /\ queue'[i] = queue[i] /\ i + 1 \in Nat \ {0}
    BY <1>1 DEF CodexGrows
  <2>2. thread["stdout"] = "ended" /\ CodexNoMore(i + 1)
    BY <2>1 DEF CodexFlow, CodexClosedLast
  <2> QED
    BY <1>4, <2>1, <2>2
<1>6. CodexClosed'
  <2>1. CodexNoMore(1) => CodexNoMore(1)'
    BY <1>4
  <2>2. CodexDrained => CodexDrained'
    BY CodexSentDrained
  <2>3. CodexClosed /\ closed' = closed
    BY DEF CodexFlow, CodexSent
  <2> QED
    BY <2>1, <2>2, <2>3 DEF CodexClosed
<1>7. CodexCarries'
  BY DEF CodexFlow, CodexCarries, CodexSent, Codex!Events
<1> QED
  BY <1>2, <1>3, <1>5, <1>6, <1>7 DEF CodexFlow

(* The thread of the output sends an event.                                *)
LEMMA CodexSendEventFlows ==
  ASSUME CodexAllowed, CodexTypes, CodexFlow, NEW m, CodexSent(m),
         m.from = "stdout", m.is = chunk["stdout"], m.is # "io_error",
         thread["stdout"] = "sending", thread'["stdout"] = "reading"
  PROVE  CodexFlow'
<1> DEFINE S == Codex!Events
           p == pipe["stdout"]
           e == chunk["stdout"]
<1>1. CodexGrows(m)
  BY CodexQueueGrows
<1>2. e \in S /\ m.is \in Codex!Events
  BY DEF CodexFlow, CodexCarries
<1>3. CodexEvent(m) /\ m.is # "closed"
  BY <1>2 DEF CodexEvent, CodexAllowed, Codex!Events
<1>4. CodexInOrder'
  <2>1. PICK es : CodexQueued(queue, es) /\ wrote.out = parsed \o (es \o (CodexCarried \o p))
    BY DEF CodexFlow, CodexInOrder
  <2>2. CodexCarried = <<e>> /\ CodexCarried' = <<>>
    BY DEF CodexCarried
  <2>3. CodexQueued(Append(queue, m), Append(es, m.is))
    BY <1>2, <1>3, <2>1, QueuedEvent DEF CodexTypes, CodexSent
  <2>4. es \in Seq(S) /\ p \in Seq(S)
    BY <2>1 DEF CodexQueued, CodexTypes
  <2>5. m.is = e
    OBVIOUS
  <2> HIDE DEF S, p, e
  <2>6. <<e>> \o p \in Seq(S) /\ <<e>> \o p # <<>> /\ Head(<<e>> \o p) = e /\ Tail(<<e>> \o p) = <<>> \o p
    <3>1. <<e>> \in Seq(S) /\ <<e>> # <<>> /\ Head(<<e>>) = e /\ Tail(<<e>>) = <<>>
      BY <1>2
    <3>2. <<e>> \o p \in Seq(S)
      BY <2>4, <3>1
    <3> QED
      BY <2>4, <3>1, <3>2, HeadOfBoth
  <2>7. es \o (<<e>> \o p) = Append(es, e) \o (<<>> \o p)
    BY <2>4, <2>6, HeadBehind
  <2>8. wrote'.out = parsed' \o (Append(es, m.is) \o (CodexCarried' \o pipe'["stdout"]))
    BY <2>1, <2>2, <2>5, <2>7 DEF CodexSent, p
  <2>9. CodexQueued(queue', Append(es, m.is))
    BY <2>3 DEF CodexSent
  <2> QED
    BY <2>8, <2>9 DEF CodexInOrder
<1>5. CodexClosing'
  BY DEF CodexClosing
<1>6. CodexClosedLast'
  BY <1>1, <1>3 DEF CodexFlow, CodexClosedLast, CodexGrows
<1>7. CodexClosed'
  BY DEF CodexFlow, CodexClosed, CodexSent
<1>8. CodexCarries'
  BY DEF CodexCarries
<1> QED
  BY <1>4, <1>5, <1>6, <1>7, <1>8 DEF CodexFlow

(* It sends that it failed, or that the output is closed.                  *)
LEMMA CodexSendEndFlows ==
  ASSUME CodexTypes, CodexFlow, NEW m, CodexSent(m), m.from = "stdout",
         \/ /\ m.is = "io_error" /\ thread["stdout"] = "sending" /\ chunk["stdout"] = "io_error"
            /\ thread'["stdout"] = "closing"
         \/ m.is = "closed" /\ thread["stdout"] = "closing" /\ thread'["stdout"] = "ended"
  PROVE  CodexFlow'
<1>1. CodexGrows(m)
  BY CodexQueueGrows
<1>2. CodexInOrder'
  <2>1. PICK es : CodexQueued(queue, es)
                    /\ wrote.out = parsed \o (es \o (CodexCarried \o pipe["stdout"]))
    BY DEF CodexFlow, CodexInOrder
  <2>2. CodexCarried' = CodexCarried
    BY DEF CodexCarried, CodexSent
  <2>3. CodexQueued(Append(queue, m), es)
    BY <2>1, QueuedOther DEF CodexTypes, CodexSent, CodexEvent
  <2>4. wrote'.out = parsed' \o (es \o (CodexCarried' \o pipe'["stdout"]))
    BY <2>1, <2>2 DEF CodexSent
  <2>5. CodexQueued(queue', es)
    BY <2>3 DEF CodexSent
  <2> QED
    BY <2>4, <2>5 DEF CodexInOrder
<1>3. CodexClosing'
  <2>1. CodexBroken \/ m.is = "io_error" => CodexBroken'
    BY CodexSentBroken
  <2>2. CodexDrained => CodexDrained'
    BY CodexSentDrained
  <2>3. CASE m.is = "io_error"
    BY <2>1, <2>3 DEF CodexClosing
  <2>4. CASE m.is = "closed" /\ thread["stdout"] = "closing"
    BY <2>1, <2>2, <2>4 DEF CodexFlow, CodexClosing
  <2> QED
    BY <2>3, <2>4
<1>4. CodexClosedLast'
  <2> SUFFICES ASSUME NEW i \in 1 .. Len(queue'), queue'[i].from = "stdout", queue'[i].is = "closed"
               PROVE  thread'["stdout"] = "ended" /\ CodexNoMore(i + 1)'
    BY DEF CodexClosedLast
  <2>1. i = Len(queue) + 1 /\ queue'[i] = m
    BY <1>1 DEF CodexFlow, CodexClosedLast, CodexGrows
  <2>2. m.is = "closed"
    BY <2>1
  <2>3. CodexNoMore(i + 1)'
    BY <1>1, <2>1 DEF CodexNoMore, CodexGrows
  <2> QED
    BY <2>2, <2>3
<1>5. CodexClosed'
  BY DEF CodexFlow, CodexClosed, CodexSent
<1>6. CodexCarries'
  BY DEF CodexCarries
<1> QED
  BY <1>2, <1>3, <1>4, <1>5, <1>6 DEF CodexFlow

LEMMA CodexSendFlows ==
  ASSUME CodexAllowed, CodexTypes, CodexFlow, main = "collecting", NEW r \in Codex!Readers,
         Codex!Send(r)
  PROVE  CodexFlow'
<1> DEFINE m == [from |-> r, is |-> IF thread[r] = "closing" THEN "closed" ELSE chunk[r]]
<1>1. m \in CodexMessage /\ m.from = r /\ m.is = IF thread[r] = "closing" THEN "closed" ELSE chunk[r]
  BY DEF CodexTypes, CodexMessage, CodexSays
<1>2. CodexSent(m)
  BY <1>1 DEF Codex!Send, Codex!Stopped, Codex!caller, Codex!outside, CodexSent
<1>3. /\ thread[r] \in {"sending", "closing"}
      /\ thread' = [thread EXCEPT ![r] =
           IF @ = "closing" THEN "ended" ELSE IF chunk[r] = "io_error" THEN "closing" ELSE "reading"]
  BY DEF Codex!Send
<1> HIDE DEF m
<1>4. CASE r # "stdout"
  <2>1. thread'["stdout"] = thread["stdout"]
    BY <1>3, <1>4 DEF CodexTypes, Codex!Readers
  <2> QED
    BY <1>1, <1>2, <1>4, <2>1, CodexSendErrorFlows
<1>5. CASE r = "stdout"
  <2>1. thread'["stdout"] =
          IF thread["stdout"] = "closing" THEN "ended"
          ELSE IF chunk["stdout"] = "io_error" THEN "closing" ELSE "reading"
    BY <1>3, <1>5 DEF CodexTypes
  <2>2. CASE thread["stdout"] = "sending" /\ chunk["stdout"] # "io_error"
    <3>1. m.from = "stdout" /\ m.is = chunk["stdout"] /\ m.is # "io_error" /\ thread'["stdout"] = "reading"
      BY <1>1, <1>5, <2>1, <2>2
    <3> QED
      BY <1>2, <2>2, <3>1, CodexSendEventFlows
  <2>3. CASE thread["stdout"] = "closing" \/ chunk["stdout"] = "io_error"
    <3>1. /\ m.from = "stdout"
          /\ \/ /\ m.is = "io_error" /\ thread["stdout"] = "sending" /\ chunk["stdout"] = "io_error"
                /\ thread'["stdout"] = "closing"
             \/ m.is = "closed" /\ thread["stdout"] = "closing" /\ thread'["stdout"] = "ended"
      BY <1>1, <1>3, <1>5, <2>1, <2>3
    <3> QED
      BY <1>2, <3>1, CodexSendEndFlows
  <2> QED
    BY <1>3, <1>5, <2>2, <2>3
<1> QED
  BY <1>4, <1>5

(* A message is taken.                                                     *)
CodexTaken(m) ==
  /\ queue # <<>> /\ m = Head(queue) /\ queue' = Tail(queue)
  /\ wrote' = wrote /\ pipe' = pipe /\ process' = process /\ held' = held
  /\ thread' = thread /\ chunk' = chunk /\ m.is # "io_error"
  /\ parsed' = (IF CodexEvent(m) THEN Append(parsed, m.is) ELSE parsed)
  /\ closed' = (IF m.is = "closed" THEN closed \cup {m.from} ELSE closed)

CodexShrinks(m) ==
  /\ Len(queue) \in Nat \ {0} /\ queue[1] = m /\ Len(queue') = Len(queue) - 1
  /\ \A i \in 1 .. Len(queue) - 1 : queue'[i] = queue[i + 1] /\ i + 1 \in 1 .. Len(queue)

LEMMA CodexQueueShrinks ==
  ASSUME CodexTypes, NEW m, CodexTaken(m)
  PROVE  CodexShrinks(m)
<1>1. queue \in Seq(CodexMessage) /\ queue # <<>> /\ m = Head(queue) /\ queue' = Tail(queue)
  BY DEF CodexTypes, CodexTaken
<1>2. Len(queue) \in Nat \ {0} /\ queue[1] = m /\ Len(queue') = Len(queue) - 1
  BY <1>1
<1>3. \A i \in 1 .. Len(queue) - 1 : queue'[i] = queue[i + 1]
  BY <1>1
<1> QED
  BY <1>2, <1>3 DEF CodexShrinks

LEMMA CodexTakenBroken ==
  ASSUME CodexTypes, NEW m, CodexTaken(m), CodexBroken
  PROVE  CodexBroken'
<1>1. CodexShrinks(m)
  BY CodexQueueShrinks
<1>2. PICK i \in 1 .. Len(queue) : queue[i].from = "stdout" /\ queue[i].is = "io_error"
  BY DEF CodexBroken
<1>3. i # 1
  BY <1>1, <1>2 DEF CodexShrinks, CodexTaken
<1> DEFINE j == i - 1
<1>4. j \in 1 .. Len(queue) - 1 /\ j + 1 = i
  BY <1>1, <1>3 DEF CodexShrinks
<1> HIDE DEF j
<1>5. queue'[j] = queue[i] /\ j \in 1 .. Len(queue')
  BY <1>1, <1>4 DEF CodexShrinks
<1> QED
  BY <1>2, <1>5 DEF CodexBroken

LEMMA CodexTakenNoMore ==
  ASSUME CodexTypes, NEW m, CodexTaken(m), NEW f \in Nat \ {0}, CodexNoMore(f + 1)
  PROVE  CodexNoMore(f)'
<1>1. CodexShrinks(m)
  BY CodexQueueShrinks
<1> SUFFICES ASSUME NEW i \in f .. Len(queue') PROVE queue'[i].from # "stdout"
  BY DEF CodexNoMore
<1>2. i \in 1 .. Len(queue) - 1 /\ i + 1 \in f + 1 .. Len(queue)
  BY <1>1 DEF CodexShrinks
<1> QED
  BY <1>1, <1>2 DEF CodexShrinks, CodexNoMore

LEMMA CodexTakenInOrder ==
  ASSUME CodexTypes, CodexFlow, NEW m, CodexTaken(m)
  PROVE  CodexInOrder'
<1> DEFINE S == Codex!Events
           r == CodexCarried \o pipe["stdout"]
<1>1. PICK es : CodexQueued(queue, es) /\ wrote.out = parsed \o (es \o r)
  BY DEF CodexFlow, CodexInOrder
<1>2. queue \in Seq(CodexMessage) /\ queue # <<>> /\ m = Head(queue) /\ queue' = Tail(queue)
  BY DEF CodexTypes, CodexTaken
<1>3. r \in Seq(S) /\ parsed \in Seq(S) /\ es \in Seq(S)
  <2>1. CodexCarried \in Seq(S)
    BY DEF CodexFlow, CodexCarries, CodexCarried
  <2>2. pipe["stdout"] \in Seq(S)
    BY DEF CodexTypes
  <2> QED
    BY <1>1, <2>1, <2>2 DEF CodexTypes, CodexQueued
<1>4. CodexCarried' \o pipe'["stdout"] = r
  <2>1. CodexCarried' = CodexCarried /\ pipe' = pipe
    BY DEF CodexCarried, CodexTaken
  <2> QED
    BY <2>1
<1>5. wrote'.out = wrote.out
  BY DEF CodexTaken
<1> HIDE DEF S, r
<1>6. CASE CodexEvent(m)
  <2>1. es # <<>> /\ Head(es) = m.is /\ CodexQueued(queue', Tail(es))
    BY <1>1, <1>2, <1>6, QueuedHead
  <2>2. parsed' = Append(parsed, Head(es))
    BY <1>6, <2>1 DEF CodexTaken
  <2>3. es \o r # <<>> /\ Head(es \o r) = Head(es) /\ Tail(es \o r) = Tail(es) \o r
    BY <1>3, <2>1, HeadOfBoth
  <2>4. es \o r \in Seq(S)
    BY <1>3
  <2>5. parsed \o (es \o r) = Append(parsed, Head(es \o r)) \o Tail(es \o r)
    BY <1>3, <2>3, <2>4, HeadBehind
  <2>6. wrote'.out = parsed' \o (Tail(es) \o (CodexCarried' \o pipe'["stdout"]))
    BY <1>1, <1>4, <1>5, <2>2, <2>3, <2>5
  <2> QED
    BY <2>1, <2>6 DEF CodexInOrder
<1>7. CASE ~CodexEvent(m)
  <2>1. CodexQueued(queue', es)
    BY <1>1, <1>2, <1>7, QueuedHead
  <2>2. wrote'.out = parsed' \o (es \o (CodexCarried' \o pipe'["stdout"]))
    BY <1>1, <1>4, <1>5, <1>7 DEF CodexTaken
  <2> QED
    BY <2>1, <2>2 DEF CodexInOrder
<1> QED
  BY <1>6, <1>7

LEMMA CodexTakenFlows ==
  ASSUME CodexTypes, CodexFlow, NEW m, CodexTaken(m)
  PROVE  CodexFlow'
<1>1. CodexShrinks(m)
  BY CodexQueueShrinks
<1>2. CodexInOrder'
  BY CodexTakenInOrder
<1>3. CodexDrained => CodexDrained'
  BY DEF CodexTaken, CodexDrained, Codex!Exited
<1>4. CodexClosing'
  <2>1. CodexBroken => CodexBroken'
    BY CodexTakenBroken
  <2>2. thread' = thread /\ CodexClosing
    BY DEF CodexFlow, CodexTaken
  <2> QED
    BY <1>3, <2>1, <2>2 DEF CodexClosing
<1>5. CodexClosedLast'
  <2> SUFFICES ASSUME NEW i \in 1 .. Len(queue'), queue'[i].from = "stdout", queue'[i].is = "closed"
               PROVE  thread'["stdout"] = "ended" /\ CodexNoMore(i + 1)'
    BY DEF CodexClosedLast
  <2>1. /\ i + 1 \in 1 .. Len(queue) /\ queue'[i] = queue[i + 1] /\ i + 1 \in Nat \ {0}
    BY <1>1 DEF CodexShrinks
  <2>2. thread["stdout"] = "ended" /\ CodexNoMore((i + 1) + 1)
    BY <2>1 DEF CodexFlow, CodexClosedLast
  <2>3. CodexNoMore(i + 1)'
    BY <2>1, <2>2, CodexTakenNoMore
  <2> QED
    BY <2>2, <2>3 DEF CodexTaken
<1>6. CodexClosed'
  <2>1. CASE "stdout" \in closed
    <3>1. CodexDrained' /\ thread["stdout"] = "ended" /\ CodexNoMore(1)
      BY <1>3, <2>1 DEF CodexFlow, CodexClosed
    <3>2. CodexNoMore(1 + 1)
      BY <3>1 DEF CodexNoMore
    <3>3. CodexNoMore(1)'
      BY <3>2, CodexTakenNoMore
    <3>4. thread'["stdout"] = "ended"
      BY <3>1 DEF CodexTaken
    <3> QED
      BY <3>1, <3>3, <3>4 DEF CodexClosed
  <2>2. CASE m.from = "stdout" /\ m.is = "closed"
    <3>1. thread["stdout"] = "ended" /\ CodexNoMore(1 + 1)
      BY <1>1, <2>2 DEF CodexFlow, CodexClosedLast, CodexShrinks
    <3>2. CodexNoMore(1)'
      BY <3>1, CodexTakenNoMore
    <3>3. ~CodexBroken
      <4> SUFFICES ASSUME NEW i \in 1 .. Len(queue), queue[i].from = "stdout", queue[i].is = "io_error"
                   PROVE  FALSE
        BY DEF CodexBroken
      <4>1. i # 1
        BY <1>1, <2>2 DEF CodexShrinks
      <4>2. i \in 1 + 1 .. Len(queue)
        BY <1>1, <4>1 DEF CodexShrinks
      <4> QED
        BY <3>1, <4>2 DEF CodexNoMore
    <3>4. CodexDrained'
      BY <1>3, <3>1, <3>3 DEF CodexFlow, CodexClosing
    <3>5. thread'["stdout"] = "ended"
      BY <3>1 DEF CodexTaken
    <3> QED
      BY <3>2, <3>4, <3>5 DEF CodexClosed
  <2>3. CASE "stdout" \notin closed /\ ~(m.from = "stdout" /\ m.is = "closed")
    BY <2>3 DEF CodexTaken, CodexClosed
  <2> QED
    BY <2>1, <2>2, <2>3
<1>7. CodexCarries'
  BY DEF CodexFlow, CodexCarries, CodexTaken, Codex!Events
<1> QED
  BY <1>2, <1>4, <1>5, <1>6, <1>7 DEF CodexFlow

LEMMA CodexGetTakes ==
  ASSUME CodexTypes, Codex!GetMessage, main' = "collecting"
  PROVE  CodexTaken(Head(queue))
<1> DEFINE m == Head(queue)
<1>1. queue # <<>> /\ queue' = Tail(queue)
  BY DEF Codex!GetMessage
<1> HIDE DEF m
<1>3. CASE m.is = "closed"
  <2>1. /\ closed' = closed \cup {m.from} /\ parsed' = parsed /\ wrote' = wrote /\ pipe' = pipe
        /\ process' = process /\ held' = held /\ thread' = thread /\ chunk' = chunk
    BY <1>3 DEF Codex!GetMessage, Codex!outside, Codex!threads, m
  <2> QED
    BY <1>1, <1>3, <2>1 DEF CodexTaken, CodexEvent, m
<1>4. CASE m.is # "closed"
  <2>1. /\ held' = held /\ pipe' = pipe /\ wrote' = wrote /\ thread' = thread /\ chunk' = chunk
        /\ closed' = closed
    BY <1>4 DEF Codex!GetMessage, Codex!threads, m
  <2>2. /\ process' = process /\ m.is # "io_error"
        /\ (m.from = "stdout" => Codex!Legal(m.is))
    BY <1>4 DEF Codex!GetMessage, m
  <2>3. parsed' = IF m.from = "stdout" /\ Codex!Legal(m.is) /\ m.is # "io_error"
                  THEN Append(parsed, m.is) ELSE parsed
    BY <1>4 DEF Codex!GetMessage, m
  <2>4. parsed' = IF CodexEvent(m) THEN Append(parsed, m.is) ELSE parsed
    BY <1>4, <2>2, <2>3 DEF CodexEvent
  <2> QED
    BY <1>1, <1>4, <2>1, <2>2, <2>4 DEF CodexTaken, m
<1> QED
  BY <1>3, <1>4 DEF m

-----------------------------------------------------------------------------
(* What has been received, and what the call comes to.                     *)
LEMMA CodexEventTyped ==
  ASSUME CodexTypes, CodexFlow, queue # <<>>, CodexEvent(Head(queue))
  PROVE  Head(queue).is \in Codex!Events
<1>1. PICK es : CodexQueued(queue, es)
  BY DEF CodexFlow, CodexInOrder
<1>2. es # <<>> /\ Head(es) = Head(queue).is
  BY <1>1, QueuedHead DEF CodexTypes
<1>3. es \in Seq(Codex!Events)
  BY <1>1 DEF CodexQueued
<1> QED
  BY <1>2, <1>3

(* Of the messages of the caller only events are parsed.                   *)
LEMMA CodexParsed ==
  ASSUME Codex!Next
  PROVE  \/ parsed' = parsed
         \/ /\ main = "collecting" /\ queue # <<>> /\ CodexEvent(Head(queue))
            /\ Codex!Legal(Head(queue).is) /\ parsed' = Append(parsed, Head(queue).is)
<1>1. CASE Codex!GetMessage
  <2> DEFINE m == Head(queue)
  <2>1. m.is = "closed" => parsed' = parsed
    BY <1>1 DEF Codex!GetMessage
  <2>2. m.is # "closed" =>
          parsed' = IF m.from = "stdout" /\ Codex!Legal(m.is) /\ m.is # "io_error"
                    THEN Append(parsed, m.is) ELSE parsed
    BY <1>1 DEF Codex!GetMessage
  <2>3. main = "collecting" /\ queue # <<>>
    BY <1>1 DEF Codex!GetMessage, Codex!Collecting
  <2> QED
    BY <2>1, <2>2, <2>3 DEF CodexEvent
<1>2. CASE Codex!Process
  BY <1>2 DEF Codex!Process, Codex!WriteEvent, Codex!WriteError, Codex!ReadPrompt, Codex!Exit,
              Codex!caller
<1>3. ASSUME NEW r \in Codex!Readers,
             Codex!ReadChunk(r) \/ Codex!ReadEnds(r) \/ Codex!Send(r) \/ Codex!ReadFails(r)
      PROVE  parsed' = parsed
  BY <1>3 DEF Codex!ReadChunk, Codex!ReadEnds, Codex!Send, Codex!ReadFails, Codex!caller
<1>4. CASE Codex!Writer \/ Codex!WriteFails \/ Codex!Deadline
  BY <1>4, CodexWrites DEF CodexAside
<1>5. CASE Codex!Timeout \/ Codex!Interrupt \/ Codex!Finish
  BY <1>5 DEF Codex!Timeout, Codex!Interrupt, Codex!Finish
<1> QED
  BY <1>1, <1>2, <1>3, <1>4, <1>5 DEF Codex!Next

LEMMA CodexTurns ==
  ASSUME CodexInv, Codex!Next
  PROVE  CodexTurn'
<1>1. CASE parsed' = parsed
  BY <1>1 DEF CodexInv, CodexTurn, Codex!Range, Codex!Last
<1>2. CASE /\ main = "collecting" /\ queue # <<>> /\ CodexEvent(Head(queue))
           /\ Codex!Legal(Head(queue).is) /\ parsed' = Append(parsed, Head(queue).is)
  <2> DEFINE e == Head(queue).is
  <2>1. parsed \in Seq(Codex!Events) /\ e \in Codex!Events
    BY <1>2, CodexEventTyped DEF CodexInv, CodexTypes
  <2>2. \A i \in 1 .. Len(parsed) : parsed[i] # "turn.completed"
    BY <1>2, <2>1 DEF Codex!Legal, Codex!Range
  <2>3. parsed' = Append(parsed, e)
    BY <1>2
  <2> HIDE DEF e
  <2>4. /\ Len(parsed') = Len(parsed) + 1 /\ parsed'[Len(parsed')] = e /\ Len(parsed) \in Nat
        /\ \A i \in 1 .. Len(parsed) : parsed'[i] = parsed[i]
    BY <2>1, <2>3
  <2>5. ASSUME "turn.completed" \in Codex!Range(parsed') PROVE e = "turn.completed"
    <3>1. DOMAIN (parsed') = 1 .. Len(parsed')
      BY <2>1, <2>3
    <3>2. PICK i \in 1 .. Len(parsed') : parsed'[i] = "turn.completed"
      BY <2>5, <3>1 DEF Codex!Range
    <3>3. i \notin 1 .. Len(parsed)
      BY <2>2, <2>4, <3>2
    <3>4. i = Len(parsed')
      BY <2>4, <3>2, <3>3
    <3> QED
      BY <2>4, <3>2, <3>4
  <2> QED
    BY <2>4, <2>5 DEF CodexTurn, Codex!Range, Codex!Last
<1> QED
  BY <1>1, <1>2, CodexParsed

(* Once the call is over its account stands.                               *)
CodexStands ==
  process' = process /\ parsed' = parsed /\ wrote' = wrote /\ result' = result /\ main' = main

LEMMA CodexOver ==
  ASSUME main # "collecting", Codex!Exited, Codex!Next
  PROVE  CodexStands
<1>1. CASE Codex!Process
  BY <1>1 DEF Codex!Process, Codex!WriteEvent, Codex!WriteError, Codex!ReadPrompt, Codex!Exit,
              Codex!Alive, Codex!Exited
<1>2. ASSUME NEW r \in Codex!Readers,
             Codex!ReadChunk(r) \/ Codex!ReadEnds(r) \/ Codex!Send(r) \/ Codex!ReadFails(r)
      PROVE  CodexStands
  BY <1>2 DEF Codex!ReadChunk, Codex!ReadEnds, Codex!Send, Codex!ReadFails, Codex!caller,
              Codex!outside, CodexStands
<1>3. CASE Codex!Writer \/ Codex!WriteFails \/ Codex!Deadline
  BY <1>3, CodexWrites DEF CodexAside, CodexStands
<1>4. CASE Codex!Timeout \/ Codex!GetMessage \/ Codex!Finish \/ Codex!Interrupt
  BY <1>4 DEF Codex!Timeout, Codex!GetMessage, Codex!Collecting, Codex!Finish, Codex!Interrupt
<1> QED
  BY <1>1, <1>2, <1>3, <1>4 DEF Codex!Next

(* No step ends the call and leaves the process.                           *)
LEMMA CodexExits ==
  ASSUME CodexInv, Codex!Next, main' # "collecting"
  PROVE  Codex!Exited'
<1>1. CASE main # "collecting"
  <2>1. Codex!Exited /\ process' = process
    BY <1>1, CodexOver DEF CodexInv, CodexStands
  <2> QED
    BY <2>1 DEF Codex!Exited
<1>2. CASE main = "collecting"
  <2>1. CASE Codex!Process
    BY <1>2, <2>1 DEF Codex!Process, Codex!WriteEvent, Codex!WriteError, Codex!ReadPrompt,
                      Codex!Exit, Codex!caller
  <2>2. ASSUME NEW r \in Codex!Readers,
               Codex!ReadChunk(r) \/ Codex!ReadEnds(r) \/ Codex!Send(r) \/ Codex!ReadFails(r)
        PROVE  FALSE
    BY <1>2, <2>2 DEF Codex!ReadChunk, Codex!ReadEnds, Codex!Send, Codex!ReadFails, Codex!caller
  <2>3. CASE Codex!Writer \/ Codex!WriteFails \/ Codex!Deadline
    BY <1>2, <2>3, CodexWrites DEF CodexAside
  <2>4. Codex!Terminate => Codex!Exited'
    BY DEF Codex!Terminate, Codex!Exited
  <2>5. CASE Codex!Timeout \/ Codex!Interrupt
    BY <2>4, <2>5 DEF Codex!Timeout, Codex!Interrupt, Codex!Raise
  <2>6. CASE Codex!GetMessage
    <3>1. Codex!Terminate
      BY <1>2, <2>6 DEF Codex!GetMessage
    <3> QED
      BY <2>4, <3>1
  <2>7. CASE Codex!Finish
    <3>1. Codex!Terminate \/ (Codex!Exited /\ process' = process)
      BY <2>7 DEF Codex!Finish, Codex!Raise, Codex!outside
    <3> QED
      BY <2>4, <3>1 DEF Codex!Exited
  <2> QED
    BY <2>1, <2>2, <2>3, <2>5, <2>6, <2>7 DEF Codex!Next
<1> QED
  BY <1>1, <1>2

-----------------------------------------------------------------------------
(* The types.                                                              *)
CodexProcessTypes == process \in {"running", "done", "failed", "killed"} /\ held \in BOOLEAN
CodexPipeTypes ==
  /\ pipe \in [Codex!Readers -> Seq(CodexSays)] /\ pipe["stdout"] \in Seq(Codex!Events)
  /\ wrote \in [out : Seq(Codex!Events), err : Nat]
CodexThreadTypes ==
  /\ thread \in [Codex!Readers -> {"reading", "sending", "closing", "ended"}]
  /\ chunk \in [Codex!Readers -> CodexSays]
CodexCallerTypes ==
  /\ main \in {"collecting", "returned", "raised"} /\ closed \subseteq Codex!Readers
  /\ parsed \in Seq(Codex!Events)

LEMMA CodexTypesParts ==
  CodexTypes <=> /\ CodexProcessTypes /\ CodexPipeTypes /\ CodexThreadTypes /\ CodexCallerTypes
                 /\ queue \in Seq(CodexMessage)
BY DEF CodexTypes, CodexProcessTypes, CodexPipeTypes, CodexThreadTypes, CodexCallerTypes

LEMMA CodexProcessTyped ==
  ASSUME CodexTypes, Codex!Next
  PROVE  CodexProcessTypes'
<1> USE DEF CodexTypes, CodexProcessTypes
<1>1. CASE Codex!Process
  BY <1>1 DEF Codex!Process, Codex!WriteEvent, Codex!WriteError, Codex!ReadPrompt, Codex!Exit
<1>2. ASSUME NEW r \in Codex!Readers,
             Codex!ReadChunk(r) \/ Codex!ReadEnds(r) \/ Codex!Send(r) \/ Codex!ReadFails(r)
      PROVE  CodexProcessTypes'
  BY <1>2 DEF Codex!ReadChunk, Codex!ReadEnds, Codex!Send, Codex!ReadFails, Codex!outside
<1>3. CASE Codex!Writer \/ Codex!WriteFails \/ Codex!Deadline
  BY <1>3, CodexWrites DEF CodexAside
<1>4. Codex!Terminate => process' \in {"running", "done", "failed", "killed"}
  BY DEF Codex!Terminate
<1>5. CASE Codex!Timeout \/ Codex!Interrupt \/ Codex!Finish
  <2>1. held' = held /\ (Codex!Terminate \/ process' = process)
    BY <1>5 DEF Codex!Timeout, Codex!Interrupt, Codex!Finish, Codex!Raise, Codex!outside
  <2> QED
    BY <1>4, <2>1
<1>6. CASE Codex!GetMessage
  <2>1. held' = held /\ (Codex!Terminate \/ process' = process)
    BY <1>6 DEF Codex!GetMessage, Codex!outside
  <2> QED
    BY <1>4, <2>1
<1> QED
  BY <1>1, <1>2, <1>3, <1>5, <1>6 DEF Codex!Next

LEMMA CodexPipeTyped ==
  ASSUME CodexTypes, Codex!Next
  PROVE  CodexPipeTypes'
<1>0. /\ pipe \in [Codex!Readers -> Seq(CodexSays)] /\ pipe["stdout"] \in Seq(Codex!Events)
      /\ wrote \in [out : Seq(Codex!Events), err : Nat]
  BY DEF CodexTypes
<1>1. ASSUME NEW e \in Codex!Events, Codex!WriteEvent(e) PROVE CodexPipeTypes'
  <2>1. pipe' = [pipe EXCEPT !["stdout"] = Append(pipe["stdout"], e)]
    BY <1>1 DEF Codex!WriteEvent, Codex!Write
  <2>2. wrote' = [wrote EXCEPT !.out = Append(wrote.out, e)]
    BY <1>1 DEF Codex!WriteEvent
  <2>3. Append(pipe["stdout"], e) \in Seq(Codex!Events) /\ Append(wrote.out, e) \in Seq(Codex!Events)
    BY <1>0
  <2>4. Append(pipe["stdout"], e) \in Seq(CodexSays)
    BY <1>0 DEF CodexSays, Codex!Readers
  <2> QED
    BY <1>0, <2>1, <2>2, <2>3, <2>4 DEF CodexPipeTypes, Codex!Readers
<1>2. CASE Codex!WriteError
  <2>1. pipe' = [pipe EXCEPT !["stderr"] = Append(pipe["stderr"], "chunk")]
    BY <1>2 DEF Codex!WriteError, Codex!Write
  <2>2. wrote' = [wrote EXCEPT !.err = wrote.err + 1]
    BY <1>2 DEF Codex!WriteError
  <2>3. Append(pipe["stderr"], "chunk") \in Seq(CodexSays)
    BY <1>0 DEF CodexSays, Codex!Readers
  <2> QED
    BY <1>0, <2>1, <2>2, <2>3 DEF CodexPipeTypes, Codex!Readers
<1>3. ASSUME NEW r \in Codex!Readers, Codex!ReadChunk(r) PROVE CodexPipeTypes'
  <2>1. pipe' = [pipe EXCEPT ![r] = Tail(pipe[r])] /\ wrote' = wrote /\ pipe[r] # <<>>
    BY <1>3 DEF Codex!ReadChunk
  <2>2. Tail(pipe[r]) \in Seq(CodexSays)
    BY <1>0, <2>1
  <2>3. r = "stdout" => Tail(pipe[r]) \in Seq(Codex!Events)
    BY <1>0, <2>1
  <2> QED
    BY <1>0, <2>1, <2>2, <2>3 DEF CodexPipeTypes, Codex!Readers
<1>4. pipe' = pipe /\ wrote' = wrote => CodexPipeTypes'
  BY <1>0 DEF CodexPipeTypes
<1>5. CASE Codex!ReadPrompt \/ Codex!Exit("done") \/ Codex!Exit("failed")
  BY <1>4, <1>5 DEF Codex!ReadPrompt, Codex!Exit
<1>6. ASSUME NEW r \in Codex!Readers, Codex!ReadEnds(r) \/ Codex!Send(r) \/ Codex!ReadFails(r)
      PROVE  CodexPipeTypes'
  BY <1>4, <1>6 DEF Codex!ReadEnds, Codex!Send, Codex!ReadFails, Codex!outside
<1>7. CASE Codex!Writer \/ Codex!WriteFails \/ Codex!Deadline
  BY <1>4, <1>7, CodexWrites DEF CodexAside
<1>8. CASE Codex!Timeout \/ Codex!Interrupt \/ Codex!Finish
  BY <1>4, <1>8 DEF Codex!Timeout, Codex!Interrupt, Codex!Finish, Codex!Raise, Codex!outside
<1>9. CASE Codex!GetMessage
  BY <1>4, <1>9 DEF Codex!GetMessage, Codex!outside
<1> QED
  BY <1>1, <1>2, <1>3, <1>5, <1>6, <1>7, <1>8, <1>9 DEF Codex!Next, Codex!Process

LEMMA CodexThreadTyped ==
  ASSUME CodexTypes, Codex!Next
  PROVE  CodexThreadTypes'
<1>0. /\ thread \in [Codex!Readers -> {"reading", "sending", "closing", "ended"}]
      /\ chunk \in [Codex!Readers -> CodexSays]
  BY DEF CodexTypes
<1>1. ASSUME NEW r \in Codex!Readers, Codex!ReadChunk(r) PROVE CodexThreadTypes'
  <2>1. Head(pipe[r]) \in CodexSays
    BY <1>1 DEF Codex!ReadChunk, CodexTypes
  <2>2. chunk' = [chunk EXCEPT ![r] = Head(pipe[r])] /\ thread' = [thread EXCEPT ![r] = "sending"]
    BY <1>1 DEF Codex!ReadChunk
  <2> QED
    BY <1>0, <2>1, <2>2 DEF CodexThreadTypes
<1>2. ASSUME NEW r \in Codex!Readers, Codex!ReadEnds(r) \/ Codex!ReadFails(r)
      PROVE  CodexThreadTypes'
  BY <1>0, <1>2 DEF CodexThreadTypes, Codex!ReadEnds, Codex!ReadFails, CodexSays
<1>3. ASSUME NEW r \in Codex!Readers, Codex!Send(r) PROVE CodexThreadTypes'
  BY <1>0, <1>3 DEF CodexThreadTypes, Codex!Send
<1>4. thread' = thread /\ chunk' = chunk => CodexThreadTypes'
  BY <1>0 DEF CodexThreadTypes
<1>5. CASE Codex!Process
  BY <1>4, <1>5 DEF Codex!Process, Codex!WriteEvent, Codex!WriteError, Codex!ReadPrompt,
                    Codex!Exit, Codex!threads
<1>6. CASE Codex!Writer \/ Codex!WriteFails \/ Codex!Deadline
  BY <1>4, <1>6, CodexWrites DEF CodexAside
<1>7. CASE Codex!Timeout \/ Codex!Interrupt \/ Codex!Finish
  BY <1>4, <1>7 DEF Codex!Timeout, Codex!Interrupt, Codex!Finish, Codex!Raise, Codex!threads
<1>8. CASE Codex!GetMessage
  BY <1>4, <1>8 DEF Codex!GetMessage, Codex!threads
<1> QED
  BY <1>1, <1>2, <1>3, <1>5, <1>6, <1>7, <1>8 DEF Codex!Next

LEMMA CodexCallerTyped ==
  ASSUME CodexInv, Codex!Next
  PROVE  CodexCallerTypes'
<1>0. CodexTypes /\ parsed \in Seq(Codex!Events) /\ closed \subseteq Codex!Readers
      /\ main \in {"collecting", "returned", "raised"}
  BY DEF CodexInv, CodexTypes
<1>1. parsed' \in Seq(Codex!Events)
  <2>1. CASE parsed' = parsed
    BY <1>0, <2>1
  <2>2. CASE /\ main = "collecting" /\ queue # <<>> /\ CodexEvent(Head(queue))
             /\ Codex!Legal(Head(queue).is) /\ parsed' = Append(parsed, Head(queue).is)
    <3>1. Head(queue).is \in Codex!Events
      BY <2>2, CodexEventTyped DEF CodexInv
    <3> QED
      BY <1>0, <2>2, <3>1
  <2> QED
    BY <2>1, <2>2, CodexParsed
<1>2. closed' \subseteq Codex!Readers /\ main' \in {"collecting", "returned", "raised"}
  <2>1. CASE Codex!Process
    BY <1>0, <2>1 DEF Codex!Process, Codex!WriteEvent, Codex!WriteError, Codex!ReadPrompt,
                      Codex!Exit, Codex!caller
  <2>2. ASSUME NEW r \in Codex!Readers,
               Codex!ReadChunk(r) \/ Codex!ReadEnds(r) \/ Codex!Send(r) \/ Codex!ReadFails(r)
        PROVE  closed' = closed /\ main' = main
    BY <2>2 DEF Codex!ReadChunk, Codex!ReadEnds, Codex!Send, Codex!ReadFails, Codex!caller
  <2>3. CASE Codex!Writer \/ Codex!WriteFails \/ Codex!Deadline
    BY <1>0, <2>3, CodexWrites DEF CodexAside
  <2>4. CASE Codex!Timeout \/ Codex!Interrupt \/ Codex!Finish
    BY <1>0, <2>4 DEF Codex!Timeout, Codex!Interrupt, Codex!Finish, Codex!Raise
  <2>5. CASE Codex!GetMessage
    <3>1. Head(queue) \in CodexMessage
      BY <1>0, <2>5 DEF Codex!GetMessage, CodexTypes
    <3>2. Head(queue).is = "closed" => Head(queue).from \in Codex!Readers
      BY <3>1 DEF CodexMessage
    <3>3. closed' = closed \/ (Head(queue).is = "closed" /\ closed' = closed \cup {Head(queue).from})
      BY <2>5 DEF Codex!GetMessage
    <3>4. main' = main \/ main' = "raised"
      BY <2>5 DEF Codex!GetMessage
    <3> QED
      BY <1>0, <3>2, <3>3, <3>4
  <2> QED
    BY <1>0, <2>1, <2>2, <2>3, <2>4, <2>5 DEF Codex!Next
<1> QED
  BY <1>1, <1>2 DEF CodexCallerTypes

LEMMA CodexQueueTyped ==
  ASSUME CodexTypes, Codex!Next
  PROVE  queue' \in Seq(CodexMessage)
<1>0. queue \in Seq(CodexMessage)
  BY DEF CodexTypes
<1>1. ASSUME NEW r \in Codex!Readers, Codex!Send(r) PROVE queue' \in Seq(CodexMessage)
  <2> DEFINE m == [from |-> r, is |-> IF thread[r] = "closing" THEN "closed" ELSE chunk[r]]
  <2>1. m \in CodexMessage
    BY DEF CodexTypes, CodexMessage, CodexSays
  <2>2. queue' = queue \/ queue' = Append(queue, m)
    BY <1>1 DEF Codex!Send
  <2> HIDE DEF m
  <2> QED
    BY <1>0, <2>1, <2>2
<1>2. CASE Codex!GetMessage
  <2>1. queue # <<>> /\ queue' = Tail(queue)
    BY <1>2 DEF Codex!GetMessage
  <2> QED
    BY <1>0, <2>1
<1>3. CASE Codex!Process
  BY <1>0, <1>3 DEF Codex!Process, Codex!WriteEvent, Codex!WriteError, Codex!ReadPrompt, Codex!Exit
<1>4. ASSUME NEW r \in Codex!Readers, Codex!ReadChunk(r) \/ Codex!ReadEnds(r) \/ Codex!ReadFails(r)
      PROVE  queue' = queue
  BY <1>4 DEF Codex!ReadChunk, Codex!ReadEnds, Codex!ReadFails
<1>5. CASE Codex!WritePrompt \/ Codex!WriterEnds \/ Codex!WriteFails \/ Codex!Deadline
  BY <1>0, <1>5 DEF Codex!WritePrompt, Codex!WriterEnds, Codex!WriteFails, Codex!Deadline
<1>6. CASE Codex!WriterSends
  <2> DEFINE m == [from |-> "stdin", is |-> "io_error"]
  <2>1. m \in CodexMessage
    BY DEF CodexMessage
  <2>2. queue' = queue \/ queue' = Append(queue, m)
    BY <1>6 DEF Codex!WriterSends
  <2> HIDE DEF m
  <2> QED
    BY <1>0, <2>1, <2>2
<1>7. CASE Codex!Timeout \/ Codex!Interrupt \/ Codex!Finish
  BY <1>0, <1>7 DEF Codex!Timeout, Codex!Interrupt, Codex!Finish, Codex!Raise
<1> QED
  BY <1>0, <1>1, <1>2, <1>3, <1>4, <1>5, <1>6, <1>7 DEF Codex!Next, Codex!Writer

-----------------------------------------------------------------------------
(* The invariant.                                                          *)
LEMMA CodexFlows ==
  ASSUME CodexAllowed, CodexTypes, CodexFlow, main = "collecting", Codex!Next, main' = "collecting"
  PROVE  CodexFlow'
<1>1. ASSUME NEW e \in Codex!Events, Codex!WriteEvent(e) PROVE CodexFlow'
  BY <1>1, CodexWriteFlows
<1>2. CASE Codex!WriteError
  <2>1. pipe'["stdout"] = pipe["stdout"]
    BY <1>2 DEF Codex!WriteError, Codex!Write, CodexTypes, Codex!Readers
  <2>2. wrote'.out = wrote.out
    BY <1>2 DEF Codex!WriteError, CodexTypes
  <2>3. CodexStill
    BY <1>2, <2>1, <2>2 DEF Codex!WriteError, Codex!threads, Codex!caller, CodexStill, Codex!Exited
  <2> QED
    BY <2>3, CodexFlowStill
<1>3. CASE Codex!ReadPrompt
  <2>1. CodexStill
    BY <1>3 DEF Codex!ReadPrompt, Codex!threads, Codex!caller, CodexStill, Codex!Exited
  <2> QED
    BY <2>1, CodexFlowStill
<1>4. ASSUME NEW status \in {"done", "failed"}, Codex!Exit(status) PROVE CodexFlow'
  <2>1. CodexStill
    BY <1>4 DEF Codex!Exit, Codex!Alive, Codex!threads, Codex!caller, CodexStill, Codex!Exited
  <2> QED
    BY <2>1, CodexFlowStill
<1>5. CASE Codex!Process
  BY <1>1, <1>2, <1>3, <1>4, <1>5 DEF Codex!Process
<1>6. ASSUME NEW r \in Codex!Readers, Codex!Send(r) PROVE CodexFlow'
  BY <1>6, CodexSendFlows
<1>7. ASSUME Codex!ReadChunk("stdout") \/ Codex!ReadEnds("stdout") \/ Codex!ReadFails("stdout")
      PROVE  CodexFlow'
  BY <1>7, CodexReadFlows, CodexEndFlows
<1>8. ASSUME Codex!ReadChunk("stderr") \/ Codex!ReadEnds("stderr") \/ Codex!ReadFails("stderr")
      PROVE  CodexFlow'
  <2>1. CASE Codex!ReadChunk("stderr")
    <3>1. /\ pipe'["stdout"] = pipe["stdout"] /\ thread'["stdout"] = thread["stdout"]
          /\ chunk'["stdout"] = chunk["stdout"]
      BY <2>1 DEF Codex!ReadChunk, CodexTypes, Codex!Readers
    <3>2. CodexStill
      BY <2>1, <3>1 DEF Codex!ReadChunk, Codex!caller, CodexStill, Codex!Exited
    <3> QED
      BY <3>2, CodexFlowStill
  <2>2. CASE Codex!ReadEnds("stderr") \/ Codex!ReadFails("stderr")
    <3>1. thread'["stdout"] = thread["stdout"] /\ chunk'["stdout"] = chunk["stdout"]
      BY <2>2 DEF Codex!ReadEnds, Codex!ReadFails, CodexTypes, Codex!Readers
    <3>2. CodexStill
      BY <2>2, <3>1 DEF Codex!ReadEnds, Codex!ReadFails, Codex!caller, Codex!outside, CodexStill,
                        Codex!Exited
    <3> QED
      BY <3>2, CodexFlowStill
  <2> QED
    BY <1>8, <2>1, <2>2
<1>9. CASE Codex!WritePrompt \/ Codex!WriterEnds \/ Codex!WriteFails \/ Codex!Deadline
  <2>1. CodexAside
    BY <1>9, CodexWrites DEF Codex!Writer
  <2>2. queue' = queue
    BY <1>9 DEF Codex!WritePrompt, Codex!WriterEnds, Codex!WriteFails, Codex!Deadline
  <2>3. CodexStill
    BY <2>1, <2>2 DEF CodexAside, CodexStill, Codex!Exited
  <2> QED
    BY <2>3, CodexFlowStill
<1>10. CASE Codex!WriterSends
  <2> DEFINE m == [from |-> "stdin", is |-> "io_error"]
  <2>1. CodexAside
    BY <1>10, CodexWrites DEF Codex!Writer
  <2>2. m \in CodexMessage /\ m.from # "stdout" /\ queue' = Append(queue, m)
    BY <1>10 DEF Codex!WriterSends, Codex!Stopped, CodexMessage
  <2> HIDE DEF m
  <2>3. CodexSent(m)
    BY <2>1, <2>2 DEF CodexAside, CodexSent
  <2> QED
    BY <2>1, <2>2, <2>3, CodexSendErrorFlows DEF CodexAside
<1>11. CASE Codex!GetMessage
  BY <1>11, CodexGetTakes, CodexTakenFlows
<1>12. CASE Codex!Timeout \/ Codex!Interrupt \/ Codex!Finish
  BY <1>12 DEF Codex!Timeout, Codex!Interrupt, Codex!Finish, Codex!Raise
<1>13. \A r \in Codex!Readers : r = "stdout" \/ r = "stderr"
  BY DEF Codex!Readers
<1> QED
  BY <1>5, <1>6, <1>7, <1>8, <1>9, <1>10, <1>11, <1>12, <1>13
     DEF Codex!Next, Codex!Writer

LEMMA CodexReturns ==
  ASSUME CodexInv, Codex!Finish, main' = "returned"
  PROVE  Codex!AnswerIsWhole'
<1>1. /\ main = "collecting" /\ closed = Codex!Readers /\ process = "done"
      /\ Codex!CompleteAnswer(parsed) /\ result' = Codex!AnswerOf(parsed)
      /\ process' = process /\ wrote' = wrote /\ parsed' = parsed
  BY DEF Codex!Finish, Codex!AllClosed, Codex!Raise, Codex!outside
<1>2. CodexFlow /\ CodexTypes /\ CodexTurn
  BY <1>1 DEF CodexInv
<1>3. pipe["stdout"] = <<>> /\ thread["stdout"] = "ended" /\ CodexNoMore(1)
  BY <1>1, <1>2 DEF CodexFlow, CodexClosed, CodexDrained, Codex!Readers
<1>4. PICK es : CodexQueued(queue, es)
                  /\ wrote.out = parsed \o (es \o (CodexCarried \o pipe["stdout"]))
  BY <1>2 DEF CodexFlow, CodexInOrder
<1>5. es = <<>>
  BY <1>3, <1>4, QueuedNone DEF CodexNoMore, CodexEvent
<1>6. CodexCarried = <<>>
  BY <1>3 DEF CodexCarried
<1>7. wrote.out = parsed
  BY <1>2, <1>3, <1>4, <1>5, <1>6 DEF CodexTypes
<1>8. Codex!Last(parsed) = "turn.completed"
  BY <1>1, <1>2 DEF Codex!CompleteAnswer, CodexTurn
<1> QED
  BY <1>1, <1>7, <1>8 DEF Codex!AnswerIsWhole

LEMMA CodexAnswers ==
  ASSUME CodexInv, Codex!Next
  PROVE  Codex!AnswerIsWhole'
<1>1. CASE main # "collecting"
  <2>1. CodexStands
    BY <1>1, CodexOver DEF CodexInv
  <2> QED
    BY <2>1 DEF CodexInv, CodexStands, Codex!AnswerIsWhole
<1>2. CASE main = "collecting"
  <2>1. CASE main' # "returned"
    BY <2>1 DEF Codex!AnswerIsWhole
  <2>2. CASE main' = "returned"
    <3>1. CASE Codex!Process
      BY <1>2, <2>2, <3>1 DEF Codex!Process, Codex!WriteEvent, Codex!WriteError,
                              Codex!ReadPrompt, Codex!Exit, Codex!caller
    <3>2. ASSUME NEW r \in Codex!Readers,
                 Codex!ReadChunk(r) \/ Codex!ReadEnds(r) \/ Codex!Send(r) \/ Codex!ReadFails(r)
          PROVE  FALSE
      BY <1>2, <2>2, <3>2 DEF Codex!ReadChunk, Codex!ReadEnds, Codex!Send, Codex!ReadFails,
                              Codex!caller
    <3>3. CASE Codex!Writer \/ Codex!WriteFails \/ Codex!Deadline
      BY <1>2, <2>2, <3>3, CodexWrites DEF CodexAside
    <3>4. CASE Codex!Timeout \/ Codex!Interrupt
      BY <2>2, <3>4 DEF Codex!Timeout, Codex!Interrupt, Codex!Raise
    <3>5. CASE Codex!GetMessage
      <4>1. main' = main \/ main' = "raised"
        BY <3>5 DEF Codex!GetMessage
      <4> QED
        BY <1>2, <2>2, <4>1
    <3>6. CASE Codex!Finish
      BY <2>2, <3>6, CodexReturns
    <3> QED
      BY <3>1, <3>2, <3>3, <3>4, <3>5, <3>6 DEF Codex!Next
  <2> QED
    BY <2>1, <2>2
<1> QED
  BY <1>1, <1>2

LEMMA CodexStarts ==
  ASSUME Codex!Init
  PROVE  CodexInv
<1>1. CodexTypes
  <2>1. CodexProcessTypes /\ CodexThreadTypes
    BY DEF Codex!Init, CodexProcessTypes, CodexThreadTypes, CodexSays
  <2>2. CodexPipeTypes
    BY DEF Codex!Init, CodexPipeTypes, Codex!Readers
  <2>3. CodexCallerTypes /\ queue \in Seq(CodexMessage)
    BY DEF Codex!Init, CodexCallerTypes
  <2> QED
    BY <2>1, <2>2, <2>3, CodexTypesParts
<1>2. CodexTurn
  BY DEF Codex!Init, CodexTurn, Codex!Range
<1>3. CodexInOrder
  <2> DEFINE place == [k \in 1 .. 0 |-> k]
  <2>1. place \in [1 .. Len(<<>>) -> 1 .. Len(<<>>)] /\ <<>> \in Seq(Codex!Events)
    OBVIOUS
  <2>2. \A i \in 1 .. Len(<<>>) : FALSE
    OBVIOUS
  <2>3. CodexQueued(<<>>, <<>>)
    BY <2>1, <2>2 DEF CodexQueued
  <2>4. queue = <<>> /\ wrote.out = <<>> /\ parsed = <<>> /\ pipe["stdout"] = <<>>
    BY DEF Codex!Init, Codex!Readers
  <2>5. CodexCarried = <<>>
    BY DEF Codex!Init, CodexCarried, Codex!Readers
  <2>6. wrote.out = parsed \o (<<>> \o (CodexCarried \o pipe["stdout"]))
    BY <2>4, <2>5
  <2> QED
    BY <2>3, <2>4, <2>6 DEF CodexInOrder
<1>4. CodexClosing /\ CodexClosed /\ CodexCarries
  BY DEF Codex!Init, CodexClosing, CodexClosed, CodexCarries, Codex!Readers
<1>5. CodexClosedLast
  BY DEF Codex!Init, CodexClosedLast
<1> QED
  BY <1>1, <1>2, <1>3, <1>4, <1>5 DEF CodexInv, CodexFlow, Codex!Init, Codex!AnswerIsWhole

LEMMA CodexKept ==
  ASSUME CodexAllowed, CodexInv, [Codex!Next]_(Codex!vars)
  PROVE  CodexInv'
<1>1. CASE Codex!Next
  <2>1. CodexTypes'
    <3>1. CodexProcessTypes' /\ CodexPipeTypes' /\ CodexThreadTypes'
      BY <1>1, CodexProcessTyped, CodexPipeTyped, CodexThreadTyped DEF CodexInv
    <3>2. CodexCallerTypes' /\ queue' \in Seq(CodexMessage)
      BY <1>1, CodexCallerTyped, CodexQueueTyped DEF CodexInv
    <3> QED
      BY <3>1, <3>2 DEF CodexTypes, CodexProcessTypes, CodexPipeTypes, CodexThreadTypes,
                        CodexCallerTypes
  <2>2. CodexTurn'
    BY <1>1, CodexTurns
  <2>3. main' = "collecting" => CodexFlow'
    <3>1. CASE main = "collecting"
      BY <1>1, <3>1, CodexFlows DEF CodexInv
    <3>2. CASE main # "collecting"
      BY <1>1, <3>2, CodexOver DEF CodexInv, CodexStands
    <3> QED
      BY <3>1, <3>2
  <2>4. main' # "collecting" => Codex!Exited'
    BY <1>1, CodexExits
  <2>5. Codex!AnswerIsWhole'
    BY <1>1, CodexAnswers
  <2> QED
    BY <2>1, <2>2, <2>3, <2>4, <2>5 DEF CodexInv
<1>2. CASE UNCHANGED Codex!vars
  <2>1. CodexStill
    BY <1>2 DEF Codex!vars, CodexStill, Codex!Exited
  <2>2. CodexFlow => CodexFlow'
    BY <2>1, CodexFlowStill
  <2>3. CodexTypes'
    BY <1>2 DEF CodexInv, CodexTypes, Codex!vars
  <2>4. CodexTurn'
    BY <1>2 DEF CodexInv, CodexTurn, Codex!vars, Codex!Range, Codex!Last
  <2>5. Codex!AnswerIsWhole'
    BY <1>2 DEF CodexInv, Codex!AnswerIsWhole, Codex!vars
  <2>6. main' # "collecting" => Codex!Exited'
    BY <1>2 DEF CodexInv, Codex!vars, Codex!Exited
  <2>7. main' = "collecting" => CodexFlow'
    BY <1>2, <2>2 DEF CodexInv, Codex!vars
  <2> QED
    BY <2>3, <2>4, <2>5, <2>6, <2>7 DEF CodexInv
<1> QED
  BY <1>1, <1>2

LEMMA CodexInvariant ==
  ASSUME CodexAllowed
  PROVE  Codex!Spec => []CodexInv
<1>1. Codex!Init => CodexInv
  BY CodexStarts
<1>2. CodexInv /\ [Codex!Next]_(Codex!vars) => CodexInv'
  BY CodexKept
<1> QED
  BY <1>1, <1>2, PTL DEF Codex!Spec

(* When the call is over, however it ended, its process is, too.           *)
THEOREM CodexNoProcessLeft ==
  ASSUME CodexAllowed
  PROVE  Codex!Spec => []Codex!NoProcessLeft
<1>1. CodexInv => Codex!NoProcessLeft
  BY DEF CodexInv, Codex!NoProcessLeft
<1> QED
  BY <1>1, CodexInvariant, PTL

(* An answer is all that a process said that exited well.                  *)
THEOREM CodexAnswerIsWhole ==
  ASSUME CodexAllowed
  PROVE  Codex!Spec => []Codex!AnswerIsWhole
<1>1. CodexInv => Codex!AnswerIsWhole
  BY DEF CodexInv
<1> QED
  BY <1>1, CodexInvariant, PTL
===============================================================================
