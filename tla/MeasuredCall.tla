----------------------------- MODULE MeasuredCall -----------------------------
(***************************************************************************)
(* One call after another through everything that is done around the step  *)
(* function: estimates, the reservation, the lease, the measurements of    *)
(* the meters, the step itself, and what is recorded and raised when any   *)
(* of these fails (Run._call, AsyncRun._acall).  At most MaxFaults of the  *)
(* things that can go wrong do, beside the step.                           *)
(*                                                                         *)
(* Meters are the steps, the tokens with an estimator, and Measured, which *)
(* only measure.  Who else uses the store is GovernedCall's subject.       *)
(***************************************************************************)
EXTENDS Totals, Sequences, SequencesExt

CONSTANTS
  Measured,   \* the number of meters with measure()
  Estimate,   \* the token estimate
  Usages,     \* the tokens a provider may report
  Unreported, \* it reports none
  Budget,     \* tokens
  MaxCalls,   \* bound
  MaxFaults   \* bound

VARIABLES
  at,        \* the stage of the call
  entered,   \* the measurements the call runs
  mine,      \* those the call would stop: the list it was given
  exits,     \* the exits so far, in order
  sent,      \* the provider was asked
  usage,     \* what it reports, or Unreported
  answered,  \* a result is there
  unknown,   \* the error is marked: the outcome is unknown
  held,      \* the reservation is held
  settled,   \* what was settled, over all calls
  errors,    \* the errors of the call, the primary one first
  cleanup,   \* it is a cleanup that goes on
  tree,      \* nodes: their kind and tokens
  raised,    \* what the last call raised, or "none"
  adrift,    \* the store has failed to settle, release or record (history)
  calls, faults
vars == <<at, entered, mine, exits, sent, usage, answered, unknown, held, settled, errors,
          cleanup, tree, raised, adrift, calls, faults>>

Stages == {"idle", "estimating", "leasing", "measuring", "dispatching", "stopping",
           "unleasing", "judging", "settling", "recording"}
NodeKinds == {"call", "call_outcome_unknown", "call_recording_failed", "refusal"}

TypeOK ==
  /\ at \in Stages
  /\ entered \in Seq(1 .. Measured) /\ mine \in Seq(1 .. Measured)
  /\ exits \in Seq(1 .. Measured)
  /\ sent \in BOOLEAN /\ answered \in BOOLEAN /\ unknown \in BOOLEAN /\ held \in BOOLEAN
  /\ usage \in Usages \cup {Unreported}
  /\ settled \in Nat
  /\ tree \in Seq([is : NodeKinds, tokens : Nat])
  /\ adrift \in BOOLEAN /\ calls \in 0 .. MaxCalls /\ faults \in 0 .. MaxFaults

Init ==
  /\ at = "idle" /\ entered = <<>> /\ mine = <<>> /\ exits = <<>>
  /\ sent = FALSE /\ usage = Unreported /\ answered = FALSE /\ unknown = FALSE
  /\ held = FALSE /\ settled = 0 /\ errors = <<>> /\ cleanup = FALSE
  /\ tree = <<>> /\ raised = "none" /\ adrift = FALSE /\ calls = 0 /\ faults = 0

Fault == faults < MaxFaults /\ faults' = faults + 1
Fine == UNCHANGED faults
Goto(stage) == at' = stage
Has(e) == e \in Range(errors)
Error(e) == errors' = Append(errors, e)

Spent == Total(DOMAIN tree, [i \in DOMAIN tree |-> tree[i].tokens])
Put(kind, tokens) == tree' = Append(tree, [is |-> kind, tokens |-> tokens])

(* _raise_primary: the first error, with the others as its cause.          *)
Primary(es) == IF es = <<>> THEN "none" ELSE Head(es)

Over(es) == Goto("idle") /\ raised' = Primary(es)

Begin ==
  /\ at = "idle" /\ calls < MaxCalls /\ calls' = calls + 1
  /\ Goto("estimating")
  /\ entered' = <<>> /\ mine' = <<>> /\ exits' = <<>> /\ errors' = <<>>
  /\ sent' = FALSE /\ usage' = Unreported /\ answered' = FALSE /\ unknown' = FALSE
  /\ raised' = "none" /\ cleanup' = FALSE
  /\ UNCHANGED <<held, settled, tree, adrift, faults>>

work == <<entered, mine, exits, sent, usage, answered, unknown, cleanup>>

(* _estimates and _precheck: a meter refuses or the budget does, which is  *)
(* recorded; an estimate that raises is just that.                         *)
Refuse ==
  /\ at = "estimating"
  /\ \/ Fault
     \/ Fine /\ Spent + Estimate > Budget
  /\ Put("refusal", 0)
  /\ Over(<<"BudgetExceeded">>)
  /\ UNCHANGED <<work, held, settled, errors, adrift, calls>>
EstimateRaises ==
  /\ at = "estimating" /\ Fault
  /\ Over(<<"estimate">>)
  /\ UNCHANGED <<work, held, settled, errors, tree, adrift, calls>>
Reserve ==
  /\ at = "estimating" /\ Fine /\ Spent + Estimate <= Budget
  /\ held' = TRUE /\ Goto("leasing")
  /\ UNCHANGED <<work, settled, errors, tree, raised, adrift, calls>>

-----------------------------------------------------------------------------
StartLease ==
  /\ at = "leasing"
  /\ \/ Fine /\ Goto("measuring") /\ UNCHANGED errors
     \/ Fault /\ Goto("stopping") /\ Error("lease")
  /\ UNCHANGED <<work, held, settled, tree, raised, adrift, calls>>

(* _start_measurements: in order; the call has the list only when all are  *)
(* started.                                                                *)
MoreToEnter == Len(entered) < Measured

EnterMeasurement ==
  /\ at = "measuring" /\ MoreToEnter
  /\ Fine /\ entered' = Append(entered, Len(entered) + 1)
  /\ UNCHANGED <<at, mine, exits, sent, usage, answered, unknown, cleanup, held, settled,
                 errors, tree, raised, adrift, calls>>

(* A mutant: the error is just raised.                                     *)
JustRaise == cleanup' = FALSE /\ mine' = <<>>

(* One cannot be entered: those before it are stopped.                     *)
Unwind == cleanup' = TRUE /\ mine' = entered

EnterRaises ==
  /\ at = "measuring" /\ MoreToEnter
  /\ Fault /\ Goto("stopping") /\ Error("enter")
  /\ Unwind
  /\ UNCHANGED <<entered, exits, sent, usage, answered, unknown, held, settled, tree,
                 raised, adrift, calls>>

(* measure() itself raises, for which there is no handler.                 *)
MeasureRaises ==
  /\ at = "measuring" /\ MoreToEnter
  /\ Fault /\ Goto("stopping") /\ Error("measure")
  /\ UNCHANGED <<work, held, settled, tree, raised, adrift, calls>>

AllStarted ==
  /\ at = "measuring" /\ Len(entered) = Measured
  /\ mine' = entered /\ Goto("dispatching") /\ Fine
  /\ UNCHANGED <<entered, exits, sent, usage, answered, unknown, cleanup, held, settled,
                 errors, tree, raised, adrift, calls>>

(* fn(payload): it raises before it asks the provider; its error is        *)
(* marked, or comes after a chunk; or there is a result.                   *)
StepRaises ==
  /\ at = "dispatching" /\ Fine
  /\ \E asked \in BOOLEAN : sent' = asked /\ unknown' = asked
  /\ Error("step") /\ Goto("stopping")
  /\ UNCHANGED <<entered, mine, exits, usage, answered, cleanup, held, settled, tree,
                 raised, adrift, calls>>
StepReturns ==
  /\ at = "dispatching" /\ Fine
  /\ \E u \in Usages \cup {Unreported} : usage' = u
  /\ sent' = TRUE /\ answered' = TRUE /\ Goto("stopping")
  /\ UNCHANGED <<entered, mine, exits, unknown, cleanup, held, settled, errors, tree,
                 raised, adrift, calls>>

-----------------------------------------------------------------------------
(* _stop_measurements: in reverse, each whatever the others raised; what   *)
(* several raise is one error.                                             *)
NextToStop == mine[Len(mine) - Len(exits)]
StopMeasurement ==
  /\ at = "stopping" /\ Len(exits) < Len(mine)
  /\ exits' = Append(exits, NextToStop)
  /\ \/ Fine /\ UNCHANGED errors
     \/ Fault /\ IF Has("exit") THEN UNCHANGED errors ELSE Error("exit")
  /\ UNCHANGED <<at, entered, mine, sent, usage, answered, unknown, cleanup, held, settled,
                 tree, raised, adrift, calls>>

AllStopped ==
  /\ at = "stopping" /\ Len(exits) = Len(mine) /\ Fine
  /\ Goto("unleasing")
  /\ UNCHANGED <<work, held, settled, errors, tree, raised, adrift, calls>>

(* _stop_lease.                                                            *)
StopLease ==
  /\ at = "unleasing" /\ Goto("judging")
  /\ \/ Fine /\ UNCHANGED errors
     \/ Fault /\ ~Has("lease") /\ Error("stop")
  /\ UNCHANGED <<work, held, settled, tree, raised, adrift, calls>>

(* Whether the call may have reached the provider.                         *)
NotReleased == unknown \/ answered

(* Settling and storing the note are tried each, whatever the other did.   *)
Note(es) ==
  \E settles, stores \in BOOLEAN :
    /\ faults' = faults + Cardinality({x \in {1, 2} : <<settles, stores>>[x] = FALSE})
    /\ faults' <= MaxFaults
    /\ settled' = IF settles THEN settled + Estimate ELSE settled
    /\ held' = ~settles
    /\ IF stores
       THEN Put(IF unknown THEN "call_outcome_unknown" ELSE "call_recording_failed", Estimate)
       ELSE UNCHANGED tree
    /\ adrift' = (adrift \/ ~settles \/ ~stores)

Release ==
  /\ \/ Fine /\ held' = FALSE /\ UNCHANGED adrift
     \/ Fault /\ adrift' = TRUE /\ UNCHANGED held
  /\ UNCHANGED <<settled, tree>>

(* An error: the outcome is unknown, or there is a result that cannot be   *)
(* recorded; or nothing was sent.                                          *)
FailCall ==
  /\ at = "judging" /\ errors # <<>>
  /\ IF NotReleased THEN Note(errors) ELSE Release
  /\ Over(errors)
  /\ UNCHANGED <<work, errors, calls>>

(* readings(), _charges and Node.make: without usage the estimate stands.  *)
Tokens == IF usage = Unreported THEN Estimate ELSE usage

AccountingRaises ==
  /\ at = "judging" /\ errors = <<>> /\ Fault
  /\ errors' = <<"accounting">> /\ Goto("judging")
  /\ UNCHANGED <<work, held, settled, tree, raised, adrift, calls>>

Account ==
  /\ at = "judging" /\ errors = <<>> /\ Fine /\ Goto("settling")
  /\ UNCHANGED <<work, held, settled, errors, tree, raised, adrift, calls>>

SettleCall == settled' = settled + Tokens

Settle ==
  /\ at = "settling"
  /\ \/ Fine /\ held' = FALSE /\ SettleCall /\ Goto("recording")
        /\ UNCHANGED <<errors, raised, adrift>>
     \/ Fault /\ UNCHANGED <<held, settled>> /\ Error("settle") /\ Over(errors')
        /\ adrift' = TRUE
  /\ UNCHANGED <<work, tree, calls>>

Record ==
  /\ at = "recording"
  /\ \/ Fine /\ Put("call", Tokens) /\ Over(<<>>) /\ UNCHANGED <<errors, adrift>>
     \/ Fault /\ Error("put") /\ Over(errors') /\ UNCHANGED tree /\ adrift' = TRUE
  /\ UNCHANGED <<work, held, settled, calls>>

Next ==
  \/ Begin \/ Refuse \/ EstimateRaises \/ Reserve
  \/ StartLease \/ EnterMeasurement \/ EnterRaises \/ MeasureRaises \/ AllStarted
  \/ StepRaises \/ StepReturns
  \/ StopMeasurement \/ AllStopped \/ StopLease
  \/ FailCall \/ AccountingRaises \/ Account \/ Settle \/ Record

Spec == Init /\ [][Next]_vars

-----------------------------------------------------------------------------
Ended == at = "idle" /\ calls > 0

(* Whatever fails, a measurement that was entered is left exactly once, in *)
(* the reverse order, before the call is over, so that no meter is left    *)
(* sampling: unless a later meter's measure() itself raised.               *)
MeasurementsEnd ==
  Ended /\ ~Has("measure") /\ ~(raised \in {"BudgetExceeded", "estimate"}) =>
    exits = Reverse(entered)

(* A call that was sent to the provider is charged for in the tree, at     *)
(* what it reported or else the estimate, unless the store failed then,    *)
(* and it is not reported as done.                                         *)
SentIsCharged ==
  (Ended /\ sent) =>
    \/ tree # <<>> /\ Last(tree).is # "refusal"
         /\ Last(tree).tokens = (IF raised = "none" /\ usage # Unreported THEN usage ELSE Estimate)
    \/ adrift /\ raised # "none"

(* Between calls the shared counters agree with the tree, and no           *)
(* reservation is held, unless the store failed to settle, release or      *)
(* record: no way through the errors of a call charges one and not the     *)
(* other.                                                                  *)
AccountsAgree ==
  (Ended /\ ~adrift) => (settled = Spent /\ ~held)

(* The caller sees the error that came first, not what the cleanup raised  *)
(* after it ("meter exit and release failures do not mask callable error", *)
(* test_runtime.py:508).                                                   *)
FirstErrorRaised ==
  (Ended /\ errors # <<>>) => raised = Head(errors)
=============================================================================
