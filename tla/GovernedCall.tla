---------------------------- MODULE GovernedCall ----------------------------
(***************************************************************************)
(* A governed model or tool call (Run._call) against the exact arbiter:    *)
(* precheck, reservation, lease heartbeat, the caller's function, then     *)
(* settlement and recording, or release.  Each worker is a process that    *)
(* makes its calls one after another and may crash at any point.           *)
(*                                                                         *)
(* The connection to the store may fail in any transaction, before it is   *)
(* applied or after, in which case its acknowledgement is lost; reserve,   *)
(* settle and release are tried once more after a reconnect.  Any other    *)
(* error (Redis runs out of WATCH retries) is not tried again.             *)
(***************************************************************************)
EXTENDS Totals

CONSTANTS
  Ids,        \* calls, each with the reservation id it would use
  Workers,    \* processes
  Owner,      \* the worker a call belongs to
  Plan,       \* call -> the budget rows, windows and estimates it runs under
  Actuals,    \* the charges a completed call may turn out to have
  NodeOf,     \* the tree node a completed call is recorded at
  Shared,     \* rows of named shared budgets
  Estimated,  \* meters with a precheck estimate
  Meters, Keys, Windows, MeterOf, Limit, Span, Lease,
  MaxTime,    \* bound: no renewal is sent at or after this time
  Horizon     \* bound: the clock never gets here

VARIABLES
  now, state, request, expires, paid, completed, budget, present, events

arbiterVars == <<now, state, request, expires, paid, completed, budget, present, events>>

(* What the workers may ask of the arbiter, and charge. *)
Asks == {[keys |-> Plan[i].keys, wins |-> Plan[i].wins, est |-> Plan[i].est, base |-> b] :
           i \in Ids, b \in [Keys -> Nat]}
Bills == Actuals \cup {Plan[i].est : i \in Ids}

Arbiter == INSTANCE KVArbiter WITH MaxTime <- Horizon, Requests <- Asks, Charges <- Bills

ASSUME RowsAssumption ==
  /\ IsFiniteSet(Ids)
  /\ Keys \subseteq Nat
  /\ Keys \cap Windows = {}
  /\ MeterOf \in [Keys \cup Windows -> Meters]
  /\ Limit \in [Keys \cup Windows -> Nat]
  /\ Span \in [Windows -> Nat \ {0}]
  /\ Lease \in Nat \ {0}
ASSUME WorkersAssumption ==
  /\ Owner \in [Ids -> Workers]
  /\ Plan \in [Ids -> [keys : SUBSET Keys, wins : SUBSET Windows, est : [Meters -> Nat]]]
  /\ \A i \in Ids : Plan[i].keys \cup Plan[i].wins # {}
  /\ Actuals \subseteq [Meters -> Nat]
  /\ Shared \subseteq Keys
  /\ Estimated \subseteq Meters

VARIABLES
  pc,         \* call -> how far it has got
  ask,        \* call -> the request it sends
  again,      \* call -> it is in the second try of a transaction
  outcome,    \* call -> how the caller's function ended
  charge,     \* call -> what it will be charged
  beat,       \* call -> what its heartbeat thread is doing
  attempted,  \* call -> when its last renewal was sent
  deadline,   \* call -> until when its heartbeat believes in the lease
  renewed,    \* call -> some renewal has been confirmed
  lost,       \* call -> its heartbeat found the lease lost
  recorded,   \* the calls whose charges are in the tree
  unsure,     \* the calls recorded with an uncertain settlement
  exhausted,  \* worker -> the rows it has seen overspent
  up          \* the workers that have not crashed

callVars == <<pc, ask, again, outcome, charge>>
leaseVars == <<beat, attempted, deadline, renewed, lost>>
treeVars == <<recorded, unsure, exhausted>>
vars == <<arbiterVars, callVars, leaseVars, treeVars, up>>

(* Calls that are over: refused; ReservationUncertain; an IntegrityError;   *)
(* recorded; released after an error; SettlementUncertain; ended by some   *)
(* other error of the store; crashed.                                      *)
Ended == {"refused", "unsure", "failed", "done", "released", "uncertain", "aborted", "crashed"}
Stages == Ended \cup {"idle", "checked", "asking", "granted", "running", "returned",
                      "settling", "releasing", "recording", "assessing"}
NoCharge == [m \in Meters |-> 0]

TypeOK ==
  /\ Arbiter!TypeOK
  /\ pc \in [Ids -> Stages]
  /\ ask \in [Ids -> Arbiter!RequestType]
  /\ again \in [Ids -> BOOLEAN]
  /\ outcome \in [Ids -> {"none", "ok", "error", "unknown"}]
  /\ charge \in [Ids -> [Meters -> Nat]]
  /\ beat \in [Ids -> {"off", "starting", "waiting", "sent", "confirmed", "denied"}]
  /\ attempted \in [Ids -> Nat]
  /\ deadline \in [Ids -> Nat]
  /\ renewed \in [Ids -> BOOLEAN]
  /\ lost \in [Ids -> BOOLEAN]
  /\ recorded \subseteq Ids
  /\ unsure \subseteq Ids
  /\ exhausted \in [Workers -> SUBSET Keys]
  /\ up \subseteq Workers

Init ==
  /\ Arbiter!Init
  /\ pc = [i \in Ids |-> "idle"]
  /\ ask = [i \in Ids |-> Arbiter!NoRequest]
  /\ again = [i \in Ids |-> FALSE]
  /\ outcome = [i \in Ids |-> "none"]
  /\ charge = [i \in Ids |-> NoCharge]
  /\ beat = [i \in Ids |-> "off"]
  /\ attempted = [i \in Ids |-> 0]
  /\ deadline = [i \in Ids |-> 0]
  /\ renewed = [i \in Ids |-> FALSE]
  /\ lost = [i \in Ids |-> FALSE]
  /\ recorded = {}
  /\ unsure = {}
  /\ exhausted = [w \in Workers |-> {}]
  /\ up = Workers

Goto(i, stage) == pc' = [pc EXCEPT ![i] = stage]

-----------------------------------------------------------------------------
(* Precheck (_precheck, check_budget).                                     *)

(* What the tree says has been spent of a row.  A shared budget is         *)
(* anchored at its own root, which has no calls below it.                  *)
Spent(k) ==
  IF k \in Shared THEN 0
  ELSE Total({i \in recorded : k \in Plan[i].keys}, [i \in Ids |-> charge[i][MeterOf[k]]])

FitsTree(i, k) ==
  /\ k \notin exhausted[Owner[i]]
  /\ MeterOf[k] \in Estimated => Spent(k) + Plan[i].est[MeterOf[k]] <= Limit[k]

MayStart(i) ==
  /\ pc[i] = "idle"
  /\ Owner[i] \in up
  /\ \A j \in Ids : Owner[j] = Owner[i] => pc[j] \in Ended \cup {"idle"}

Precheck(i) ==
  /\ MayStart(i)
  /\ Goto(i, IF \A k \in Plan[i].keys : FitsTree(i, k) THEN "checked" ELSE "refused")
  /\ UNCHANGED <<arbiterVars, ask, again, outcome, charge, leaseVars, treeVars, up>>

(* A read of the tree raises: nothing has been reserved. *)
PrecheckFails(i) ==
  /\ MayStart(i) \/ pc[i] = "checked"
  /\ Goto(i, "aborted")
  /\ UNCHANGED <<arbiterVars, ask, again, outcome, charge, leaseVars, treeVars, up>>

(* The baselines are read again from the tree, after the checks. *)
Snapshot(i) ==
  /\ pc[i] = "checked"
  /\ ask' = [ask EXCEPT ![i] =
       [keys |-> Plan[i].keys, wins |-> Plan[i].wins, est |-> Plan[i].est,
        base |-> [k \in Keys |-> IF k \in Plan[i].keys THEN Spent(k) ELSE 0]]]
  /\ Goto(i, "asking")
  /\ UNCHANGED <<arbiterVars, again, outcome, charge, leaseVars, treeVars, up>>

-----------------------------------------------------------------------------
(* One try of a transaction (_pollard_reserve, _pollard_settle,            *)
(* _pollard_release): acknowledged, or not.                                *)

(* The connection failed; the transaction was applied or was not. *)
MaybeApplied(Transaction) == Transaction \/ UNCHANGED arbiterVars

RetryForever(i, stage) == again' = [again EXCEPT ![i] = ~ @] /\ UNCHANGED pc
(* After the first failure reconnect and try again; after the second give up. *)
TryAgainOr(i, stage) ==
  IF again[i] THEN Goto(i, stage) /\ again' = [again EXCEPT ![i] = FALSE]
              ELSE again' = [again EXCEPT ![i] = TRUE] /\ UNCHANGED pc
Acknowledged(i, stage) == Goto(i, stage) /\ again' = [again EXCEPT ![i] = FALSE]

StageAfter(reply) ==
  IF reply = "ok" THEN "granted" ELSE IF reply = "IntegrityError" THEN "failed" ELSE "refused"

ReserveAcked(i) ==
  /\ pc[i] = "asking"
  /\ Arbiter!Reserve(i, ask[i])
  /\ Acknowledged(i, StageAfter(Arbiter!ReserveReply(i, ask[i])))
  /\ ask' = [ask EXCEPT ![i] = Arbiter!NoRequest]
  /\ UNCHANGED <<outcome, charge, leaseVars, treeVars, up>>

ReserveUnacked(i) ==
  /\ pc[i] = "asking"
  /\ MaybeApplied(Arbiter!Reserve(i, ask[i]))
  /\ TryAgainOr(i, "unsure")
  /\ ask' = IF again[i] THEN [ask EXCEPT ![i] = Arbiter!NoRequest] ELSE ask
  /\ UNCHANGED <<outcome, charge, leaseVars, treeVars, up>>

ReserveFails(i) ==
  /\ pc[i] = "asking"
  /\ Acknowledged(i, "aborted")
  /\ ask' = [ask EXCEPT ![i] = Arbiter!NoRequest]
  /\ UNCHANGED <<arbiterVars, outcome, charge, leaseVars, treeVars, up>>

-----------------------------------------------------------------------------
(* The lease heartbeat (_LeaseHeartbeat), a thread of the worker.          *)

StartLease(i) ==
  /\ pc[i] = "granted"
  /\ Goto(i, "running")
  /\ beat' = [beat EXCEPT ![i] = "starting"]
  /\ UNCHANGED <<arbiterVars, ask, again, outcome, charge, attempted, deadline, renewed,
                 lost, treeVars, up>>

(* The first deadline counts from when the thread runs, which is later     *)
(* than the reservation.                                                   *)
BeginHeartbeat(i) ==
  /\ beat[i] = "starting"
  /\ beat' = [beat EXCEPT ![i] = "waiting"]
  /\ deadline' = [deadline EXCEPT ![i] = now + Lease]
  /\ UNCHANGED <<arbiterVars, callVars, attempted, renewed, lost, treeVars, up>>

SendRenewal(i) ==
  /\ beat[i] = "waiting"
  /\ now < MaxTime
  /\ beat' = [beat EXCEPT ![i] = "sent"]
  /\ attempted' = [attempted EXCEPT ![i] = now]
  /\ UNCHANGED <<arbiterVars, callVars, deadline, renewed, lost, treeVars, up>>

(* The arbiter applies it, even if the worker has stopped waiting for it   *)
(* or has crashed.                                                         *)
ApplyRenewal(i) ==
  /\ beat[i] = "sent"
  /\ Arbiter!Renew(i)
  /\ beat' = [beat EXCEPT ![i] = IF Arbiter!CanRenew(i) THEN "confirmed" ELSE "denied"]
  /\ UNCHANGED <<callVars, attempted, deadline, renewed, lost, treeVars, up>>

Listening(i) == pc[i] \in {"running", "returned"}

DeadlineOnReply(i) == now + Lease
(* Counted from when the renewal was sent, so not past the server's expiry. *)
RenewedDeadline(i) == attempted[i] + Lease

RenewalConfirmed(i) ==
  /\ beat[i] = "confirmed"
  /\ Listening(i)
  /\ beat' = [beat EXCEPT ![i] = "waiting"]
  /\ deadline' = [deadline EXCEPT ![i] = RenewedDeadline(i)]
  /\ renewed' = [renewed EXCEPT ![i] = TRUE]
  /\ UNCHANGED <<arbiterVars, callVars, attempted, lost, treeVars, up>>

RenewalDenied(i) ==
  /\ beat[i] = "denied"
  /\ Listening(i)
  /\ beat' = [beat EXCEPT ![i] = "off"]
  /\ lost' = [lost EXCEPT ![i] = TRUE]
  /\ UNCHANGED <<arbiterVars, callVars, attempted, deadline, renewed, treeVars, up>>

(* The renewal or its acknowledgement was lost: try later, unless it is    *)
(* too late.                                                               *)
RenewalFails(i) ==
  /\ beat[i] \in {"sent", "confirmed", "denied"}
  /\ Listening(i)
  /\ beat' = [beat EXCEPT ![i] = IF now >= deadline[i] THEN "off" ELSE "waiting"]
  /\ lost' = [lost EXCEPT ![i] = now >= deadline[i]]
  /\ UNCHANGED <<arbiterVars, callVars, attempted, deadline, renewed, treeVars, up>>

RecordedFirst(i) == "recording"
AfterStop(i) == IF outcome[i] = "error" THEN "releasing" ELSE "settling"

(* stop(): a thread still busy when the join times out counts as a lost    *)
(* lease, and so does a deadline that has passed.                          *)
StopLease(i) ==
  /\ pc[i] = "returned"
  /\ lost' = [lost EXCEPT ![i] = @ \/ now >= deadline[i] \/ beat[i] \notin {"off", "waiting"}]
  /\ beat' = [beat EXCEPT ![i] = IF @ = "sent" THEN "sent" ELSE "off"]
  /\ attempted' = [attempted EXCEPT ![i] = 0]
  /\ deadline' = [deadline EXCEPT ![i] = 0]
  /\ renewed' = [renewed EXCEPT ![i] = FALSE]
  /\ Goto(i, AfterStop(i))
  /\ UNCHANGED <<arbiterVars, ask, again, outcome, charge, treeVars, up>>

-----------------------------------------------------------------------------
(* The caller's function, and what _call does with its outcome.            *)

(* It returned a result, with these charges. *)
ReturnResult(i) ==
  /\ pc[i] = "running"
  /\ \E ch \in Actuals : charge' = [charge EXCEPT ![i] = ch]
  /\ outcome' = [outcome EXCEPT ![i] = "ok"]
  /\ Goto(i, "returned")
  /\ UNCHANGED <<arbiterVars, ask, again, leaseVars, treeVars, up>>

(* It failed after dispatch, or its result could not be metered: the       *)
(* estimates are charged (_record_unknown_outcome).                        *)
ReturnUnknown(i) ==
  /\ pc[i] = "running"
  /\ charge' = [charge EXCEPT ![i] = Plan[i].est]
  /\ outcome' = [outcome EXCEPT ![i] = "unknown"]
  /\ Goto(i, "returned")
  /\ UNCHANGED <<arbiterVars, ask, again, leaseVars, treeVars, up>>

(* It failed without saying that it had dispatched anything. *)
ReturnError(i) ==
  /\ pc[i] = "running"
  /\ outcome' = [outcome EXCEPT ![i] = "error"]
  /\ Goto(i, "returned")
  /\ UNCHANGED <<arbiterVars, ask, again, charge, leaseVars, treeVars, up>>

SettleFailedSilently(i, stage) ==
  Goto(i, IF outcome[i] = "ok" THEN stage ELSE "recording") /\ UNCHANGED unsure
(* An unknown outcome is recorded even if its settlement fails. *)
SettleFailed(i, stage) ==
  IF outcome[i] = "ok" THEN Goto(i, stage) /\ UNCHANGED unsure
                       ELSE Goto(i, "recording") /\ unsure' = unsure \cup {i}

SettleAcked(i) ==
  /\ pc[i] = "settling"
  /\ Arbiter!Settle(i, charge[i])
  /\ IF Arbiter!SettleReply(i, charge[i]) = "ok"
     THEN Goto(i, "recording") /\ UNCHANGED unsure
     ELSE SettleFailed(i, "failed")
  /\ again' = [again EXCEPT ![i] = FALSE]
  /\ UNCHANGED <<ask, outcome, charge, leaseVars, recorded, exhausted, up>>

SettleUnacked(i) ==
  /\ pc[i] = "settling"
  /\ MaybeApplied(Arbiter!Settle(i, charge[i]))
  /\ again' = [again EXCEPT ![i] = ~ @]
  /\ IF again[i] THEN SettleFailed(i, "uncertain") ELSE UNCHANGED <<pc, unsure>>
  /\ UNCHANGED <<ask, outcome, charge, leaseVars, recorded, exhausted, up>>

SettleFails(i) ==
  /\ pc[i] = "settling"
  /\ SettleFailed(i, "aborted")
  /\ again' = [again EXCEPT ![i] = FALSE]
  /\ UNCHANGED <<arbiterVars, ask, outcome, charge, leaseVars, recorded, exhausted, up>>

(* A completed call already recorded at the same node keeps its charges. *)
TakenBy(i) == {j \in recorded : outcome[j] = "ok" /\ NodeOf[j] = NodeOf[i]}

Put(i) ==
  recorded' = IF outcome[i] = "ok" /\ TakenBy(i) # {} THEN recorded ELSE recorded \cup {i}

Record(i) ==
  /\ pc[i] = "recording"
  /\ Put(i)
  /\ Goto(i, "assessing")
  /\ UNCHANGED <<arbiterVars, ask, again, outcome, charge, leaseVars, unsure, exhausted, up>>

(* _put raises: in the write, whether or not it was applied, or in the     *)
(* read that follows it.                                                   *)
RecordFails(i) ==
  /\ pc[i] = "recording"
  /\ Put(i) \/ UNCHANGED recorded
  /\ Goto(i, "aborted")
  /\ UNCHANGED <<arbiterVars, ask, again, outcome, charge, leaseVars, unsure, exhausted, up>>

Overspent(i) == {k \in Plan[i].keys : Spent(k) > Limit[k]}

(* _settle_scopes, exhausted_after_settle. *)
Assess(i) ==
  /\ pc[i] = "assessing"
  /\ exhausted' = [exhausted EXCEPT ![Owner[i]] = @ \cup Overspent(i)]
  /\ Goto(i, "done")
  /\ UNCHANGED <<arbiterVars, ask, again, outcome, charge, leaseVars, recorded, unsure, up>>

(* Some scopes have been assessed when a read of the tree raises. *)
AssessFails(i) ==
  /\ pc[i] = "assessing"
  /\ \E seen \in SUBSET Overspent(i) :
       exhausted' = [exhausted EXCEPT ![Owner[i]] = @ \cup seen]
  /\ Goto(i, "aborted")
  /\ UNCHANGED <<arbiterVars, ask, again, outcome, charge, leaseVars, recorded, unsure, up>>

ReleaseAcked(i) ==
  /\ pc[i] = "releasing"
  /\ Arbiter!Release(i)
  /\ Acknowledged(i, "released")
  /\ UNCHANGED <<ask, outcome, charge, leaseVars, treeVars, up>>

ReleaseUnacked(i) ==
  /\ pc[i] = "releasing"
  /\ MaybeApplied(Arbiter!Release(i))
  /\ TryAgainOr(i, "released")
  /\ UNCHANGED <<ask, outcome, charge, leaseVars, treeVars, up>>

(* The error of the release is only noted on the error being raised. *)
ReleaseFails(i) ==
  /\ pc[i] = "releasing"
  /\ Acknowledged(i, "released")
  /\ UNCHANGED <<arbiterVars, ask, outcome, charge, leaseVars, treeVars, up>>

-----------------------------------------------------------------------------
(* The process dies with the call it is in and all it remembers of it; a   *)
(* renewal on its way is not recalled.                                     *)
Dying(w) == {i \in Ids : Owner[i] = w /\ pc[i] \notin Ended \cup {"idle"}}
Cleared(f, w, value) ==
  [i \in Ids |-> IF i \in Dying(w) /\ i \notin recorded THEN value ELSE f[i]]

Crash(w) ==
  /\ w \in up
  /\ up' = up \ {w}
  /\ pc' = [i \in Ids |-> IF i \in Dying(w) THEN "crashed" ELSE pc[i]]
  /\ beat' = [i \in Ids |-> IF Owner[i] = w /\ beat[i] # "sent" THEN "off" ELSE beat[i]]
  /\ ask' = Cleared(ask, w, Arbiter!NoRequest)
  /\ again' = Cleared(again, w, FALSE)
  /\ outcome' = Cleared(outcome, w, "none")
  /\ charge' = Cleared(charge, w, NoCharge)
  /\ attempted' = Cleared(attempted, w, 0)
  /\ deadline' = Cleared(deadline, w, 0)
  /\ renewed' = Cleared(renewed, w, FALSE)
  /\ UNCHANGED <<arbiterVars, lost, treeVars>>

(* Time matters while something is held; then it may stop. *)
Tick ==
  /\ now < MaxTime \/ \E i \in Ids : Arbiter!Live(i)
  /\ Arbiter!Tick
  /\ UNCHANGED <<callVars, leaseVars, treeVars, up>>

-----------------------------------------------------------------------------
Reserving(i) ==
  \/ Precheck(i) \/ PrecheckFails(i) \/ Snapshot(i)
  \/ ReserveAcked(i) \/ ReserveUnacked(i) \/ ReserveFails(i) \/ StartLease(i)
Returning(i) == ReturnResult(i) \/ ReturnUnknown(i) \/ ReturnError(i) \/ StopLease(i)
Ending(i) ==
  \/ SettleAcked(i) \/ SettleUnacked(i) \/ SettleFails(i)
  \/ Record(i) \/ RecordFails(i) \/ Assess(i) \/ AssessFails(i)
  \/ ReleaseAcked(i) \/ ReleaseUnacked(i) \/ ReleaseFails(i)
Heartbeat(i) ==
  \/ BeginHeartbeat(i) \/ SendRenewal(i) \/ ApplyRenewal(i)
  \/ RenewalConfirmed(i) \/ RenewalDenied(i) \/ RenewalFails(i)

Next ==
  \/ \E i \in Ids : Reserving(i) \/ Returning(i) \/ Ending(i) \/ Heartbeat(i)
  \/ \E w \in Workers : Crash(w)
  \/ Tick

Spec == Init /\ [][Next]_vars

(* A process that has not crashed runs, the function it calls returns, and *)
(* time passes.  Nothing makes a call start, a renewal be sent or          *)
(* acknowledged, or a connection succeed.                                  *)
InProgress(i) == pc[i] \notin Ended \cup {"idle"}
Fairness ==
  /\ WF_vars(Tick)
  /\ \A i \in Ids : WF_vars(InProgress(i) /\ (Reserving(i) \/ Returning(i) \/ Ending(i)))

FairSpec == Spec /\ Fairness

-----------------------------------------------------------------------------
(* Properties.                                                             *)

(* A refused call holds nothing: a reservation whose acknowledgement was   *)
(* lost is never refused on the second try and left behind.                *)
RefusedHoldsNothing == \A i \in Ids : pc[i] = "refused" => state[i] = "none"

(* Every call that ends normally is accounted for: its charge is settled   *)
(* exactly, or it is in the tree as unsure; one that failed before         *)
(* dispatch is charged nowhere.  Whatever the connection does, the arbiter *)
(* never rejects a call's settlement (_settle_once, IntegrityError).       *)
EndedCallsAccounted ==
  \A i \in Ids :
    /\ pc[i] = "done" => /\ i \in unsure \/ (state[i] = "settled" /\ paid[i] = charge[i])
                         /\ i \in recorded \/ (outcome[i] = "ok" /\ TakenBy(i) # {})
    /\ pc[i] = "released" => state[i] # "settled" /\ i \notin recorded
    /\ pc[i] = "failed" => outcome[i] = "none"

(* The tree is never ahead of the ledger: a charge is in the tree only     *)
(* once it is settled (_settle_reservation before _put), crash or no       *)
(* crash, unless it is recorded as uncertain.                              *)
SettledBeforeRecorded ==
  \A i \in recorded \ unsure : state[i] = "settled" /\ paid[i] = charge[i]

(* A heartbeat that has had a renewal confirmed and would now report no    *)
(* loss is right: the server still holds the capacity.                     *)
HeartbeatHonest ==
  \A i \in Ids :
    (Listening(i) /\ renewed[i] /\ ~ lost[i] /\ now < deadline[i]) => Arbiter!Live(i)

(* A call that is only executing, or done, or dead, keeps nobody out for   *)
(* ever: whatever fails, once it has ended its capacity is given back for  *)
(* good (docs/scale-out.md:104).                                           *)
CapacityReturns == \A i \in Ids : pc[i] \in Ended ~> [](~ Arbiter!Live(i))

(* A call that has started ends, in one of the ways the code names.        *)
StartedCallsEnd == \A i \in Ids : InProgress(i) ~> pc[i] \in Ended

(* The baselines a call reads from the tree (_precheck) may be old when    *)
(* its reservation is applied, and others have recorded since; raising a   *)
(* row to them still never charges it with anything that is not settled.   *)
StaleBaselinesHarmless ==
  unsure = {} =>
    \A i \in Ids : pc[i] = "asking" => \A k \in Keys : ask[i].base[k] <= budget[k]

(* docs/scale-out.md:122: total settled spend is bounded by the budget     *)
(* plus overshoot, and exact meters do not exceed the limit.  Stated for   *)
(* calls that all cost their estimate and of which none was reported lost. *)
ExactWithinLimit ==
  (\A i \in Ids : ~ lost[i] /\ (state[i] = "settled" => paid[i] = request[i].est))
    => \A k \in Keys : Arbiter!Paid(k) <= Limit[k]
=============================================================================
