-------------------------- MODULE GovernedCallProofs --------------------------
(***************************************************************************)
(* Proofs about GovernedCall for any number of workers, calls, rows and    *)
(* windows, and any interleaving of failures, crashes and renewals; and    *)
(* about the tree that runs record their calls in, for any number of runs, *)
(* in any modes, at once (RecordedCalls).                                  *)
(***************************************************************************)
EXTENDS GovernedCall, Sequences, SequenceTheorems

(* The types of the arbiter's tables, expanded once. *)
USE DEF Arbiter!TypeOK, Arbiter!Rows

-----------------------------------------------------------------------------
(* One transaction of the arbiter keeps the type of its tables.            *)

LEMMA ReserveTypes ==
  ASSUME Arbiter!TypeOK, NEW i \in Ids, NEW q \in Arbiter!RequestType, Arbiter!Reserve(i, q)
  PROVE  Arbiter!TypeOK'
<1> USE RowsAssumption
<1>1. Arbiter!SyncRows(q) => budget' \in [Keys -> Nat] /\ present' \in SUBSET Keys
  BY DEF Arbiter!SyncRows, Arbiter!Visited, Arbiter!Synced, Arbiter!Larger,
         Arbiter!RequestType
<1>2. Arbiter!Purged \in SUBSET (Ids \X Windows)
  BY DEF Arbiter!Purged
<1>3. CASE Arbiter!RetryReserve(i, q)
  BY <1>3 DEF Arbiter!RetryReserve, Arbiter!vars, Arbiter!reservations, Arbiter!ledger
<1>4. CASE Arbiter!RefuseByBudget(i, q)
  BY <1>1, <1>4 DEF Arbiter!RefuseByBudget, Arbiter!reservations
<1>5. CASE Arbiter!RefuseByWindow(i, q)
  BY <1>1, <1>2, <1>5 DEF Arbiter!RefuseByWindow, Arbiter!reservations
<1>6. CASE Arbiter!Grant(i, q)
  BY <1>1, <1>2, <1>6 DEF Arbiter!Grant, Arbiter!Expiry, Arbiter!States
<1> QED
  BY <1>3, <1>4, <1>5, <1>6 DEF Arbiter!Reserve

LEMMA SettleTypes ==
  ASSUME Arbiter!TypeOK, NEW i \in Ids, NEW ch \in [Meters -> Nat], Arbiter!Settle(i, ch)
  PROVE  Arbiter!TypeOK'
<1> USE RowsAssumption
<1>1. CASE Arbiter!SettleActive(i, ch)
  <2>1. budget' \in [Keys -> Nat]
    BY <1>1 DEF Arbiter!SettleActive, Arbiter!SettledBudget
  <2>2. events' \in SUBSET (Ids \X Windows)
    BY <1>1 DEF Arbiter!SettleActive, Arbiter!SettledEvents, Arbiter!RequestType
  <2> QED
    BY <1>1, <2>1, <2>2 DEF Arbiter!SettleActive, Arbiter!States, Arbiter!ChargeType
<1>2. CASE Arbiter!RetrySettle(i, ch)
  BY <1>2 DEF Arbiter!RetrySettle, Arbiter!vars, Arbiter!reservations, Arbiter!ledger
<1> QED
  BY <1>1, <1>2 DEF Arbiter!Settle

LEMMA ReleaseTypes ==
  ASSUME Arbiter!TypeOK, NEW i \in Ids, Arbiter!Release(i)
  PROVE  Arbiter!TypeOK'
<1>1. CASE UNCHANGED Arbiter!vars
  BY <1>1 DEF Arbiter!vars, Arbiter!reservations, Arbiter!ledger
<1>2. CASE ~ UNCHANGED Arbiter!vars
  BY <1>2 DEF Arbiter!Release, Arbiter!ledger, Arbiter!States
<1> QED
  BY <1>1, <1>2

LEMMA RenewTypes ==
  ASSUME Arbiter!TypeOK, NEW i \in Ids, Arbiter!Renew(i)
  PROVE  Arbiter!TypeOK'
<1>1. CASE UNCHANGED Arbiter!vars
  BY <1>1 DEF Arbiter!vars, Arbiter!reservations, Arbiter!ledger
<1>2. CASE ~ UNCHANGED Arbiter!vars
  <2>1. Arbiter!Expiry \in Nat
    BY RowsAssumption DEF Arbiter!Expiry
  <2>2. expires' = [expires EXCEPT ![i] = Arbiter!Expiry]
    BY <1>2 DEF Arbiter!Renew
  <2>3. expires' \in [Ids -> Nat]
    BY <2>1, <2>2
  <2> QED
    BY <1>2, <2>3 DEF Arbiter!Renew, Arbiter!ledger
<1> QED
  BY <1>1, <1>2

-----------------------------------------------------------------------------
(* What one transaction leaves alone, and what it does to its reservation. *)

(* The reservations other than i keep their state, request and charges. *)
Others(i) ==
  /\ \A j \in Ids \ {i} : state'[j] = state[j] /\ request'[j] = request[j] /\ paid'[j] = paid[j]
  /\ present \subseteq present'

LEMMA ReserveEffect ==
  ASSUME Arbiter!TypeOK, NEW i \in Ids, NEW q \in Arbiter!RequestType, Arbiter!Reserve(i, q)
  PROVE  /\ Others(i)
         /\ \/ state'[i] = state[i] /\ request'[i] = request[i] /\ paid'[i] = paid[i]
            \/ /\ state[i] = "none" /\ state'[i] = "active" /\ request'[i] = q
               /\ q.keys \subseteq present' /\ paid'[i] = paid[i]
               /\ Arbiter!ReserveReply(i, q) = "ok"
         /\ Arbiter!ReserveReply(i, q) = "ok" =>
              state'[i] = "active" /\ request'[i] = q
         /\ Arbiter!ReserveReply(i, q) \notin {"ok", "IntegrityError"} =>
              state[i] = "none" /\ state'[i] = "none"
<1>1. CASE Arbiter!RetryReserve(i, q)
  BY <1>1 DEF Arbiter!RetryReserve, Arbiter!vars, Arbiter!reservations, Arbiter!ledger, Others,
              Arbiter!ReserveReply, Arbiter!ReplyByCapacity, Arbiter!Live
<1>2. CASE Arbiter!RefuseByBudget(i, q)
  BY <1>2 DEF Arbiter!RefuseByBudget, Arbiter!reservations, Others, Arbiter!SyncRows,
              Arbiter!ReserveReply, Arbiter!ReplyByCapacity
<1>3. CASE Arbiter!RefuseByWindow(i, q)
  BY <1>3 DEF Arbiter!RefuseByWindow, Arbiter!reservations, Others, Arbiter!SyncRows,
              Arbiter!ReserveReply, Arbiter!ReplyByCapacity
<1>4. CASE Arbiter!Grant(i, q)
  <2>1. q.keys \subseteq present'
    BY <1>4 DEF Arbiter!Grant, Arbiter!SyncRows, Arbiter!Visited
  <2> QED
    BY <1>4, <2>1 DEF Arbiter!Grant, Others, Arbiter!SyncRows, Arbiter!ReserveReply,
       Arbiter!ReplyByCapacity
<1> QED
  BY <1>1, <1>2, <1>3, <1>4 DEF Arbiter!Reserve

LEMMA SettleEffect ==
  ASSUME Arbiter!TypeOK, NEW i \in Ids, NEW ch \in [Meters -> Nat], Arbiter!Settle(i, ch)
  PROVE  /\ Others(i)
         /\ request' = request
         /\ IF Arbiter!CanSettle(i) THEN state'[i] = "settled" /\ paid'[i] = ch
                                    ELSE state'[i] = state[i] /\ paid'[i] = paid[i]
<1>1. CASE Arbiter!SettleActive(i, ch)
  BY <1>1 DEF Arbiter!SettleActive, Others
<1>2. CASE Arbiter!RetrySettle(i, ch)
  BY <1>2 DEF Arbiter!RetrySettle, Arbiter!vars, Arbiter!reservations, Arbiter!ledger, Others
<1> QED
  BY <1>1, <1>2 DEF Arbiter!Settle

LEMMA ReleaseEffect ==
  ASSUME Arbiter!TypeOK, NEW i \in Ids, Arbiter!Release(i)
  PROVE  /\ Others(i)
         /\ request' = request /\ paid' = paid
         /\ state'[i] = state[i] \/ (state[i] = "active" /\ state'[i] = "released")
<1>1. CASE UNCHANGED Arbiter!vars
  BY <1>1 DEF Arbiter!vars, Arbiter!reservations, Arbiter!ledger, Others
<1>2. CASE ~ UNCHANGED Arbiter!vars
  BY <1>2 DEF Arbiter!Release, Arbiter!CanRelease, Arbiter!ledger, Others
<1> QED
  BY <1>1, <1>2

LEMMA RenewEffect ==
  ASSUME NEW i \in Ids, Arbiter!Renew(i)
  PROVE  UNCHANGED <<now, state, request, paid, completed, budget, present, events>>
BY DEF Arbiter!Renew, Arbiter!vars, Arbiter!reservations, Arbiter!ledger

-----------------------------------------------------------------------------
(* Types.                                                                  *)

LEMMA SpentType == ASSUME TypeOK, NEW k \in Keys PROVE Spent(k) \in Nat
<1> DEFINE S == {i \in recorded : k \in Plan[i].keys}
           f == [i \in Ids |-> charge[i][MeterOf[k]]]
<1>1. IsFiniteSet(S)
  BY RowsAssumption, FS_Subset DEF TypeOK
<1>2. \A i \in S : f[i] \in Nat
  BY RowsAssumption DEF TypeOK
<1> HIDE DEF S, f
<1>3. Total(S, f) \in Nat
  BY <1>1, <1>2, TotalType
<1> QED
  BY <1>3 DEF Spent, S, f

LEMMA InitTypes == Init => TypeOK
BY DEF Init, TypeOK, Arbiter!Init, Arbiter!NoRequest, Arbiter!NoCharge, NoCharge, Stages,
       Arbiter!RequestType, Arbiter!ChargeType, Arbiter!States

LEMMA NoRequestType == Arbiter!NoRequest \in Arbiter!RequestType
BY DEF Arbiter!NoRequest, Arbiter!NoCharge, Arbiter!RequestType

LEMMA ReservingTypes ==
  ASSUME TypeOK, NEW i \in Ids, Reserving(i)
  PROVE  TypeOK'
<1> USE NoRequestType
    DEF TypeOK, Goto, arbiterVars, callVars, leaseVars, treeVars, Stages, Ended
<1>1. CASE Precheck(i)
  BY <1>1 DEF Precheck
<1>2. CASE PrecheckFails(i)
  BY <1>2 DEF PrecheckFails
<1>3. CASE Snapshot(i)
  <2> DEFINE q == [keys |-> Plan[i].keys, wins |-> Plan[i].wins, est |-> Plan[i].est,
                   base |-> [k \in Keys |-> IF k \in Plan[i].keys THEN Spent(k) ELSE 0]]
  <2>1. q \in Arbiter!RequestType
    BY SpentType, WorkersAssumption DEF Arbiter!RequestType
  <2>2. ask' = [ask EXCEPT ![i] = q]
    BY <1>3 DEF Snapshot
  <2> HIDE DEF q
  <2>3. ask' \in [Ids -> Arbiter!RequestType]
    BY <2>1, <2>2
  <2> QED
    BY <1>3, <2>3 DEF Snapshot
<1>4. CASE ReserveAcked(i)
  <2>1. Arbiter!TypeOK'
    BY <1>4, ReserveTypes DEF ReserveAcked
  <2>2. PICK stage \in Stages : Acknowledged(i, stage)
    BY <1>4 DEF ReserveAcked, StageAfter
  <2>3. pc' \in [Ids -> Stages] /\ again' \in [Ids -> BOOLEAN]
    BY <2>2 DEF Acknowledged
  <2>4. ask' \in [Ids -> Arbiter!RequestType]
    BY <1>4 DEF ReserveAcked
  <2> QED
    BY <1>4, <2>1, <2>3, <2>4 DEF ReserveAcked
<1>5. CASE ReserveUnacked(i)
  <2>1. Arbiter!TypeOK'
    BY <1>5, ReserveTypes DEF ReserveUnacked, MaybeApplied
  <2>2. pc' \in [Ids -> Stages] /\ again' \in [Ids -> BOOLEAN]
    BY <1>5 DEF ReserveUnacked, TryAgainOr
  <2> QED
    BY <1>5, <2>1, <2>2 DEF ReserveUnacked
<1>6. CASE ReserveFails(i)
  BY <1>6 DEF ReserveFails, Acknowledged
<1>7. CASE StartLease(i)
  BY <1>7 DEF StartLease
<1> QED
  BY <1>1, <1>2, <1>3, <1>4, <1>5, <1>6, <1>7 DEF Reserving

LEMMA HeartbeatTypes ==
  ASSUME TypeOK, NEW i \in Ids, Heartbeat(i)
  PROVE  TypeOK'
<1> USE RowsAssumption DEF TypeOK, arbiterVars, callVars, leaseVars, treeVars
<1>1. CASE BeginHeartbeat(i)
  BY <1>1 DEF BeginHeartbeat
<1>2. CASE SendRenewal(i)
  BY <1>2 DEF SendRenewal
<1>3. CASE ApplyRenewal(i)
  <2>1. Arbiter!TypeOK'
    BY <1>3, RenewTypes DEF ApplyRenewal
  <2> QED
    BY <1>3, <2>1 DEF ApplyRenewal
<1>4. CASE RenewalConfirmed(i)
  BY <1>4 DEF RenewalConfirmed, RenewedDeadline
<1>5. CASE RenewalDenied(i)
  BY <1>5 DEF RenewalDenied
<1>6. CASE RenewalFails(i)
  BY <1>6 DEF RenewalFails
<1> QED
  BY <1>1, <1>2, <1>3, <1>4, <1>5, <1>6 DEF Heartbeat

LEMMA ReturningTypes ==
  ASSUME TypeOK, NEW i \in Ids, Returning(i)
  PROVE  TypeOK'
<1> USE WorkersAssumption
    DEF TypeOK, Goto, arbiterVars, callVars, leaseVars, treeVars, Stages, Ended
<1>1. CASE ReturnResult(i)
  BY <1>1 DEF ReturnResult
<1>2. CASE ReturnUnknown(i)
  BY <1>2 DEF ReturnUnknown
<1>3. CASE ReturnError(i)
  BY <1>3 DEF ReturnError
<1>4. CASE StopLease(i)
  BY <1>4 DEF StopLease, AfterStop
<1> QED
  BY <1>1, <1>2, <1>3, <1>4 DEF Returning

LEMMA SettleFailedTypes ==
  ASSUME pc \in [Ids -> Stages], unsure \subseteq Ids, NEW i \in Ids, NEW stage \in Stages,
         SettleFailed(i, stage)
  PROVE  pc' \in [Ids -> Stages] /\ unsure' \subseteq Ids
<1>1. CASE outcome[i] = "ok"
  BY <1>1 DEF SettleFailed, Goto
<1>2. CASE outcome[i] # "ok"
  <2>1. "recording" \in Stages
    BY DEF Stages
  <2> QED
    BY <1>2, <2>1 DEF SettleFailed, Goto
<1> QED
  BY <1>1, <1>2

LEMMA EndingTypes ==
  ASSUME TypeOK, NEW i \in Ids, Ending(i)
  PROVE  TypeOK'
<1> USE DEF TypeOK, Goto, arbiterVars, callVars, leaseVars, treeVars, Stages, Ended
<1>1. \A stage \in Stages : SettleFailed(i, stage) =>
        pc' \in [Ids -> Stages] /\ unsure' \subseteq Ids
  BY SettleFailedTypes
<1>2. CASE SettleAcked(i)
  <2>1. Arbiter!TypeOK'
    BY <1>2, SettleTypes DEF SettleAcked
  <2>2. pc' \in [Ids -> Stages] /\ unsure' \subseteq Ids
    BY <1>1, <1>2 DEF SettleAcked
  <2> QED
    BY <1>2, <2>1, <2>2 DEF SettleAcked
<1>3. CASE SettleUnacked(i)
  <2>1. Arbiter!TypeOK'
    BY <1>3, SettleTypes DEF SettleUnacked, MaybeApplied
  <2>2. pc' \in [Ids -> Stages] /\ unsure' \subseteq Ids
    BY <1>1, <1>3 DEF SettleUnacked
  <2> QED
    BY <1>3, <2>1, <2>2 DEF SettleUnacked
<1>4. CASE SettleFails(i)
  BY <1>1, <1>4 DEF SettleFails
<1>5. CASE Record(i)
  BY <1>5 DEF Record, Put
<1>6. CASE RecordFails(i)
  BY <1>6 DEF RecordFails, Put
<1>7. CASE Assess(i)
  BY <1>7, WorkersAssumption DEF Assess, Overspent
<1>8. CASE AssessFails(i)
  <2>1. PICK seen \in SUBSET Overspent(i) :
          exhausted' = [exhausted EXCEPT ![Owner[i]] = @ \cup seen]
    BY <1>8 DEF AssessFails
  <2>2. seen \subseteq Keys /\ Owner[i] \in Workers
    BY WorkersAssumption DEF Overspent
  <2>3. exhausted' \in [Workers -> SUBSET Keys]
    BY <2>1, <2>2
  <2> QED
    BY <1>8, <2>3 DEF AssessFails
<1>9. CASE ReleaseAcked(i)
  <2>1. Arbiter!TypeOK'
    BY <1>9, ReleaseTypes DEF ReleaseAcked
  <2> QED
    BY <1>9, <2>1 DEF ReleaseAcked, Acknowledged
<1>10. CASE ReleaseUnacked(i)
  <2>1. Arbiter!TypeOK'
    BY <1>10, ReleaseTypes DEF ReleaseUnacked, MaybeApplied
  <2>2. pc' \in [Ids -> Stages] /\ again' \in [Ids -> BOOLEAN]
    BY <1>10 DEF ReleaseUnacked, TryAgainOr
  <2> QED
    BY <1>10, <2>1, <2>2 DEF ReleaseUnacked
<1>11. CASE ReleaseFails(i)
  BY <1>11 DEF ReleaseFails, Acknowledged
<1> QED
  BY <1>2, <1>3, <1>4, <1>5, <1>6, <1>7, <1>8, <1>9, <1>10, <1>11 DEF Ending

LEMMA CrashTypes ==
  ASSUME TypeOK, NEW w \in Workers, Crash(w)
  PROVE  TypeOK'
BY NoRequestType
   DEF TypeOK, Crash, Cleared, arbiterVars, treeVars, Stages, Ended, NoCharge

(* Every variable keeps its type in every step; in particular every        *)
(* baseline sent and every amount stored is a number.                      *)
THEOREM CallTypeCorrect == Spec => []TypeOK
<1>1. TypeOK /\ [Next]_vars => TypeOK'
  <2> SUFFICES ASSUME TypeOK, [Next]_vars PROVE TypeOK'
    OBVIOUS
  <2>1. CASE Tick
    BY <2>1 DEF Tick, Arbiter!Tick, Arbiter!reservations, Arbiter!ledger, TypeOK, callVars,
                leaseVars, treeVars
  <2>2. CASE UNCHANGED vars
    BY <2>2 DEF vars, arbiterVars, callVars, leaseVars, treeVars, TypeOK
  <2> QED
    BY <2>1, <2>2, ReservingTypes, ReturningTypes, EndingTypes, HeartbeatTypes, CrashTypes
    DEF Next
<1> QED
  BY <1>1, InitTypes, PTL DEF Spec

-----------------------------------------------------------------------------
(* The inductive invariant: what the arbiter knows of a call at each stage *)
(* of it, whatever acknowledgements were lost on the way.  A settlement is *)
(* accepted because the call has held its reservation since the grant, and *)
(* a record is of a call whose charge is settled or marked as unsure.      *)

Planned(i) ==
  /\ request[i].keys = Plan[i].keys
  /\ request[i].wins = Plan[i].wins
  /\ Plan[i].keys \subseteq present
Granted(i) == state[i] = "active" /\ Planned(i)
Charged(i) == state[i] = "settled" /\ paid[i] = charge[i]
Finished(i) == outcome[i] \in {"ok", "unknown"}
Kept(i) == i \in recorded \/ (outcome[i] = "ok" /\ TakenBy(i) # {})

CallInv(i) ==
  /\ pc[i] \in {"idle", "checked", "refused"} => state[i] = "none"
  /\ pc[i] = "asking" => /\ ask[i].keys = Plan[i].keys /\ ask[i].wins = Plan[i].wins
                         /\ state[i] = "none" \/ Granted(i)
  /\ pc[i] \in {"granted", "running", "returned"} => Granted(i)
  /\ pc[i] \in {"idle", "checked", "asking", "granted", "running", "failed"}
       => outcome[i] = "none"
  /\ pc[i] = "returned" => outcome[i] # "none"
  /\ pc[i] = "settling" => Finished(i) /\ (Granted(i) \/ Charged(i))
  /\ pc[i] \in {"recording", "assessing", "done"} => Finished(i) /\ (i \in unsure \/ Charged(i))
  /\ pc[i] \in {"assessing", "done"} => Kept(i)
  /\ pc[i] \in {"releasing", "released"} => state[i] # "settled"
  /\ i \in recorded => /\ pc[i] \in {"assessing", "done", "aborted", "crashed"}
                       /\ i \in unsure \/ Charged(i)

IInv == \A i \in Ids : CallInv(i)

(* The tree forgets no call and no outcome. *)
TreeKept == \A n \in recorded : n \in recorded' /\ outcome'[n] = outcome[n]

(* A step of something else, as the call i and its reservation see it. *)
Still(i) ==
  /\ pc'[i] = pc[i] /\ ask'[i] = ask[i] /\ outcome'[i] = outcome[i] /\ charge'[i] = charge[i]
  /\ state'[i] = state[i] /\ request'[i] = request[i] /\ paid'[i] = paid[i]
  /\ present \subseteq present'
  /\ i \in recorded' <=> i \in recorded
  /\ i \in unsure' <=> i \in unsure

LEMMA StillKeeps ==
  ASSUME TypeOK, NEW i \in Ids, CallInv(i), Still(i), TreeKept
  PROVE  CallInv(i)'
<1>1. Granted(i) => Granted(i)'
  BY DEF Granted, Planned, Still
<1>2. Charged(i)' <=> Charged(i)
  BY DEF Charged, Still
<1>3. TakenBy(i) \subseteq TakenBy(i)'
  BY DEF TakenBy, TreeKept
<1>4. Kept(i) => Kept(i)'
  BY <1>3 DEF Kept, Still
<1>5. Finished(i)' <=> Finished(i)
  BY DEF Finished, Still
<1> QED
  BY <1>1, <1>2, <1>4, <1>5 DEF CallInv, Still

LEMMA InitHolds == Init => IInv
BY DEF Init, IInv, CallInv, Arbiter!Init

(* A step of the call j is no business of the others. *)
LEMMA OthersStill ==
  ASSUME TypeOK, IInv, NEW j \in Ids, NEW i \in Ids \ {j},
         Reserving(j) \/ Returning(j) \/ Ending(j) \/ Heartbeat(j)
  PROVE  Still(i) /\ TreeKept
<1> USE DEF TypeOK, Goto, arbiterVars, callVars, leaseVars, treeVars, Still, TreeKept
<1>1. Others(j) => /\ state'[i] = state[i] /\ request'[i] = request[i] /\ paid'[i] = paid[i]
                   /\ present \subseteq present'
  BY DEF Others
<1>2. CASE Precheck(j) \/ PrecheckFails(j) \/ Snapshot(j) \/ ReserveFails(j) \/ StartLease(j)
  BY <1>2 DEF Precheck, PrecheckFails, Snapshot, ReserveFails, StartLease, Acknowledged
<1>3. CASE ReserveAcked(j)
  BY <1>1, <1>3, ReserveEffect DEF ReserveAcked, Acknowledged
<1>4. CASE ReserveUnacked(j)
  BY <1>1, <1>4, ReserveEffect DEF ReserveUnacked, MaybeApplied, TryAgainOr
<1>5. CASE Heartbeat(j)
  <2>1. CASE ApplyRenewal(j)
    BY <2>1, RenewEffect DEF ApplyRenewal
  <2>2. CASE ~ ApplyRenewal(j)
    BY <1>5, <2>2 DEF Heartbeat, BeginHeartbeat, SendRenewal, RenewalConfirmed, RenewalDenied,
                      RenewalFails
  <2> QED
    BY <2>1, <2>2
<1>6. CASE Returning(j)
  <2>1. j \notin recorded
    BY <1>6 DEF Returning, ReturnResult, ReturnUnknown, ReturnError, StopLease, IInv, CallInv
  <2> QED
    BY <1>6, <2>1 DEF Returning, ReturnResult, ReturnUnknown, ReturnError, StopLease
<1>7. CASE SettleAcked(j)
  BY <1>1, <1>7, SettleEffect DEF SettleAcked, SettleFailed
<1>8. CASE SettleUnacked(j)
  BY <1>1, <1>8, SettleEffect DEF SettleUnacked, MaybeApplied, SettleFailed
<1>9. CASE SettleFails(j)
  BY <1>9 DEF SettleFails, SettleFailed
<1>10. CASE Record(j) \/ RecordFails(j) \/ Assess(j) \/ AssessFails(j)
  BY <1>10 DEF Record, RecordFails, Put, Assess, AssessFails
<1>11. CASE ReleaseAcked(j)
  BY <1>1, <1>11, ReleaseEffect DEF ReleaseAcked, Acknowledged
<1>12. CASE ReleaseUnacked(j)
  BY <1>1, <1>12, ReleaseEffect DEF ReleaseUnacked, MaybeApplied, TryAgainOr
<1>13. CASE ReleaseFails(j)
  BY <1>13 DEF ReleaseFails, Acknowledged
<1> QED
  BY <1>2, <1>3, <1>4, <1>5, <1>6, <1>7, <1>8, <1>9, <1>10, <1>11, <1>12, <1>13
  DEF Reserving, Ending

-----------------------------------------------------------------------------
(* A step of the call itself.                                              *)

LEMMA ReservingKeeps ==
  ASSUME TypeOK, IInv, NEW i \in Ids, Reserving(i)
  PROVE  CallInv(i)'
<1> USE DEF TypeOK, Goto, arbiterVars, callVars, leaseVars, treeVars
<1>1. CallInv(i) /\ i \notin recorded
  BY DEF IInv, CallInv, Reserving, Precheck, PrecheckFails, MayStart, Snapshot, ReserveAcked,
         ReserveUnacked, ReserveFails, StartLease
<1>2. CASE Precheck(i)
  BY <1>1, <1>2 DEF Precheck, MayStart, CallInv
<1>3. CASE PrecheckFails(i)
  BY <1>1, <1>3 DEF PrecheckFails, CallInv
<1>4. CASE Snapshot(i)
  <2>1. ask'[i].keys = Plan[i].keys /\ ask'[i].wins = Plan[i].wins /\ pc'[i] = "asking"
    BY <1>4 DEF Snapshot
  <2>2. state'[i] = "none" /\ outcome'[i] = "none" /\ i \notin recorded'
    BY <1>1, <1>4 DEF Snapshot, CallInv
  <2> QED
    BY <2>1, <2>2 DEF CallInv
<1>5. CASE ReserveAcked(i)
  <2> DEFINE reply == Arbiter!ReserveReply(i, ask[i])
  <2>1. ask[i] \in Arbiter!RequestType /\ Arbiter!Reserve(i, ask[i])
    BY <1>5 DEF ReserveAcked
  <2>2. ask[i].keys = Plan[i].keys /\ ask[i].wins = Plan[i].wins /\ outcome[i] = "none"
        /\ (state[i] = "none" \/ Granted(i))
    BY <1>1, <1>5 DEF ReserveAcked, CallInv
  <2>3. pc'[i] = StageAfter(reply) /\ outcome'[i] = outcome[i] /\ recorded' = recorded
    BY <1>5 DEF ReserveAcked, Acknowledged
  <2>4. present \subseteq present'
    BY <2>1, ReserveEffect DEF Others
  <2>5. CASE reply = "ok"
    <3>1. state'[i] = "active" /\ request'[i] = ask[i]
      BY <2>1, <2>5, ReserveEffect
    <3>2. Plan[i].keys \subseteq present'
      BY <2>1, <2>2, <2>4, <3>1, ReserveEffect DEF Granted, Planned
    <3>3. Granted(i)'
      BY <2>2, <3>1, <3>2 DEF Granted, Planned
    <3> QED
      BY <1>1, <2>2, <2>3, <2>5, <3>3 DEF CallInv, StageAfter
  <2>6. CASE reply = "IntegrityError"
    BY <1>1, <2>2, <2>3, <2>6 DEF CallInv, StageAfter
  <2>7. CASE reply \notin {"ok", "IntegrityError"}
    <3>1. state'[i] = "none"
      BY <2>1, <2>7, ReserveEffect
    <3> QED
      BY <1>1, <2>2, <2>3, <2>7, <3>1 DEF CallInv, StageAfter
  <2> QED
    BY <2>5, <2>6, <2>7
<1>6. CASE ReserveUnacked(i)
  <2>1. ask[i].keys = Plan[i].keys /\ ask[i].wins = Plan[i].wins /\ outcome[i] = "none"
        /\ (state[i] = "none" \/ Granted(i)) /\ ask[i] \in Arbiter!RequestType
    BY <1>1, <1>6 DEF ReserveUnacked, CallInv
  <2>2. state'[i] = "none" \/ Granted(i)'
    <3>1. CASE Arbiter!Reserve(i, ask[i])
      BY <2>1, <3>1, ReserveEffect DEF Granted, Planned, Others
    <3>2. CASE UNCHANGED arbiterVars
      BY <2>1, <3>2 DEF Granted, Planned
    <3> QED
      BY <1>6, <3>1, <3>2 DEF ReserveUnacked, MaybeApplied
  <2>3. pc'[i] = "unsure" \/ (pc'[i] = "asking" /\ ask'[i] = ask[i])
    BY <1>6 DEF ReserveUnacked, TryAgainOr
  <2>4. outcome'[i] = outcome[i] /\ recorded' = recorded
    BY <1>6 DEF ReserveUnacked
  <2> QED
    BY <1>1, <2>1, <2>2, <2>3, <2>4 DEF CallInv
<1>7. CASE ReserveFails(i)
  BY <1>1, <1>7 DEF ReserveFails, Acknowledged, CallInv
<1>8. CASE StartLease(i)
  BY <1>1, <1>8 DEF StartLease, CallInv, Granted, Planned
<1> QED
  BY <1>2, <1>3, <1>4, <1>5, <1>6, <1>7, <1>8 DEF Reserving

LEMMA HeartbeatKeeps ==
  ASSUME TypeOK, IInv, NEW i \in Ids, Heartbeat(i)
  PROVE  CallInv(i)'
<1> USE DEF callVars, leaseVars, treeVars, arbiterVars
<1>1. CASE ApplyRenewal(i)
  BY <1>1, RenewEffect, StillKeeps DEF ApplyRenewal, Still, TreeKept, IInv
<1>2. CASE ~ ApplyRenewal(i)
  <2>1. Still(i) /\ TreeKept
    BY <1>2 DEF Heartbeat, BeginHeartbeat, SendRenewal, RenewalConfirmed, RenewalDenied,
                RenewalFails, Still, TreeKept
  <2> QED
    BY <2>1, StillKeeps DEF IInv
<1> QED
  BY <1>1, <1>2

LEMMA ReturningKeeps ==
  ASSUME TypeOK, IInv, NEW i \in Ids, Returning(i)
  PROVE  CallInv(i)'
<1> USE DEF TypeOK, Goto, arbiterVars, callVars, leaseVars, treeVars
<1>1. CallInv(i) /\ i \notin recorded /\ Granted(i)
  BY DEF IInv, CallInv, Returning, ReturnResult, ReturnUnknown, ReturnError, StopLease
<1>2. UNCHANGED <<state, request, present, recorded>>
  BY DEF Returning, ReturnResult, ReturnUnknown, ReturnError, StopLease
<1>3. Granted(i)'
  BY <1>1, <1>2 DEF Granted, Planned
<1>4. CASE ReturnResult(i) \/ ReturnUnknown(i) \/ ReturnError(i)
  <2>1. pc'[i] = "returned" /\ outcome'[i] # "none"
    BY <1>4 DEF ReturnResult, ReturnUnknown, ReturnError
  <2> QED
    BY <1>1, <1>2, <1>3, <2>1 DEF CallInv
<1>5. CASE StopLease(i)
  <2>1. outcome[i] # "none" /\ outcome' = outcome
    BY <1>1, <1>5 DEF StopLease, CallInv
  <2>2. pc'[i] = IF outcome[i] = "error" THEN "releasing" ELSE "settling"
    BY <1>5 DEF StopLease, AfterStop
  <2> QED
    BY <1>1, <1>2, <1>3, <2>1, <2>2 DEF CallInv, Finished, Granted
<1> QED
  BY <1>4, <1>5 DEF Returning

LEMMA EndingKeeps ==
  ASSUME TypeOK, IInv, NEW i \in Ids, Ending(i)
  PROVE  CallInv(i)'
<1> USE DEF TypeOK, Goto, arbiterVars, callVars, leaseVars, treeVars
<1>1. CallInv(i)
  BY DEF IInv
<1>2. ASSUME pc[i] = "settling", UNCHANGED <<outcome, charge, recorded>>,
             Arbiter!Settle(i, charge[i])
      PROVE  /\ Charged(i)' /\ Finished(i)' /\ i \notin recorded'
             /\ Arbiter!SettleReply(i, charge[i]) = "ok"
  <2>1. charge[i] \in [Meters -> Nat] /\ Finished(i) /\ i \notin recorded
        /\ (Granted(i) \/ Charged(i))
    BY <1>1, <1>2 DEF CallInv
  <2>2. Granted(i) => Arbiter!CanSettle(i)
    BY WorkersAssumption DEF Granted, Planned, Arbiter!CanSettle, Arbiter!Details
  <2> QED
    BY <1>2, <2>1, <2>2, SettleEffect DEF Charged, Finished, Arbiter!SettleReply
<1>3. CASE SettleAcked(i)
  <2>1. pc'[i] = "recording"
    BY <1>2, <1>3 DEF SettleAcked
  <2>2. Charged(i)' /\ Finished(i)' /\ i \notin recorded'
    BY <1>2, <1>3 DEF SettleAcked
  <2> QED
    BY <2>1, <2>2 DEF CallInv
<1>4. ASSUME pc[i] = "settling", UNCHANGED <<outcome, recorded>>, NEW stage,
             stage \in {"uncertain", "aborted"}, SettleFailed(i, stage)
      PROVE  CallInv(i)'
  <2>1. Finished(i)' /\ i \notin recorded'
    BY <1>1, <1>4 DEF CallInv, Finished
  <2>2. CASE outcome[i] = "ok"
    <3>1. pc'[i] = stage
      BY <1>4, <2>2 DEF SettleFailed
    <3> QED
      BY <1>4, <2>1, <3>1 DEF CallInv
  <2>3. CASE outcome[i] # "ok"
    <3>1. pc'[i] = "recording" /\ i \in unsure'
      BY <1>4, <2>3 DEF SettleFailed
    <3> QED
      BY <2>1, <3>1 DEF CallInv
  <2> QED
    BY <2>2, <2>3
<1>5. CASE SettleUnacked(i)
  <2>1. CASE again[i]
    BY <1>4, <1>5, <2>1 DEF SettleUnacked
  <2>2. CASE ~ again[i]
    <3>1. pc'[i] = "settling" /\ UNCHANGED <<outcome, charge, recorded>>
      BY <1>5, <2>2 DEF SettleUnacked
    <3>2. Finished(i)' /\ i \notin recorded'
      BY <1>1, <1>5, <3>1 DEF CallInv, Finished, SettleUnacked
    <3>3. CASE Arbiter!Settle(i, charge[i])
      BY <1>2, <1>5, <3>1, <3>2, <3>3 DEF CallInv, SettleUnacked
    <3>4. CASE UNCHANGED arbiterVars
      <4>1. Granted(i)' \/ Charged(i)'
        BY <1>1, <1>5, <3>1, <3>4 DEF SettleUnacked, CallInv, Granted, Planned, Charged
      <4> QED
        BY <3>1, <3>2, <4>1 DEF CallInv
    <3> QED
      BY <1>5, <3>3, <3>4 DEF SettleUnacked, MaybeApplied
  <2> QED
    BY <2>1, <2>2
<1>6. CASE SettleFails(i)
  BY <1>4, <1>6 DEF SettleFails
<1>7. ASSUME pc[i] \in {"recording", "assessing"},
             UNCHANGED <<state, paid, outcome, charge, unsure>>
      PROVE  Finished(i)' /\ (i \in unsure' \/ Charged(i)')
  BY <1>1, <1>7 DEF CallInv, Finished, Charged
<1>8. CASE Record(i)
  <2>1. pc'[i] = "assessing" /\ Finished(i)' /\ (i \in unsure' \/ Charged(i)')
    BY <1>7, <1>8 DEF Record
  <2>2. Kept(i)'
    BY <1>8 DEF Record, Put, Kept, TakenBy
  <2> QED
    BY <2>1, <2>2 DEF CallInv
<1>9. CASE RecordFails(i) \/ AssessFails(i)
  <2>1. pc'[i] = "aborted" /\ (i \in unsure' \/ Charged(i)')
    BY <1>7, <1>9 DEF RecordFails, AssessFails
  <2> QED
    BY <2>1 DEF CallInv
<1>10. CASE Assess(i)
  <2>1. pc'[i] = "done" /\ Finished(i)' /\ (i \in unsure' \/ Charged(i)')
    BY <1>7, <1>10 DEF Assess
  <2>2. Kept(i)'
    BY <1>1, <1>10 DEF Assess, CallInv, Kept, TakenBy
  <2> QED
    BY <2>1, <2>2 DEF CallInv
<1>11. CASE ReleaseAcked(i) \/ ReleaseUnacked(i) \/ ReleaseFails(i)
  <2>1. state[i] # "settled" /\ i \notin recorded /\ recorded' = recorded
    BY <1>1, <1>11 DEF CallInv, ReleaseAcked, ReleaseUnacked, ReleaseFails
  <2>2. state'[i] # "settled"
    BY <1>11, <2>1, ReleaseEffect DEF ReleaseAcked, ReleaseUnacked, ReleaseFails, MaybeApplied
  <2>3. pc'[i] \in {"releasing", "released"}
    BY <1>11 DEF ReleaseAcked, ReleaseUnacked, ReleaseFails, Acknowledged, TryAgainOr
  <2> QED
    BY <2>1, <2>2, <2>3 DEF CallInv
<1> QED
  BY <1>3, <1>5, <1>6, <1>8, <1>9, <1>10, <1>11 DEF Ending

LEMMA CrashKeeps ==
  ASSUME TypeOK, IInv, NEW w \in Workers, Crash(w), NEW i \in Ids
  PROVE  CallInv(i)'
<1> USE DEF TypeOK, arbiterVars, treeVars
<1>1. TreeKept
  BY DEF Crash, TreeKept, Cleared
<1>2. CASE i \in Dying(w)
  <2>1. pc'[i] = "crashed"
    BY <1>2 DEF Crash
  <2>2. i \in recorded' => i \in unsure' \/ Charged(i)'
    BY DEF Crash, Cleared, IInv, CallInv, Charged
  <2> QED
    BY <2>1, <2>2 DEF CallInv
<1>3. CASE i \notin Dying(w)
  <2>1. Still(i)
    BY <1>3 DEF Crash, Cleared, Still
  <2> QED
    BY <1>1, <2>1, StillKeeps DEF IInv
<1> QED
  BY <1>2, <1>3

LEMMA Inductive == Spec => []IInv
<1>1. TypeOK /\ IInv /\ [Next]_vars => IInv'
  <2> SUFFICES ASSUME TypeOK, IInv, [Next]_vars, NEW i \in Ids PROVE CallInv(i)'
    BY DEF IInv
  <2>1. ASSUME NEW j \in Ids, Reserving(j) \/ Returning(j) \/ Ending(j) \/ Heartbeat(j)
        PROVE  CallInv(i)'
    <3>1. CASE i = j
      BY <2>1, <3>1, ReservingKeeps, ReturningKeeps, EndingKeeps, HeartbeatKeeps
    <3>2. CASE i # j
      BY <2>1, <3>2, OthersStill, StillKeeps DEF IInv
    <3> QED
      BY <3>1, <3>2
  <2>2. ASSUME NEW w \in Workers, Crash(w) PROVE CallInv(i)'
    BY <2>2, CrashKeeps
  <2>3. CASE Tick \/ UNCHANGED vars
    <3>1. Still(i) /\ TreeKept
      BY <2>3 DEF Tick, Arbiter!Tick, Arbiter!reservations, Arbiter!ledger, vars, arbiterVars,
                  callVars, treeVars, Still, TreeKept
    <3> QED
      BY <3>1, StillKeeps DEF IInv
  <2> QED
    BY <2>1, <2>2, <2>3 DEF Next
<1> QED
  BY <1>1, InitHolds, CallTypeCorrect, PTL DEF Spec

(* A call refused by the arbiter never holds capacity, whichever of its    *)
(* two tries was applied.                                                  *)
THEOREM RefusalsHoldNothing == Spec => []RefusedHoldsNothing
<1>1. IInv => RefusedHoldsNothing
  BY DEF IInv, CallInv, RefusedHoldsNothing
<1> QED
  BY <1>1, Inductive, PTL

(* However acknowledgements are lost, renewals are late and workers die,   *)
(* an ended call is settled with its charge or recorded as unsure, and one *)
(* that failed before dispatch is charged nowhere.                         *)
THEOREM CallsAccounted == Spec => []EndedCallsAccounted
<1>1. TypeOK /\ IInv => EndedCallsAccounted
  <2> SUFFICES ASSUME TypeOK, IInv, NEW i \in Ids
               PROVE  /\ pc[i] = "done" =>
                           /\ i \in unsure \/ (state[i] = "settled" /\ paid[i] = charge[i])
                           /\ i \in recorded \/ (outcome[i] = "ok" /\ TakenBy(i) # {})
                      /\ pc[i] = "released" => state[i] # "settled" /\ i \notin recorded
                      /\ pc[i] = "failed" => outcome[i] = "none"
    BY DEF EndedCallsAccounted
  <2> QED
    BY DEF IInv, CallInv, Charged, Kept
<1> QED
  BY <1>1, CallTypeCorrect, Inductive, PTL

(* No crash, retry or duplicate puts a charge into the tree that the       *)
(* ledger of the arbiter has not got, unless it is marked as unsure.       *)
THEOREM TreeBehindLedger == Spec => []SettledBeforeRecorded
<1>1. TypeOK /\ IInv => SettledBeforeRecorded
  BY DEF IInv, CallInv, Charged, SettledBeforeRecorded, TypeOK
<1> QED
  BY <1>1, CallTypeCorrect, Inductive, PTL

-----------------------------------------------------------------------------
(***************************************************************************)
(* The heartbeat of a governed call tells the truth about its lease.       *)
(*                                                                         *)
(* A renewal can only move the expiry forward, to a lease after the        *)
(* instant it is applied, which is not before the instant it was sent; the *)
(* heartbeat counts its deadline from when it was sent (LeaseInv).         *)
(***************************************************************************)
LeaseInv(i) ==
  /\ expires[i] <= now + Lease
  /\ attempted[i] <= now
  /\ beat[i] = "confirmed" => attempted[i] + Lease <= expires[i]
  /\ renewed[i] => /\ Listening(i) /\ beat[i] # "starting"
                   /\ deadline[i] <= expires[i]

LeasesInv == \A i \in Ids : LeaseInv(i)

(* Leases only grow, and time does not go back. *)
Longer(i) == now <= now' /\ expires[i] <= expires'[i] /\ expires'[i] <= now' + Lease

-----------------------------------------------------------------------------
(* Of the arbiter's transactions a grant and a renewal move an expiry, to  *)
(* a lease after the present.                                              *)
LEMMA ExpiryMoves ==
  ASSUME TypeOK, NEW i \in Ids,
         \/ \E q \in Arbiter!RequestType : Arbiter!Reserve(i, q)
         \/ \E ch \in [Meters -> Nat] : Arbiter!Settle(i, ch)
         \/ Arbiter!Release(i) \/ Arbiter!Renew(i)
         \/ UNCHANGED arbiterVars
  PROVE  /\ now' = now
         /\ \/ expires' = expires
            \/ expires' = [expires EXCEPT ![i] = now + Lease]
  BY DEF Arbiter!Reserve, Arbiter!RetryReserve, Arbiter!RefuseByBudget, Arbiter!RefuseByWindow,
         Arbiter!Grant, Arbiter!Expiry, Arbiter!Settle, Arbiter!SettleActive,
         Arbiter!RetrySettle, Arbiter!Release, Arbiter!Renew, Arbiter!vars,
         Arbiter!reservations, Arbiter!ledger, arbiterVars

LEMMA MovesLonger ==
  ASSUME TypeOK, LeasesInv, NEW j \in Ids, now' = now,
         expires' = expires \/ expires' = [expires EXCEPT ![j] = now + Lease]
  PROVE  \A i \in Ids : Longer(i)
<1> SUFFICES ASSUME NEW i \in Ids PROVE Longer(i)
  OBVIOUS
<1>1. now \in Nat /\ Lease \in Nat /\ expires[i] \in Nat /\ expires[i] <= now + Lease
  BY RowsAssumption DEF TypeOK, LeasesInv, LeaseInv
<1>2. expires'[i] \in {expires[i], now + Lease}
  BY DEF TypeOK
<1> QED
  BY <1>1, <1>2 DEF Longer

LEMMA StepLonger ==
  ASSUME TypeOK, LeasesInv, [Next]_vars
  PROVE  \A i \in Ids : Longer(i)
<1>1. ASSUME NEW j \in Ids, Reserving(j) PROVE \A i \in Ids : Longer(i)
  <2>1. ask[j] \in Arbiter!RequestType
    BY DEF TypeOK
  <2>2. (\E q \in Arbiter!RequestType : Arbiter!Reserve(j, q)) \/ UNCHANGED arbiterVars
    BY <1>1, <2>1 DEF Reserving, Precheck, PrecheckFails, Snapshot, ReserveAcked, ReserveUnacked,
       ReserveFails, StartLease, MaybeApplied
  <2> QED
    BY <2>2, ExpiryMoves, MovesLonger
<1>2. ASSUME NEW j \in Ids, Ending(j) PROVE \A i \in Ids : Longer(i)
  <2>1. charge[j] \in [Meters -> Nat]
    BY DEF TypeOK
  <2>2. \/ \E ch \in [Meters -> Nat] : Arbiter!Settle(j, ch)
        \/ Arbiter!Release(j) \/ UNCHANGED arbiterVars
    BY <1>2, <2>1 DEF Ending, SettleAcked, SettleUnacked, SettleFails, Record, RecordFails, Assess,
       AssessFails, ReleaseAcked, ReleaseUnacked, ReleaseFails, MaybeApplied
  <2> QED
    BY <2>2, ExpiryMoves, MovesLonger
<1>3. ASSUME NEW j \in Ids, Returning(j) \/ Heartbeat(j) PROVE \A i \in Ids : Longer(i)
  <2>1. Arbiter!Renew(j) \/ UNCHANGED arbiterVars
    BY <1>3 DEF Returning, ReturnResult, ReturnUnknown, ReturnError, StopLease, Heartbeat,
       BeginHeartbeat, SendRenewal, ApplyRenewal, RenewalConfirmed, RenewalDenied, RenewalFails
  <2> QED
    BY <2>1, ExpiryMoves, MovesLonger
<1>4. CASE (\E w \in Workers : Crash(w)) \/ UNCHANGED vars
  <2>1. UNCHANGED <<now, expires>>
    BY <1>4 DEF Crash, vars, arbiterVars
  <2> QED
    BY <2>1, RowsAssumption DEF TypeOK, LeasesInv, LeaseInv, Longer
<1>5. CASE Tick
  <2>1. now' = now + 1 /\ expires' = expires
    BY <1>5 DEF Tick, Arbiter!Tick, Arbiter!reservations
  <2> QED
    BY <2>1, RowsAssumption DEF TypeOK, LeasesInv, LeaseInv, Longer
<1> QED
  BY <1>1, <1>2, <1>3, <1>4, <1>5 DEF Next

-----------------------------------------------------------------------------
(* What else a lease is about.                                             *)

(* A step that leaves the heartbeat of i alone. *)
Quiet(i) ==
  /\ beat'[i] = beat[i] /\ attempted'[i] = attempted[i]
  /\ deadline'[i] = deadline[i] /\ renewed'[i] = renewed[i]
  /\ Listening(i) => Listening(i)'

LEMMA QuietKeeps ==
  ASSUME TypeOK, TypeOK', NEW i \in Ids, LeaseInv(i), Longer(i), Quiet(i)
  PROVE  LeaseInv(i)'
  BY RowsAssumption DEF TypeOK, LeaseInv, Longer, Quiet

LEMMA OthersQuiet ==
  ASSUME TypeOK, NEW j \in Ids, NEW i \in Ids \ {j},
         Reserving(j) \/ Returning(j) \/ Ending(j) \/ Heartbeat(j)
  PROVE  Quiet(i)
<1> USE DEF TypeOK, Goto, callVars, leaseVars, Quiet, Listening
<1>1. CASE Reserving(j)
  BY <1>1 DEF Reserving, Precheck, PrecheckFails, Snapshot, ReserveAcked, ReserveUnacked,
     ReserveFails, StartLease, Acknowledged, TryAgainOr
<1>2. CASE Returning(j)
  BY <1>2 DEF Returning, ReturnResult, ReturnUnknown, ReturnError, StopLease
<1>3. CASE Ending(j)
  BY <1>3 DEF Ending, SettleAcked, SettleUnacked, SettleFails, SettleFailed, Record, RecordFails,
     Assess, AssessFails, ReleaseAcked, ReleaseUnacked, ReleaseFails, Acknowledged, TryAgainOr
<1>4. CASE Heartbeat(j)
  BY <1>4 DEF Heartbeat, BeginHeartbeat, SendRenewal, ApplyRenewal, RenewalConfirmed,
     RenewalDenied, RenewalFails
<1> QED
  BY <1>1, <1>2, <1>3, <1>4

(* The call's own steps before and after its function runs. *)
LEMMA ReservingLease ==
  ASSUME TypeOK, TypeOK', NEW i \in Ids, LeaseInv(i), Longer(i), Reserving(i)
  PROVE  LeaseInv(i)'
<1> USE DEF TypeOK, Goto, callVars, leaseVars, Listening
<1>1. ~ Listening(i) /\ ~ renewed[i]
  BY DEF LeaseInv, Reserving, Precheck, PrecheckFails, Snapshot, ReserveAcked, ReserveUnacked,
     ReserveFails, StartLease, MayStart
<1>2. UNCHANGED <<attempted, deadline, renewed>>
      /\ (beat'[i] = beat[i] \/ beat'[i] = "starting")
  BY DEF Reserving, Precheck, PrecheckFails, Snapshot, ReserveAcked, ReserveUnacked,
     ReserveFails, StartLease
<1> QED
  BY <1>1, <1>2, RowsAssumption DEF LeaseInv, Longer

LEMMA ReturningLease ==
  ASSUME TypeOK, TypeOK', NEW i \in Ids, LeaseInv(i), Longer(i), Returning(i)
  PROVE  LeaseInv(i)'
<1> USE DEF TypeOK, Goto, callVars, leaseVars
<1>1. CASE ReturnResult(i) \/ ReturnUnknown(i) \/ ReturnError(i)
  <2>1. Quiet(i)
    BY <1>1 DEF ReturnResult, ReturnUnknown, ReturnError, Quiet, Listening
  <2> QED
    BY <2>1, QuietKeeps
<1>2. CASE StopLease(i)
  <2>1. attempted'[i] = 0 /\ ~ renewed'[i] /\ beat'[i] \in {"sent", "off"}
    BY <1>2 DEF StopLease
  <2> QED
    BY <2>1, RowsAssumption DEF LeaseInv, Longer
<1> QED
  BY <1>1, <1>2 DEF Returning

LEMMA EndingLease ==
  ASSUME TypeOK, TypeOK', NEW i \in Ids, LeaseInv(i), Longer(i), Ending(i)
  PROVE  LeaseInv(i)'
<1>1. ~ Listening(i) /\ UNCHANGED leaseVars
  BY DEF Listening, Ending, SettleAcked, SettleUnacked, SettleFails, Record, RecordFails,
     Assess, AssessFails, ReleaseAcked, ReleaseUnacked, ReleaseFails
<1>2. Quiet(i)
  BY <1>1 DEF Quiet, leaseVars
<1> QED
  BY <1>2, QuietKeeps

(* The heartbeat's own steps. *)
LEMMA HeartbeatLease ==
  ASSUME TypeOK, TypeOK', NEW i \in Ids, LeaseInv(i), Longer(i), Heartbeat(i)
  PROVE  LeaseInv(i)'
<1> USE RowsAssumption DEF TypeOK, callVars, leaseVars
<1>1. Listening(i)' <=> Listening(i)
  BY DEF Listening, Heartbeat, BeginHeartbeat, SendRenewal, ApplyRenewal, RenewalConfirmed,
     RenewalDenied, RenewalFails
<1>2. CASE BeginHeartbeat(i)
  <2>1. ~ renewed'[i] /\ beat'[i] = "waiting" /\ attempted' = attempted
    BY <1>2 DEF BeginHeartbeat, LeaseInv
  <2> QED
    BY <2>1 DEF LeaseInv, Longer
<1>3. CASE SendRenewal(i)
  <2>1. beat'[i] = "sent" /\ attempted'[i] = now /\ UNCHANGED <<now, deadline, renewed>>
    BY <1>3 DEF SendRenewal, arbiterVars
  <2> QED
    BY <1>1, <2>1 DEF LeaseInv, Longer
<1>4. CASE ApplyRenewal(i)
  <2>1. beat'[i] \in {"confirmed", "denied"} /\ UNCHANGED <<attempted, deadline, renewed>>
    BY <1>4 DEF ApplyRenewal
  <2>2. beat'[i] = "confirmed" => expires'[i] = now + Lease
    BY <1>4 DEF ApplyRenewal, Arbiter!Renew, Arbiter!Expiry
  <2> QED
    BY <1>1, <2>1, <2>2 DEF LeaseInv, Longer
<1>5. CASE RenewalConfirmed(i)
  <2>1. /\ beat[i] = "confirmed" /\ Listening(i) /\ beat'[i] = "waiting"
        /\ deadline'[i] = attempted[i] + Lease /\ attempted' = attempted
    BY <1>5 DEF RenewalConfirmed, RenewedDeadline
  <2> QED
    BY <1>1, <2>1 DEF LeaseInv, Longer
<1>6. CASE RenewalDenied(i) \/ RenewalFails(i)
  <2>1. beat'[i] \in {"off", "waiting"} /\ UNCHANGED <<attempted, deadline, renewed>>
    BY <1>6 DEF RenewalDenied, RenewalFails
  <2> QED
    BY <1>1, <2>1 DEF LeaseInv, Longer
<1> QED
  BY <1>2, <1>3, <1>4, <1>5, <1>6 DEF Heartbeat

(* A crash: what the dead process knew of the lease is gone. *)
LEMMA CrashLease ==
  ASSUME TypeOK, TypeOK', IInv, NEW i \in Ids, LeaseInv(i), Longer(i),
         NEW w \in Workers, Crash(w)
  PROVE  LeaseInv(i)'
<1> USE RowsAssumption DEF TypeOK
<1>1. attempted'[i] \in {0, attempted[i]} /\ (renewed'[i] => renewed[i])
      /\ beat'[i] \in {"off", beat[i]} /\ (renewed'[i] => deadline'[i] = deadline[i])
  BY DEF Crash, Cleared
<1>2. beat'[i] = "confirmed" => attempted'[i] <= attempted[i] /\ beat[i] = "confirmed"
  BY <1>1
<1>3. renewed'[i] => Listening(i)'
  <2> SUFFICES ASSUME renewed'[i] PROVE Listening(i)'
    OBVIOUS
  <2>1. Listening(i) /\ i \notin recorded
    BY <1>1 DEF LeaseInv, IInv, CallInv, Listening
  <2>2. i \notin Dying(w)
    BY <2>1 DEF Crash, Cleared
  <2> QED
    BY <2>1, <2>2 DEF Crash, Listening
<1> QED
  BY <1>1, <1>2, <1>3 DEF LeaseInv, Longer

LEMMA LeasesKept == Spec => []LeasesInv
<1>1. Init => LeasesInv
  BY RowsAssumption DEF Init, Arbiter!Init, LeasesInv, LeaseInv
<1>2. TypeOK /\ TypeOK' /\ IInv /\ LeasesInv /\ [Next]_vars => LeasesInv'
  <2> SUFFICES ASSUME TypeOK, TypeOK', IInv, LeasesInv, [Next]_vars, NEW i \in Ids
               PROVE  LeaseInv(i)'
    BY DEF LeasesInv
  <2>1. LeaseInv(i) /\ Longer(i)
    BY StepLonger DEF LeasesInv
  <2>2. ASSUME NEW j \in Ids, Reserving(j) \/ Returning(j) \/ Ending(j) \/ Heartbeat(j)
        PROVE  LeaseInv(i)'
    <3>1. CASE i = j
      BY <2>1, <2>2, <3>1, ReservingLease, ReturningLease, EndingLease, HeartbeatLease
    <3>2. CASE i # j
      BY <2>1, <2>2, <3>2, OthersQuiet, QuietKeeps
    <3> QED
      BY <3>1, <3>2
  <2>3. ASSUME NEW w \in Workers, Crash(w) PROVE LeaseInv(i)'
    BY <2>1, <2>3, CrashLease
  <2>4. CASE Tick \/ UNCHANGED vars
    <3>1. Quiet(i)
      BY <2>4 DEF Tick, vars, callVars, leaseVars, Quiet, Listening
    <3> QED
      BY <2>1, <3>1, QuietKeeps
  <2> QED
    BY <2>2, <2>3, <2>4 DEF Next
<1> QED
  BY <1>1, <1>2, CallTypeCorrect, Inductive, PTL DEF Spec

(* A heartbeat with a confirmed renewal that would now report no loss is   *)
(* right, however renewals were delayed, lost or applied after the worker  *)
(* had stopped waiting for them (_LeaseHeartbeat).                         *)
THEOREM HeartbeatTellsTruth == Spec => []HeartbeatHonest
<1>1. TypeOK /\ IInv /\ LeasesInv => HeartbeatHonest
  <2> SUFFICES ASSUME TypeOK, IInv, LeasesInv, NEW i \in Ids,
                      Listening(i), renewed[i], now < deadline[i]
               PROVE  Arbiter!Live(i)
    BY DEF HeartbeatHonest
  <2>1. state[i] = "active"
    BY DEF IInv, CallInv, Granted, Listening
  <2>2. deadline[i] <= expires[i]
    BY DEF LeasesInv, LeaseInv
  <2> QED
    BY <2>1, <2>2 DEF Arbiter!Live, TypeOK
<1> QED
  BY <1>1, CallTypeCorrect, Inductive, LeasesKept, PTL

-----------------------------------------------------------------------------
(***************************************************************************)
(* The calls of all workers, whatever fails, use the arbiter as KVArbiter  *)
(* lets clients use it: every request is for a planned call and every      *)
(* charge a metered or an estimated one.  What is proved of KVArbiter then *)
(* holds of the arbiter among its workers.                                 *)
(***************************************************************************)
Asked(i) ==
  /\ state[i] # "none" => request[i].keys = Plan[i].keys
  /\ pc[i] = "asking" => ask[i] \in Asks
  /\ Finished(i) => charge[i] \in Bills

AskInv == \A i \in Ids : Asked(i)

LEMMA StillAsked ==
  ASSUME NEW i \in Ids, Asked(i), Still(i)
  PROVE  Asked(i)'
BY DEF Asked, Still, Finished

LEMMA AskMade ==
  ASSUME NEW i \in Ids, NEW b \in [Keys -> Nat]
  PROVE  [keys |-> Plan[i].keys, wins |-> Plan[i].wins, est |-> Plan[i].est, base |-> b] \in Asks
BY DEF Asks

LEMMA ReservingAsked ==
  ASSUME TypeOK, IInv, NEW i \in Ids, Asked(i), Reserving(i)
  PROVE  Asked(i)'
<1> USE DEF TypeOK, Goto, arbiterVars, callVars, leaseVars, treeVars
<1>1. CASE Precheck(i) \/ PrecheckFails(i) \/ StartLease(i) \/ ReserveFails(i)
  <2>1. pc'[i] # "asking" /\ UNCHANGED <<state, request, outcome, charge>>
    BY <1>1 DEF Precheck, PrecheckFails, StartLease, ReserveFails, Acknowledged
  <2> QED
    BY <2>1 DEF Asked, Finished
<1>2. CASE Snapshot(i)
  <2> DEFINE b == [k \in Keys |-> IF k \in Plan[i].keys THEN Spent(k) ELSE 0]
  <2>1. b \in [Keys -> Nat]
    BY SpentType
  <2>2. ask'[i] = [keys |-> Plan[i].keys, wins |-> Plan[i].wins, est |-> Plan[i].est, base |-> b]
    BY <1>2 DEF Snapshot
  <2> HIDE DEF b
  <2>3. ask'[i] \in Asks
    BY <2>1, <2>2, AskMade
  <2>4. UNCHANGED <<state, request, outcome, charge>>
    BY <1>2 DEF Snapshot
  <2>5. Asks' = Asks /\ Bills' = Bills
    BY DEF Asks, Bills
  <2> QED
    BY <2>3, <2>4, <2>5 DEF Asked, Finished
<1>3. CASE ReserveAcked(i) \/ ReserveUnacked(i)
  <2>1. /\ ask[i] \in Arbiter!RequestType /\ ask[i].keys = Plan[i].keys
        /\ UNCHANGED <<outcome, charge>>
    BY <1>3 DEF ReserveAcked, ReserveUnacked, IInv, CallInv
  <2>2. pc'[i] = "asking" => ask'[i] = ask[i] /\ pc[i] = "asking"
    BY <1>3 DEF ReserveAcked, ReserveUnacked, Acknowledged, TryAgainOr, StageAfter
  <2>3. Arbiter!Reserve(i, ask[i]) \/ UNCHANGED arbiterVars
    BY <1>3 DEF ReserveAcked, ReserveUnacked, MaybeApplied
  <2>4. state'[i] # "none" => request'[i].keys = Plan[i].keys
    BY <2>1, <2>3, ReserveEffect DEF Asked
  <2> QED
    BY <2>1, <2>2, <2>4 DEF Asked, Finished
<1> QED
  BY <1>1, <1>2, <1>3 DEF Reserving

LEMMA ReturningAsked ==
  ASSUME TypeOK, NEW i \in Ids, Asked(i), Returning(i)
  PROVE  Asked(i)'
<1> USE DEF TypeOK, Goto, arbiterVars, callVars
<1>1. UNCHANGED <<state, request, ask>>
  BY DEF Returning, ReturnResult, ReturnUnknown, ReturnError, StopLease
<1>2. pc'[i] # "asking"
  BY DEF Returning, ReturnResult, ReturnUnknown, ReturnError, StopLease, AfterStop
<1>3. Finished(i)' => charge'[i] \in Bills
  BY DEF Returning, ReturnResult, ReturnUnknown, ReturnError, StopLease, Finished, Asked, Bills
<1> QED
  BY <1>1, <1>2, <1>3 DEF Asked

LEMMA EndingAsked ==
  ASSUME TypeOK, NEW i \in Ids, Asked(i), Ending(i)
  PROVE  Asked(i)'
<1> USE DEF TypeOK, Goto, arbiterVars, callVars
<1>1. pc[i] # "asking" /\ pc'[i] # "asking" /\ UNCHANGED <<outcome, charge>>
  BY DEF Ending, SettleAcked, SettleUnacked, SettleFails, SettleFailed, Record, RecordFails,
     Assess, AssessFails, ReleaseAcked, ReleaseUnacked, ReleaseFails, Acknowledged, TryAgainOr
<1>2. \/ Arbiter!Settle(i, charge[i]) \/ Arbiter!Release(i) \/ UNCHANGED arbiterVars
  BY DEF Ending, SettleAcked, SettleUnacked, SettleFails, Record, RecordFails,
     Assess, AssessFails, ReleaseAcked, ReleaseUnacked, ReleaseFails, MaybeApplied
<1>3. request' = request /\ (state'[i] # "none" => state[i] # "none")
  <2>1. CASE Arbiter!Settle(i, charge[i])
    BY <2>1, SettleEffect DEF Arbiter!CanSettle
  <2>2. CASE Arbiter!Release(i)
    BY <2>2, ReleaseEffect
  <2> QED
    BY <1>2, <2>1, <2>2
<1> QED
  BY <1>1, <1>3 DEF Asked, Finished

LEMMA CrashAsked ==
  ASSUME TypeOK, NEW w \in Workers, Crash(w), NEW i \in Ids, Asked(i)
  PROVE  Asked(i)'
<1>1. UNCHANGED <<state, request>>
  BY DEF Crash, arbiterVars
<1>2. pc'[i] = "asking" => pc[i] = "asking" /\ ask'[i] = ask[i]
  BY DEF Crash, Cleared, TypeOK
<1>3. Finished(i)' => Finished(i) /\ charge'[i] = charge[i]
  BY DEF Crash, Cleared, Finished, TypeOK
<1> QED
  BY <1>1, <1>2, <1>3 DEF Asked

LEMMA AsksKept == Spec => []AskInv
<1>1. Init => AskInv
  BY DEF Init, Arbiter!Init, AskInv, Asked, Finished
<1>2. TypeOK /\ IInv /\ AskInv /\ [Next]_vars => AskInv'
  <2> SUFFICES ASSUME TypeOK, IInv, AskInv, [Next]_vars, NEW i \in Ids PROVE Asked(i)'
    BY DEF AskInv
  <2>1. Asked(i)
    BY DEF AskInv
  <2>2. ASSUME NEW j \in Ids, Reserving(j) \/ Returning(j) \/ Ending(j) PROVE Asked(i)'
    <3>1. CASE i = j
      BY <2>1, <2>2, <3>1, ReservingAsked, ReturningAsked, EndingAsked
    <3>2. CASE i # j
      BY <2>1, <2>2, <3>2, OthersStill, StillAsked
    <3> QED
      BY <3>1, <3>2
  <2>3. ASSUME NEW j \in Ids, Heartbeat(j) PROVE Asked(i)'
    <3>1. UNCHANGED <<pc, ask, outcome, charge, state, request>>
      BY <2>3, RenewEffect
      DEF Heartbeat, BeginHeartbeat, SendRenewal, ApplyRenewal, RenewalConfirmed,
          RenewalDenied, RenewalFails, arbiterVars, callVars
    <3> QED
      BY <2>1, <3>1 DEF Asked, Finished
  <2>4. ASSUME NEW w \in Workers, Crash(w) PROVE Asked(i)'
    BY <2>1, <2>4, CrashAsked
  <2>5. CASE Tick \/ UNCHANGED vars
    BY <2>1, <2>5 DEF Tick, Arbiter!Tick, Arbiter!reservations, Arbiter!ledger, vars, arbiterVars,
                      callVars, Asked, Finished
  <2> QED
    BY <2>2, <2>3, <2>4, <2>5 DEF Next
<1> QED
  BY <1>1, <1>2, CallTypeCorrect, Inductive, PTL DEF Spec

LEMMA StepServed ==
  TypeOK /\ IInv /\ AskInv /\ [Next]_vars => [Arbiter!Next]_(Arbiter!vars)
<1> SUFFICES ASSUME TypeOK, IInv, AskInv, [Next]_vars
             PROVE  Arbiter!Next \/ UNCHANGED Arbiter!vars
  OBVIOUS
<1>1. UNCHANGED arbiterVars => UNCHANGED Arbiter!vars
  BY DEF arbiterVars, Arbiter!vars, Arbiter!reservations, Arbiter!ledger
<1>2. ASSUME NEW i \in Ids, Reserving(i) PROVE Arbiter!Next \/ UNCHANGED arbiterVars
  <2>1. CASE ReserveAcked(i) \/ ReserveUnacked(i)
    <3>1. ask[i] \in Asks
      BY <2>1 DEF ReserveAcked, ReserveUnacked, AskInv, Asked
    <3>2. Arbiter!Reserve(i, ask[i]) \/ UNCHANGED arbiterVars
      BY <2>1 DEF ReserveAcked, ReserveUnacked, MaybeApplied
    <3> QED
      BY <3>1, <3>2 DEF Arbiter!Next
  <2>2. CASE ~ (ReserveAcked(i) \/ ReserveUnacked(i))
    BY <1>2, <2>2
    DEF Reserving, Precheck, PrecheckFails, Snapshot, ReserveFails, StartLease
  <2> QED
    BY <2>1, <2>2
<1>3. ASSUME NEW i \in Ids, Ending(i) PROVE Arbiter!Next \/ UNCHANGED arbiterVars
  <2>1. CASE SettleAcked(i) \/ SettleUnacked(i)
    <3>1. charge[i] \in Bills
      BY <2>1 DEF SettleAcked, SettleUnacked, IInv, CallInv, AskInv, Asked
    <3>2. Arbiter!Settle(i, charge[i]) \/ UNCHANGED arbiterVars
      BY <2>1 DEF SettleAcked, SettleUnacked, MaybeApplied
    <3> QED
      BY <3>1, <3>2 DEF Arbiter!Next
  <2>2. CASE ReleaseAcked(i) \/ ReleaseUnacked(i)
    BY <2>2 DEF ReleaseAcked, ReleaseUnacked, MaybeApplied, Arbiter!Next
  <2>3. CASE SettleFails(i) \/ Record(i) \/ RecordFails(i) \/ Assess(i) \/ AssessFails(i)
             \/ ReleaseFails(i)
    BY <2>3 DEF SettleFails, Record, RecordFails, Assess, AssessFails, ReleaseFails
  <2> QED
    BY <1>3, <2>1, <2>2, <2>3 DEF Ending
<1>4. ASSUME NEW i \in Ids, Heartbeat(i) PROVE Arbiter!Next \/ UNCHANGED arbiterVars
  <2>1. CASE ApplyRenewal(i)
    BY <2>1 DEF ApplyRenewal, Arbiter!Next
  <2>2. CASE ~ ApplyRenewal(i)
    BY <1>4, <2>2 DEF Heartbeat, BeginHeartbeat, SendRenewal, RenewalConfirmed, RenewalDenied,
                      RenewalFails
  <2> QED
    BY <2>1, <2>2
<1>5. ASSUME NEW i \in Ids, Returning(i) PROVE UNCHANGED arbiterVars
  BY <1>5 DEF Returning, ReturnResult, ReturnUnknown, ReturnError, StopLease
<1>6. CASE Tick
  BY <1>6 DEF Tick, Arbiter!Next
<1>7. ASSUME NEW w \in Workers, Crash(w) PROVE UNCHANGED arbiterVars
  BY <1>7 DEF Crash
<1>8. CASE UNCHANGED vars
  BY <1>1, <1>8 DEF vars
<1> QED
  BY <1>1, <1>2, <1>3, <1>4, <1>5, <1>6, <1>7, <1>8 DEF Next

(* Every step of a call is, for the arbiter, one transaction or none.      *)
THEOREM CallsUseArbiter == Spec => Arbiter!Spec
<1>1. Init => Arbiter!Init
  BY DEF Init
<1> QED
  BY <1>1, StepServed, CallTypeCorrect, Inductive, AsksKept, PTL DEF Spec, Arbiter!Spec

-----------------------------------------------------------------------------
(* Runs over one recorded tree (RecordedCalls): what a run is served is    *)
(* what was recorded, recordings stay and stand where they were checked,   *)
(* and no handler is called that was not confirmed as often.               *)
CONSTANTS Runs, Calls, NeedsConfirm, Denied, Results, None, Absent, Configs, MaxDepth, MaxOps,
          MaxStarts
VARIABLES store, config, cursor, pending, target, seen, got, ran, asked, called, settled, hits, ops,
          starts

Tree == INSTANCE RecordedCalls

(* There are finitely many runs, and neither is no result one that a       *)
(* handler returns nor the mark of an absent node a node.                  *)
RecordAllowed ==
  /\ IsFiniteSet(Runs) /\ MaxDepth \in Nat
  /\ None \notin Results /\ Absent \notin Tree!Nodes

RecordPcs == {"idle", "avoid", "dispatch", "record"}
RecordStoreTypes == store \in [Tree!Paths -> Tree!Nodes \cup {Absent}]
RecordRunTypes ==
  /\ config \in [Runs -> Configs] /\ pc \in [Runs -> RecordPcs]
  /\ cursor \in [Runs -> Tree!Paths] /\ target \in [Runs -> Tree!Paths]
  /\ pending \in [Runs -> SUBSET Tree!Paths]
  /\ seen = [r \in Runs |-> seen[r]] /\ got = [r \in Runs |-> got[r]]
RecordHistoryTypes ==
  /\ ran \in [Tree!Paths -> SUBSET Results]
  /\ asked \in [Tree!Paths -> Nat] /\ called \in [Tree!Paths -> Nat]
  /\ hits \in [Tree!Paths -> Nat]

(* The tree has the cursors of all runs, and with a node all above it.     *)
RecordTree ==
  /\ Tree!Stored(<<>>) /\ \A r \in Runs : Tree!Stored(cursor[r])
  /\ \A p \in Tree!Paths : Tree!Stored(p) =>
       \A k \in 0 .. Len(p) : Tree!Stored(SubSeq(p, 1, k))

(* What a run's call relies on at each of its steps.                       *)
RecordMayCall(p) == p # <<>> /\ Tree!Last(p) \in Calls \ Denied
RecordStage(r) ==
  /\ pc[r] # "idle" => config[r].mode # "replay"
  /\ pc[r] = "avoid" =>
       Tree!HasResult(target[r]) /\ seen[r] \in Nat /\ seen[r] <= hits[target[r]]
  /\ pc[r] \in {"dispatch", "record"} =>
       RecordMayCall(target[r]) /\ cursor[r] = Tree!Front(target[r])
  /\ pc[r] = "record" => seen[r] \in ran[target[r]]
  /\ \A p \in pending[r] : RecordMayCall(p)
  /\ config[r].mode = "replay" => pending[r] = {}

(* A node has what handlers returned there, and what was avoided.          *)
RecordNode(p) ==
  Tree!Stored(p) =>
    /\ ({store[p].result} \cup store[p].rivals) \ {None} \subseteq ran[p]
    /\ store[p].avoided <= hits[p]

RecordServed(r) ==
  got[r].how = "hit" =>
    /\ got[r].path \in Tree!Paths /\ Tree!HasResult(got[r].path)
    /\ got[r].result = store[got[r].path].result

(* Who has a token for the call at p, and who is about to make it.         *)
RecordOpen(p) == {r \in Runs : p \in pending[r]}
RecordGoing(p) == {r \in Runs : pc[r] = "dispatch" /\ target[r] = p}
RecordCounted(p) ==
  /\ Tree!Last(p) \in NeedsConfirm =>
       called[p] + (Cardinality(RecordOpen(p)) + Cardinality(RecordGoing(p))) <= asked[p]
  /\ Tree!Last(p) \in Denied => called[p] = 0

RecordTypes == RecordStoreTypes /\ RecordRunTypes /\ RecordHistoryTypes
RecordInv ==
  /\ RecordTypes /\ RecordTree
  /\ \A r \in Runs : RecordStage(r) /\ RecordServed(r)
  /\ \A p \in Tree!Paths : RecordNode(p) /\ (p # <<>> => RecordCounted(p))

-----------------------------------------------------------------------------
(* Paths.                                                                  *)
LEMMA RecordPaths ==
  ASSUME RecordAllowed
  PROVE  \A p : p \in Tree!Paths <=> p \in Seq(Tree!Labels) /\ Len(p) <= MaxDepth
<1> DEFINE S == Tree!Labels
<1>1. Tree!Paths = UNION {[1 .. m -> S] : m \in 0 .. MaxDepth}
  BY DEF Tree!Paths, Tree!BoundedSeq, Tree!SeqOf
<1>2. Seq(S) = UNION {[1 .. m -> S] : m \in Nat}
  BY SeqDef
<1> HIDE DEF S
<1>3. ASSUME NEW p, p \in Tree!Paths PROVE p \in Seq(S) /\ Len(p) <= MaxDepth
  <2>1. PICK m \in 0 .. MaxDepth : p \in [1 .. m -> S]
    BY <1>1, <1>3
  <2>2. p \in Seq(S) /\ Len(p) = m
    BY <1>2, <2>1 DEF RecordAllowed
  <2> QED
    BY <2>1, <2>2 DEF RecordAllowed
<1>4. ASSUME NEW p, p \in Seq(S), Len(p) <= MaxDepth PROVE p \in Tree!Paths
  <2>1. Len(p) \in 0 .. MaxDepth /\ p \in [1 .. Len(p) -> S]
    BY <1>4, LenProperties DEF RecordAllowed
  <2> QED
    BY <1>1, <2>1
<1> QED
  BY <1>3, <1>4 DEF S

(* What is below a cursor, and what is above it.                           *)
RecordBelow(c, l, p) ==
  /\ p \in Tree!Paths /\ p # <<>> /\ Tree!Front(p) = c /\ Tree!Last(p) = l
  /\ \A k \in 0 .. Len(p) : SubSeq(p, 1, k) = p
       \/ (k \in 0 .. Len(c) /\ SubSeq(p, 1, k) = SubSeq(c, 1, k))

LEMMA RecordAppend ==
  ASSUME NEW S, NEW c \in Seq(S), NEW l \in S, NEW k \in 0 .. Len(c)
  PROVE  SubSeq(Append(c, l), 1, k) = SubSeq(c, 1, k)
<1> DEFINE p == Append(c, l)
           s == SubSeq(p, 1, k)
           t == SubSeq(c, 1, k)
<1>1. /\ p \in Seq(S) /\ Len(p) = Len(c) + 1 /\ Len(c) \in Nat /\ k \in Nat
      /\ \A i \in 1 .. Len(c) : p[i] = c[i]
  OBVIOUS
<1>0. Len(c) \in Nat /\ k \in Nat /\ k <= Len(c)
  OBVIOUS
<1>2. t \in Seq(S) /\ Len(t) = k /\ \A i \in 1 .. k : t[i] = c[i]
  BY <1>0
<1> HIDE DEF p
<1>3. s \in Seq(S) /\ Len(s) = k /\ \A i \in 1 .. k : s[i] = p[i]
  BY <1>1
<1> HIDE DEF s, t
<1>4. ASSUME NEW i \in 1 .. k PROVE s[i] = t[i]
  <2>1. i \in 1 .. Len(c)
    BY <1>0
  <2>2. s[i] = p[i] /\ t[i] = c[i]
    BY <1>2, <1>3
  <2> QED
    BY <1>1, <2>1, <2>2
<1>5. s = t
  BY <1>2, <1>3, <1>4, SeqEqual
<1> QED
  BY <1>5 DEF s, t, p

LEMMA RecordBelowCursor ==
  ASSUME RecordAllowed, NEW c \in Tree!Paths, Len(c) < MaxDepth, NEW l \in Tree!Labels
  PROVE  RecordBelow(c, l, Append(c, l))
<1> DEFINE S == Tree!Labels
           p == Append(c, l)
<1>1. c \in Seq(S) /\ l \in S /\ MaxDepth \in Nat
  BY RecordPaths DEF RecordAllowed
<1> HIDE DEF S
<1>2. p \in Seq(S) /\ Len(p) = Len(c) + 1 /\ Len(c) \in Nat /\ p[Len(c) + 1] = l
  BY <1>1
<1> HIDE DEF p
<1>0. p \in Seq(S) /\ Len(p) <= MaxDepth
  BY <1>1, <1>2
<1>3. p \in Tree!Paths
  BY <1>0, RecordPaths DEF S
<1> USE DEF p
<1>4. p # <<>> /\ Tree!Last(p) = l
  BY <1>2 DEF Tree!Last
<1>5. SubSeq(p, 1, Len(c)) = SubSeq(c, 1, Len(c))
  BY <1>1, <1>2, RecordAppend
<1>6. SubSeq(c, 1, Len(c)) = c /\ SubSeq(p, 1, Len(p)) = p
  BY <1>1, <1>2, SubSeqFull
<1>7. Tree!Front(p) = c
  BY <1>2, <1>5, <1>6 DEF Tree!Front
<1>8. ASSUME NEW k \in 0 .. Len(p)
      PROVE  SubSeq(p, 1, k) = p \/ (k \in 0 .. Len(c) /\ SubSeq(p, 1, k) = SubSeq(c, 1, k))
  <2>1. k = Len(p) \/ k \in 0 .. Len(c)
    BY <1>2
  <2>2. CASE k \in 0 .. Len(c)
    BY <1>1, <2>2, RecordAppend
  <2> QED
    BY <1>6, <2>1, <2>2
<1> QED
  BY <1>3, <1>4, <1>7, <1>8 DEF RecordBelow

(* A path is the label it ends with, below the one before it.              *)
LEMMA RecordFrontLast ==
  ASSUME RecordAllowed, NEW p \in Tree!Paths, p # <<>>
  PROVE  Append(Tree!Front(p), Tree!Last(p)) = p
<1> DEFINE S == Tree!Labels
           n == Len(p)
           s == Append(Tree!Front(p), Tree!Last(p))
           f == SubSeq(p, 1, n - 1)
<1>1. p \in Seq(S)
  BY RecordPaths
<1> HIDE DEF S
<1>2. n \in Nat \ {0} /\ p[n] \in S
  BY <1>1
<1>3. f \in Seq(S) /\ Len(f) = n - 1 /\ \A i \in 1 .. n - 1 : f[i] = p[i]
  <2> DEFINE k == n - 1
  <2>1. k \in 0 .. Len(p) /\ n - 1 = k
    BY <1>2
  <2> HIDE DEF k, n
  <2>2. SubSeq(p, 1, k) \in Seq(S) /\ Len(SubSeq(p, 1, k)) = k
        /\ \A i \in 1 .. k : SubSeq(p, 1, k)[i] = p[i]
    BY <1>1, <2>1
  <2> QED
    BY <2>1, <2>2
<1>4. s = Append(f, p[n])
  BY DEF Tree!Front, Tree!Last
<1> HIDE DEF f, n, s
<1>5. s \in Seq(S) /\ Len(s) = n /\ s[n] = p[n] /\ \A i \in 1 .. n - 1 : s[i] = p[i]
  BY <1>2, <1>3, <1>4
<1>6. \A i \in 1 .. n : s[i] = p[i]
  BY <1>2, <1>5
<1>7. s = p
  BY <1>1, <1>5, <1>6, SeqEqual DEF n
<1> QED
  BY <1>7 DEF s

LEMMA RecordAncestors ==
  ASSUME RecordAllowed, NEW p \in Tree!Paths, NEW k \in 0 .. Len(p)
  PROVE  SubSeq(p, 1, k) \in Tree!Paths
<1> DEFINE S == Tree!Labels
           s == SubSeq(p, 1, k)
<1>1. p \in Seq(S) /\ Len(p) <= MaxDepth /\ MaxDepth \in Nat
  BY RecordPaths DEF RecordAllowed
<1> HIDE DEF S
<1>0. Len(p) \in Nat /\ k \in Nat /\ k <= Len(p)
  BY <1>1
<1>2. s \in Seq(S) /\ Len(s) = k /\ Len(p) \in Nat
  BY <1>0, <1>1
<1> HIDE DEF s
<1>3. Len(s) <= MaxDepth
  BY <1>1, <1>2
<1>4. s \in Tree!Paths
  BY <1>2, <1>3, RecordPaths DEF S
<1> QED
  BY <1>4 DEF s

-----------------------------------------------------------------------------
(* What the operations of a run come to.                                   *)
RecordPut(p, x, cost) == store' = Tree!Put(p, Tree!NodeOf(x, cost))
RecordHistorySame == ran' = ran /\ asked' = asked /\ called' = called /\ hits' = hits
RecordCallSame == pc' = pc /\ target' = target /\ seen' = seen

(* A cursor moves to a node of the tree, or to one that is put below one.  *)
RecordPutsBelow(p) ==
  \E c \in Tree!Paths, l \in Tree!Labels, cost \in 0 .. 1 :
    Tree!Stored(c) /\ RecordBelow(c, l, p) /\ RecordPut(p, None, cost)
RecordMoves(r, p) ==
  /\ pc[r] = "idle" /\ p \in Tree!Paths
  /\ (store' = store /\ Tree!Stored(p)) \/ RecordPutsBelow(p)
  /\ cursor' = [cursor EXCEPT ![r] = p]
  /\ \/ config' = config /\ pending' = pending
     \/ \E c \in Configs : config' = [config EXCEPT ![r] = c] /\ pending' = [pending EXCEPT ![r] = {}]
  /\ got' = got \/ \E g : g.how # "hit" /\ got' = [got EXCEPT ![r] = g]
  /\ RecordCallSame /\ RecordHistorySame

RecordPrunes(r) ==
  /\ pc[r] = "idle" /\ store' = [store EXCEPT ![cursor[r]].pruned = TRUE]
  /\ cursor' = cursor /\ config' = config /\ pending' = pending /\ got' = got
  /\ RecordCallSame /\ RecordHistorySame

(* A call is served, counted first, or to be dispatched; it uses up a      *)
(* token, or needs none.                                                   *)
RecordToken(r, p) ==
  \/ pending' = pending /\ Tree!Last(p) \notin NeedsConfirm
  \/ p \in pending[r] /\ pending' = [pending EXCEPT ![r] = pending[r] \ {p}]
RecordServes(r, p) ==
  /\ pc[r] = "idle" /\ p \in Tree!Paths /\ Tree!HasResult(p)
  /\ pending' = pending \/ RecordToken(r, p)
  /\ store' = store /\ config' = config
  /\ cursor' = [cursor EXCEPT ![r] = p]
  /\ got' = [got EXCEPT ![r] = [path |-> p, result |-> store[p].result, how |-> "hit"]]
  /\ RecordCallSame /\ RecordHistorySame
RecordFinds(r, p) ==
  /\ pc[r] = "idle" /\ p \in Tree!Paths /\ Tree!HasResult(p) /\ config[r].mode # "replay"
  /\ RecordToken(r, p)
  /\ pc' = [pc EXCEPT ![r] = "avoid"] /\ target' = [target EXCEPT ![r] = p]
  /\ seen' = [seen EXCEPT ![r] = store[p].avoided]
  /\ store' = store /\ cursor' = cursor /\ config' = config /\ got' = got
  /\ RecordHistorySame
RecordGoes(r, p) ==
  /\ pc[r] = "idle" /\ p \in Tree!Paths /\ config[r].mode # "replay"
  /\ RecordMayCall(p) /\ cursor[r] = Tree!Front(p) /\ RecordToken(r, p)
  /\ pc' = [pc EXCEPT ![r] = "dispatch"] /\ target' = [target EXCEPT ![r] = p]
  /\ seen' = seen /\ store' = store /\ cursor' = cursor /\ config' = config /\ got' = got
  /\ RecordHistorySame

(* A token is asked for, or lost without a call.                           *)
RecordStays ==
  store' = store /\ cursor' = cursor /\ config' = config /\ got' = got /\ RecordCallSame
RecordAsks(r, p) ==
  /\ p \in Tree!Paths /\ RecordMayCall(p) /\ config[r].mode # "replay" /\ RecordStays
  /\ pending' = [pending EXCEPT ![r] = pending[r] \cup {p}]
  /\ asked' = [asked EXCEPT ![p] = asked[p] + 1]
  /\ ran' = ran /\ called' = called /\ hits' = hits
RecordLoses(r, p) ==
  /\ p \in pending[r] /\ RecordStays /\ RecordHistorySame
  /\ pending' = [pending EXCEPT ![r] = pending[r] \ {p}]

RecordCalls(r) ==
  Tree!CountAvoided(r) \/ Tree!Dispatch(r) \/ Tree!Record(r)
RecordSteps(r) ==
  \/ \E p : RecordMoves(r, p) \/ RecordServes(r, p) \/ RecordFinds(r, p) \/ RecordGoes(r, p)
            \/ RecordAsks(r, p) \/ RecordLoses(r, p)
  \/ RecordPrunes(r) \/ RecordCalls(r)

LEMMA RecordOwnBelow ==
  ASSUME RecordAllowed, RecordTypes, NEW r \in Runs, Tree!Room(r), NEW l \in Tree!Labels
  PROVE  RecordBelow(cursor[r], l, Tree!Below(r, l))
<1>1. cursor[r] \in Tree!Paths /\ Len(cursor[r]) < MaxDepth
  BY DEF RecordTypes, RecordRunTypes, Tree!Room
<1> QED
  BY <1>1, RecordBelowCursor DEF Tree!Below

LEMMA RecordNoteStep ==
  ASSUME RecordAllowed, RecordTypes, RecordTree, NEW r \in Runs, Tree!Note(r)
  PROVE  RecordSteps(r)
<1> DEFINE p == Tree!Below(r, "note")
<1>1. RecordBelow(cursor[r], "note", p)
  BY RecordOwnBelow DEF Tree!Note, Tree!Labels
<1>2. p \in Tree!Paths
  BY <1>1 DEF RecordBelow
<1>3. /\ pc[r] = "idle" /\ config' = config /\ pending' = pending /\ got' = got
      /\ RecordCallSame /\ RecordHistorySame
  BY DEF Tree!Note, Tree!Step, Tree!history, RecordCallSame, RecordHistorySame
<1>4. /\ Tree!Replays(r) => Tree!Stored(p)
      /\ store' = IF Tree!Replays(r) THEN store ELSE Tree!Put(p, Tree!NodeOf(None, 0))
      /\ cursor' = [cursor EXCEPT ![r] = p]
  BY DEF Tree!Note, Tree!MoveTo
<1> HIDE DEF p
<1>5. (store' = store /\ Tree!Stored(p)) \/ RecordPutsBelow(p)
  <2>1. CASE Tree!Replays(r)
    BY <1>4, <2>1
  <2>2. CASE ~Tree!Replays(r)
    <3>1. RecordPut(p, None, 0)
      BY <1>4, <2>2 DEF RecordPut
    <3>2. cursor[r] \in Tree!Paths /\ Tree!Stored(cursor[r]) /\ "note" \in Tree!Labels
      BY DEF RecordTypes, RecordRunTypes, RecordTree, Tree!Labels
    <3> QED
      BY <1>1, <3>1, <3>2 DEF RecordPutsBelow
  <2> QED
    BY <2>1, <2>2
<1>6. RecordMoves(r, p)
  BY <1>2, <1>3, <1>4, <1>5 DEF RecordMoves
<1> QED
  BY <1>6 DEF RecordSteps

LEMMA RecordBranchStep ==
  ASSUME RecordAllowed, RecordTypes, RecordTree, NEW r \in Runs, NEW q \in Runs,
         Tree!Branch(r, q)
  PROVE  RecordSteps(q)
<1> DEFINE p == Tree!Below(r, "note")
<1>1. RecordBelow(cursor[r], "note", p)
  BY RecordOwnBelow DEF Tree!Branch, Tree!Labels
<1>2. p \in Tree!Paths
  BY <1>1 DEF RecordBelow
<1>3. /\ pc[q] = "idle" /\ config' = [config EXCEPT ![q] = config[r]] /\ config[r] \in Configs
      /\ pending' = [pending EXCEPT ![q] = {}] /\ got' = [got EXCEPT ![q] = Tree!Nothing]
      /\ RecordCallSame /\ RecordHistorySame
  BY DEF Tree!Branch, Tree!history, RecordCallSame, RecordHistorySame, RecordTypes,
         RecordRunTypes
<1>4. /\ Tree!Replays(r) => Tree!Stored(p)
      /\ store' = IF Tree!Replays(r) THEN store ELSE Tree!Put(p, Tree!NodeOf(None, 0))
      /\ cursor' = [cursor EXCEPT ![q] = p]
  BY DEF Tree!Branch, Tree!MoveTo
<1> HIDE DEF p
<1>5. (store' = store /\ Tree!Stored(p)) \/ RecordPutsBelow(p)
  <2>1. CASE Tree!Replays(r)
    BY <1>4, <2>1
  <2>2. CASE ~Tree!Replays(r)
    <3>1. RecordPut(p, None, 0)
      BY <1>4, <2>2 DEF RecordPut
    <3>2. cursor[r] \in Tree!Paths /\ Tree!Stored(cursor[r]) /\ "note" \in Tree!Labels
      BY DEF RecordTypes, RecordRunTypes, RecordTree, Tree!Labels
    <3> QED
      BY <1>1, <3>1, <3>2 DEF RecordPutsBelow
  <2> QED
    BY <2>1, <2>2
<1>6. Tree!Nothing.how # "hit"
  BY DEF Tree!Nothing
<1>7. RecordMoves(q, p)
  BY <1>2, <1>3, <1>4, <1>5, <1>6 DEF RecordMoves
<1> QED
  BY <1>7 DEF RecordSteps

LEMMA RecordRollbackStep ==
  ASSUME RecordAllowed, RecordTypes, RecordTree, NEW r \in Runs, NEW p, Tree!Rollback(r, p)
  PROVE  RecordSteps(r)
<1>1. cursor[r] \in Tree!Paths /\ Tree!Stored(cursor[r])
  BY DEF RecordTypes, RecordRunTypes, RecordTree
<1>2. PICK k \in 0 .. Len(cursor[r]) : p = SubSeq(cursor[r], 1, k)
  BY DEF Tree!Rollback, Tree!Ancestors
<1>3. p \in Tree!Paths /\ Tree!Stored(p)
  BY <1>1, <1>2, RecordAncestors DEF RecordTree
<1>4. /\ pc[r] = "idle" /\ config' = config /\ pending' = pending /\ got' = got /\ store' = store
      /\ cursor' = [cursor EXCEPT ![r] = p] /\ RecordCallSame /\ RecordHistorySame
  BY DEF Tree!Rollback, Tree!Step, Tree!MoveTo, Tree!history, RecordCallSame,
         RecordHistorySame
<1>5. RecordMoves(r, p)
  BY <1>3, <1>4 DEF RecordMoves
<1> QED
  BY <1>5 DEF RecordSteps

LEMMA RecordStartStep ==
  ASSUME RecordAllowed, RecordTypes, RecordTree, NEW r \in Runs, NEW c \in Configs, NEW p,
         Tree!StartRun(r, c, p)
  PROVE  RecordSteps(r)
<1>1. p \in Tree!Paths /\ Tree!Stored(p)
  <2>1. p \in {Tree!Root} \cup Tree!Deepest
    BY DEF Tree!StartRun
  <2>2. CASE p = <<>>
    <3>1. <<>> \in Seq(Tree!Labels) /\ Len(<<>>) <= MaxDepth
      BY DEF RecordAllowed
    <3> QED
      BY <2>2, <3>1, RecordPaths DEF RecordTree
  <2>3. CASE p # <<>>
    <3>1. p \in Tree!Leaves
      BY <2>1, <2>3 DEF Tree!Deepest, Tree!Root
    <3> QED
      BY <3>1 DEF Tree!Leaves, Tree!Kept
  <2> QED
    BY <2>2, <2>3
<1>2. /\ pc[r] = "idle" /\ store' = store /\ config' = [config EXCEPT ![r] = c]
      /\ pending' = [pending EXCEPT ![r] = {}] /\ got' = [got EXCEPT ![r] = Tree!Nothing]
      /\ cursor' = [cursor EXCEPT ![r] = p] /\ RecordCallSame /\ RecordHistorySame
  BY DEF Tree!StartRun, Tree!MoveTo, Tree!history, RecordCallSame, RecordHistorySame
<1>3. Tree!Nothing.how # "hit"
  BY DEF Tree!Nothing
<1>4. RecordMoves(r, p)
  BY <1>1, <1>2, <1>3 DEF RecordMoves
<1> QED
  BY <1>4 DEF RecordSteps

LEMMA RecordPruneStep ==
  ASSUME NEW r \in Runs, Tree!Prune(r)
  PROVE  RecordSteps(r)
<1>1. RecordPrunes(r)
  BY DEF Tree!Prune, Tree!Step, Tree!history, RecordPrunes, RecordCallSame,
         RecordHistorySame
<1> QED
  BY <1>1 DEF RecordSteps

(* A call that is not served and not refused: nothing else has changed.    *)
RecordElse == config' = config /\ RecordHistorySame

LEMMA RecordServeStep ==
  ASSUME NEW r \in Runs, NEW p \in Tree!Paths, Tree!Serve(r, p), Tree!HasResult(p),
         pc[r] = "idle", RecordElse, RecordToken(r, p) \/ (Tree!Replays(r) /\ pending' = pending)
  PROVE  RecordSteps(r)
<1>1. CASE Tree!Replays(r)
  <2>1. /\ cursor' = [cursor EXCEPT ![r] = p]
        /\ got' = [got EXCEPT ![r] = [path |-> p, result |-> store[p].result, how |-> "hit"]]
        /\ store' = store /\ RecordCallSame
    BY <1>1 DEF Tree!Serve, Tree!MoveTo, Tree!Returns, RecordCallSame
  <2>2. RecordServes(r, p)
    BY <2>1 DEF RecordServes, RecordElse
  <2> QED
    BY <2>2 DEF RecordSteps
<1>2. CASE ~Tree!Replays(r)
  <2>1. /\ pc' = [pc EXCEPT ![r] = "avoid"] /\ target' = [target EXCEPT ![r] = p]
        /\ seen' = [seen EXCEPT ![r] = store[p].avoided]
        /\ store' = store /\ cursor' = cursor /\ got' = got
    BY <1>2 DEF Tree!Serve
  <2>2. config[r].mode # "replay"
    BY <1>2 DEF Tree!Replays
  <2>3. RecordToken(r, p)
    BY <1>2
  <2>4. RecordFinds(r, p)
    BY <2>1, <2>2, <2>3 DEF RecordFinds, RecordElse
  <2> QED
    BY <2>4 DEF RecordSteps
<1> QED
  BY <1>1, <1>2

LEMMA RecordDispatchStep ==
  ASSUME NEW r \in Runs, NEW p \in Tree!Paths, Tree!ToDispatch(r, p), pc[r] = "idle",
         ~Tree!Replays(r), RecordMayCall(p), cursor[r] = Tree!Front(p),
         RecordElse, RecordToken(r, p)
  PROVE  RecordSteps(r)
<1>1. RecordGoes(r, p)
  BY DEF Tree!ToDispatch, Tree!Replays, RecordElse, RecordGoes
<1> QED
  BY <1>1 DEF RecordSteps

LEMMA RecordToolStep ==
  ASSUME RecordAllowed, RecordTypes, RecordTree, NEW r \in Runs, NEW c \in Calls,
         Tree!ToolCall(r, c)
  PROVE  RecordSteps(r)
<1> DEFINE p == Tree!Below(r, c)
<1>1. /\ RecordBelow(cursor[r], c, p) /\ c \in Tree!Labels
      /\ RecordBelow(cursor[r], "refusal", Tree!Below(r, "refusal"))
      /\ "refusal" \in Tree!Labels
  BY RecordOwnBelow DEF Tree!ToolCall, Tree!Labels
<1>2. /\ p \in Tree!Paths /\ p # <<>> /\ Tree!Front(p) = cursor[r] /\ Tree!Last(p) = c
      /\ Tree!Below(r, "refusal") \in Tree!Paths
  BY <1>1 DEF RecordBelow
<1>3. cursor[r] \in Tree!Paths /\ Tree!Stored(cursor[r])
  BY DEF RecordTypes, RecordRunTypes, RecordTree
<1>4. /\ pc[r] = "idle" /\ config' = config /\ ran' = ran /\ called' = called /\ hits' = hits
      /\ ~Tree!Missing(r, p)
  BY DEF Tree!ToolCall, Tree!Step
<1>5. CASE Tree!Replays(r)
  <2>1. Tree!Serve(r, p) /\ pending' = pending /\ asked' = asked
    BY <1>5 DEF Tree!ToolCall
  <2>2. Tree!HasResult(p)
    BY <1>4, <1>5 DEF Tree!Missing
  <2>3. RecordElse
    BY <1>4, <2>1 DEF RecordElse, RecordHistorySame
  <2> HIDE DEF p
  <2> QED
    BY <1>2, <1>4, <1>5, <2>1, <2>2, <2>3, RecordServeStep
<1>6. CASE ~Tree!Replays(r) /\ c \in Denied
  <2> DEFINE d == Tree!Below(r, "refusal")
  <2>1. /\ store' = Tree!Put(d, Tree!NodeOf(None, 0)) /\ cursor' = [cursor EXCEPT ![r] = d]
        /\ pending' = pending /\ got' = got /\ asked' = asked /\ RecordCallSame
    BY <1>6 DEF Tree!ToolCall, Tree!MoveTo, RecordCallSame
  <2>2. RecordPut(d, None, 0)
    BY <2>1 DEF RecordPut
  <2> HIDE DEF d
  <2>3. RecordPutsBelow(d)
    BY <1>1, <1>3, <2>2 DEF RecordPutsBelow, d
  <2>4. RecordMoves(r, d)
    BY <1>2, <1>4, <2>1, <2>3 DEF RecordMoves, RecordHistorySame, d
  <2> QED
    BY <2>4 DEF RecordSteps
<1>7. CASE ~Tree!Replays(r) /\ c \notin Denied /\ c \in NeedsConfirm
  <2>1. /\ pending' = [pending EXCEPT ![r] = pending[r] \cup {p}]
        /\ asked' = [asked EXCEPT ![p] = asked[p] + 1]
        /\ RecordStays
    BY <1>4, <1>7 DEF Tree!ToolCall, RecordStays, RecordCallSame
  <2>2. RecordMayCall(p) /\ config[r].mode # "replay"
    BY <1>2, <1>7 DEF RecordMayCall, Tree!Replays
  <2> HIDE DEF p
  <2>3. RecordAsks(r, p)
    BY <1>2, <1>4, <2>1, <2>2 DEF RecordAsks
  <2> QED
    BY <2>3 DEF RecordSteps
<1>8. CASE ~Tree!Replays(r) /\ c \notin Denied /\ c \notin NeedsConfirm
  <2>1. Tree!Allowed(r, p) /\ pending' = pending /\ asked' = asked
    BY <1>8 DEF Tree!ToolCall
  <2>2. RecordElse
    BY <1>4, <2>1 DEF RecordElse, RecordHistorySame
  <2>3. RecordMayCall(p) /\ RecordToken(r, p)
    BY <1>2, <1>8, <2>1 DEF RecordMayCall, RecordToken
  <2> HIDE DEF p
  <2>4. CASE Tree!Served(r, p)
    <3>1. Tree!Serve(r, p) /\ Tree!HasResult(p)
      BY <2>1, <2>4 DEF Tree!Allowed, Tree!Served
    <3> QED
      BY <1>2, <1>4, <2>2, <2>3, <3>1, RecordServeStep
  <2>5. CASE ~Tree!Served(r, p) /\ config[r].dry
    <3>1. Tree!Placeholder(r, p)
      BY <2>1, <2>5 DEF Tree!Allowed
    <3> DEFINE g == [path |-> p, result |-> store'[p].result, how |-> "dry"]
    <3>2. /\ store' = Tree!Put(p, Tree!NodeOf(None, 1)) /\ cursor' = [cursor EXCEPT ![r] = p]
          /\ RecordCallSame
      BY <3>1 DEF Tree!Placeholder, Tree!MoveTo, RecordCallSame
    <3>3. got' = [got EXCEPT ![r] = g] /\ g.how # "hit"
      BY <3>1 DEF Tree!Placeholder, Tree!Returns
    <3> HIDE DEF g
    <3>4. RecordPut(p, None, 1)
      BY <3>2 DEF RecordPut
    <3>5. RecordPutsBelow(p)
      BY <1>1, <1>3, <3>4 DEF RecordPutsBelow
    <3>6. RecordMoves(r, p)
      BY <1>2, <1>4, <2>1, <2>2, <3>2, <3>3, <3>5 DEF RecordMoves, RecordElse
    <3> QED
      BY <3>6 DEF RecordSteps
  <2>6. CASE ~Tree!Served(r, p) /\ ~config[r].dry
    <3>1. Tree!ToDispatch(r, p)
      BY <2>1, <2>6 DEF Tree!Allowed
    <3> QED
      BY <1>2, <1>4, <1>8, <2>2, <2>3, <3>1, RecordDispatchStep
  <2> QED
    BY <2>4, <2>5, <2>6
<1> QED
  BY <1>5, <1>6, <1>7, <1>8

LEMMA RecordConfirmStep ==
  ASSUME RecordAllowed, RecordTypes, NEW r \in Runs, RecordStage(r), NEW p \in pending[r],
         Tree!Confirms(r, p)
  PROVE  RecordSteps(r)
<1>1. p \in Tree!Paths /\ RecordMayCall(p)
  BY DEF RecordTypes, RecordRunTypes, RecordStage
<1>2. pc[r] = "idle" /\ RecordElse
  BY DEF Tree!Confirms, Tree!Step, RecordElse, RecordHistorySame
<1>3. pending' = [pending EXCEPT ![r] = pending[r] \ {p}]
  BY DEF Tree!Confirms
<1>4. RecordToken(r, p)
  BY <1>3 DEF RecordToken
<1>5. CASE cursor[r] # Tree!Front(p) \/ Tree!Duplicate(r, p)
  <2>1. RecordStays
    BY <1>2, <1>5 DEF Tree!Confirms, RecordStays, RecordElse, RecordCallSame
  <2>2. RecordLoses(r, p)
    BY <1>2, <1>3, <2>1 DEF RecordLoses, RecordElse
  <2> QED
    BY <2>2 DEF RecordSteps
<1>6. CASE cursor[r] = Tree!Front(p) /\ ~Tree!Duplicate(r, p) /\ Tree!Served(r, p)
  <2>1. Tree!Serve(r, p) /\ Tree!HasResult(p)
    BY <1>6 DEF Tree!Confirms, Tree!Served
  <2> QED
    BY <1>1, <1>2, <1>4, <2>1, RecordServeStep
<1>7. CASE cursor[r] = Tree!Front(p) /\ ~Tree!Duplicate(r, p) /\ ~Tree!Served(r, p)
  <2>1. Tree!ToDispatch(r, p)
    BY <1>7 DEF Tree!Confirms
  <2>2. CASE ~Tree!Replays(r)
    BY <1>1, <1>2, <1>4, <1>7, <2>1, <2>2, RecordDispatchStep
  <2>3. ~Tree!Replays(r)
    BY DEF RecordStage, Tree!Replays
  <2> QED
    BY <2>2, <2>3
<1> QED
  BY <1>5, <1>6, <1>7

(* Every step is one of these.                                             *)
LEMMA RecordNext ==
  ASSUME RecordAllowed, RecordInv, Tree!Next
  PROVE  \E r \in Runs : RecordSteps(r)
<1>0. RecordTypes /\ RecordTree /\ \A r \in Runs : RecordStage(r)
  BY DEF RecordInv
<1> HIDE DEF RecordInv
<1>1. PICK r \in Runs :
        \/ Tree!Note(r) \/ Tree!Prune(r)
        \/ \E q \in Runs : Tree!Branch(r, q)
        \/ \E p \in Tree!Ancestors(cursor[r]) : Tree!Rollback(r, p)
        \/ \E c \in Configs : \E p \in {Tree!Root} \cup Tree!Deepest : Tree!StartRun(r, c, p)
        \/ \E c \in Calls : Tree!ToolCall(r, c)
        \/ \E p \in pending[r] : Tree!Confirms(r, p)
        \/ Tree!CountAvoided(r) \/ Tree!Dispatch(r) \/ Tree!Record(r)
  BY DEF Tree!Next
<1>2. CASE Tree!Note(r)
  BY <1>0, <1>2, RecordNoteStep
<1>3. CASE Tree!Prune(r)
  BY <1>3, RecordPruneStep
<1>4. CASE \E q \in Runs : Tree!Branch(r, q)
  BY <1>0, <1>4, RecordBranchStep
<1>5. CASE \E p \in Tree!Ancestors(cursor[r]) : Tree!Rollback(r, p)
  BY <1>0, <1>5, RecordRollbackStep
<1>6. CASE \E c \in Configs : \E p \in {Tree!Root} \cup Tree!Deepest : Tree!StartRun(r, c, p)
  BY <1>0, <1>6, RecordStartStep
<1>7. CASE \E c \in Calls : Tree!ToolCall(r, c)
  BY <1>0, <1>7, RecordToolStep
<1>8. CASE \E p \in pending[r] : Tree!Confirms(r, p)
  BY <1>0, <1>8, RecordConfirmStep
<1>9. CASE Tree!CountAvoided(r) \/ Tree!Dispatch(r) \/ Tree!Record(r)
  BY <1>9 DEF RecordSteps, RecordCalls
<1> QED
  BY <1>1, <1>2, <1>3, <1>4, <1>5, <1>6, <1>7, <1>8, <1>9

-----------------------------------------------------------------------------
(* What putting a node does to the tree: what is there keeps its result    *)
(* and counts, and only a rival may join it.                               *)
RecordKept(q) ==
  Tree!Stored(q) => store'[q] # Absent /\ store'[q].result = store[q].result
RecordGains(q, x) ==
  store'[q] # Absent =>
    \/ /\ ~Tree!Stored(q) /\ store'[q].result = x
       /\ store'[q].rivals = {} /\ store'[q].avoided = 0
    \/ /\ Tree!Stored(q) /\ store'[q].result = store[q].result
       /\ store'[q].rivals \subseteq store[q].rivals \cup ({x} \ {None})
       /\ store'[q].avoided = store[q].avoided
RecordPutDoes(p, x) ==
  /\ RecordStoreTypes'
  /\ store'[p] # Absent
  /\ \A q \in Tree!Paths : q # p => store'[q] = store[q]
  /\ \A q \in Tree!Paths : RecordKept(q) /\ RecordGains(q, IF q = p THEN x ELSE None)

LEMMA RecordPutEffect ==
  ASSUME RecordAllowed, RecordStoreTypes, NEW p \in Tree!Paths, NEW x \in Results \cup {None},
         NEW cost \in 0 .. 1, RecordPut(p, x, cost)
  PROVE  RecordPutDoes(p, x)
<1> DEFINE node == Tree!NodeOf(x, cost)
           old == [store[p] EXCEPT !.rivals = store[p].rivals \cup ({x} \ {None, store[p].result})]
<1>1. /\ node \in Tree!Nodes /\ node.result = x /\ node.rivals = {} /\ node.avoided = 0
  BY DEF Tree!NodeOf, Tree!Nodes
<1>2. Absent \notin Tree!Nodes /\ store \in [Tree!Paths -> Tree!Nodes \cup {Absent}]
  BY DEF RecordAllowed, RecordStoreTypes
<1>3. store' = Tree!Put(p, node)
  BY DEF RecordPut
<1>4. CASE Tree!Stored(p)
  <2>1. store[p] \in Tree!Nodes
    BY <1>2, <1>4 DEF Tree!Stored
  <2>2. store' = [store EXCEPT ![p] = old]
    BY <1>1, <1>3, <1>4 DEF Tree!Put
  <2>3. /\ old \in Tree!Nodes /\ old.result = store[p].result /\ old.avoided = store[p].avoided
        /\ old.rivals \subseteq store[p].rivals \cup ({x} \ {None})
    BY <2>1 DEF Tree!Nodes
  <2> HIDE DEF old, node
  <2>4. store'[p] = old /\ old # Absent /\ \A q \in Tree!Paths : q # p => store'[q] = store[q]
    BY <1>2, <2>2, <2>3
  <2>5. store' \in [Tree!Paths -> Tree!Nodes \cup {Absent}]
    BY <1>2, <2>2, <2>3
  <2>6. RecordKept(p) /\ RecordGains(p, x)
    BY <1>4, <2>3, <2>4 DEF RecordKept, RecordGains
  <2>7. ASSUME NEW q \in Tree!Paths, q # p PROVE RecordKept(q) /\ RecordGains(q, None)
    BY <2>4, <2>7 DEF RecordKept, RecordGains, Tree!Stored
  <2> QED
    BY <2>4, <2>5, <2>6, <2>7 DEF RecordPutDoes, RecordStoreTypes
<1>5. CASE ~Tree!Stored(p)
  <2>1. store' = [store EXCEPT ![p] = node]
    BY <1>3, <1>5 DEF Tree!Put
  <2> HIDE DEF node
  <2>2. store'[p] = node /\ node # Absent /\ \A q \in Tree!Paths : q # p => store'[q] = store[q]
    BY <1>1, <1>2, <2>1
  <2>3. store' \in [Tree!Paths -> Tree!Nodes \cup {Absent}]
    BY <1>1, <1>2, <2>1
  <2>4. RecordKept(p) /\ RecordGains(p, x)
    BY <1>1, <1>5, <2>2 DEF RecordKept, RecordGains
  <2>5. ASSUME NEW q \in Tree!Paths, q # p PROVE RecordKept(q) /\ RecordGains(q, None)
    BY <2>2, <2>5 DEF RecordKept, RecordGains, Tree!Stored
  <2> QED
    BY <2>2, <2>3, <2>4, <2>5 DEF RecordPutDoes, RecordStoreTypes
<1> QED
  BY <1>4, <1>5

(* The tree keeps its shape where only what is stored below a node of it   *)
(* is added.                                                               *)
RecordShape ==
  /\ Tree!Stored(<<>>)
  /\ \A p \in Tree!Paths : Tree!Stored(p) =>
       \A k \in 0 .. Len(p) : Tree!Stored(SubSeq(p, 1, k))

LEMMA RecordShapeKept ==
  ASSUME RecordAllowed, RecordShape, \A q \in Tree!Paths : (store'[q] # Absent) <=> Tree!Stored(q)
  PROVE  RecordShape'
<1>1. <<>> \in Tree!Paths
  <2>1. <<>> \in Seq(Tree!Labels) /\ Len(<<>>) <= MaxDepth
    BY DEF RecordAllowed
  <2> QED
    BY <2>1, RecordPaths
<1>2. ASSUME NEW p \in Tree!Paths, store'[p] # Absent, NEW k \in 0 .. Len(p)
      PROVE  store'[SubSeq(p, 1, k)] # Absent
  <2>1. SubSeq(p, 1, k) \in Tree!Paths
    BY RecordAncestors
  <2> QED
    BY <1>2, <2>1 DEF RecordShape
<1> QED
  BY <1>1, <1>2 DEF RecordShape, Tree!Stored

LEMMA RecordShapePut ==
  ASSUME RecordAllowed, RecordShape, NEW c \in Tree!Paths, Tree!Stored(c), NEW l, NEW p,
         RecordBelow(c, l, p), NEW x, RecordPutDoes(p, x)
  PROVE  RecordShape'
<1>1. /\ p \in Tree!Paths /\ p # <<>> /\ store'[p] # Absent
      /\ \A q \in Tree!Paths : q # p => store'[q] = store[q]
  BY DEF RecordBelow, RecordPutDoes
<1>2. <<>> \in Tree!Paths
  <2>1. <<>> \in Seq(Tree!Labels) /\ Len(<<>>) <= MaxDepth
    BY DEF RecordAllowed
  <2> QED
    BY <2>1, RecordPaths
<1>3. \A q \in Tree!Paths : Tree!Stored(q) => store'[q] # Absent
  BY <1>1 DEF Tree!Stored
<1>4. ASSUME NEW q \in Tree!Paths, store'[q] # Absent, NEW k \in 0 .. Len(q)
      PROVE  store'[SubSeq(q, 1, k)] # Absent
  <2>1. SubSeq(q, 1, k) \in Tree!Paths
    BY RecordAncestors
  <2>2. CASE q # p
    <3>1. Tree!Stored(q)
      BY <1>1, <1>4, <2>2 DEF Tree!Stored
    <3>2. Tree!Stored(SubSeq(q, 1, k))
      BY <3>1 DEF RecordShape
    <3> QED
      BY <1>3, <2>1, <3>2
  <2>3. CASE q = p
    <3>1. SubSeq(q, 1, k) = p \/ (k \in 0 .. Len(c) /\ SubSeq(q, 1, k) = SubSeq(c, 1, k))
      BY <2>3 DEF RecordBelow
    <3>2. ASSUME k \in 0 .. Len(c), SubSeq(q, 1, k) = SubSeq(c, 1, k)
          PROVE  Tree!Stored(SubSeq(q, 1, k))
      BY <3>2 DEF RecordShape
    <3> QED
      BY <1>1, <1>3, <2>1, <3>1, <3>2
  <2> QED
    BY <2>2, <2>3
<1>5. store'[<<>>] # Absent
  BY <1>2, <1>3 DEF RecordShape
<1> QED
  BY <1>4, <1>5 DEF RecordShape, Tree!Stored

-----------------------------------------------------------------------------
(* What no step undoes, and whom a step of one run leaves alone.           *)
RecordGrown ==
  \A q \in Tree!Paths : RecordKept(q) /\ ran[q] \subseteq ran'[q] /\ hits[q] <= hits'[q]
RecordSame(q) ==
  /\ pc'[q] = pc[q] /\ config'[q] = config[q] /\ cursor'[q] = cursor[q]
  /\ pending'[q] = pending[q] /\ target'[q] = target[q] /\ seen'[q] = seen[q] /\ got'[q] = got[q]
RecordPlace(q) == Tree!Stored(cursor[q])
RecordRun(q) == RecordStage(q) /\ RecordServed(q) /\ RecordPlace(q)

(* What a step must show of itself, and the invariant of its end.          *)
RecordEffect(r) ==
  /\ RecordTypes' /\ RecordShape' /\ RecordGrown /\ RecordRun(r)'
  /\ \A q \in Runs : q # r => RecordSame(q)
  /\ \A q \in Tree!Paths : RecordNode(q)'
  /\ \A q \in Tree!Paths : q # <<>> => RecordCounted(q)'

LEMMA RecordParts ==
  RecordInv <=> /\ RecordTypes /\ RecordShape /\ \A q \in Runs : RecordRun(q)
                /\ \A q \in Tree!Paths : RecordNode(q)
                /\ \A q \in Tree!Paths : q # <<>> => RecordCounted(q)
BY DEF RecordInv, RecordTree, RecordShape, RecordRun, RecordPlace

LEMMA RecordResultKept ==
  ASSUME NEW q \in Tree!Paths, RecordKept(q), Tree!HasResult(q)
  PROVE  /\ store'[q] # Absent /\ store'[q].result = store[q].result
         /\ store'[q].result # None
BY DEF RecordKept, Tree!HasResult

(* What a call returned from the tree stands there after every step.       *)
RecordGot(q) == got'[q] = got[q] \/ got'[q].how # "hit"
LEMMA RecordServedKept ==
  ASSUME RecordGrown, NEW q \in Runs, RecordServed(q), RecordGot(q)
  PROVE  RecordServed(q)'
<1> SUFFICES ASSUME got'[q].how = "hit"
             PROVE  /\ got'[q].path \in Tree!Paths
                    /\ store'[got'[q].path] # Absent /\ store'[got'[q].path].result # None
                    /\ got'[q].result = store'[got'[q].path].result
  BY DEF RecordServed, Tree!HasResult, Tree!Stored
<1>1. got'[q] = got[q]
  BY DEF RecordGot
<1>2. PICK p \in Tree!Paths : p = got[q].path
  BY <1>1 DEF RecordServed
<1>3. Tree!HasResult(p) /\ got[q].result = store[p].result
  BY <1>1, <1>2 DEF RecordServed
<1>4. store'[p] # Absent /\ store'[p].result = store[p].result /\ store'[p].result # None
  BY <1>3, RecordResultKept DEF RecordGrown
<1> QED
  BY <1>1, <1>2, <1>3, <1>4

LEMMA RecordOthers ==
  ASSUME RecordTypes, RecordTypes', RecordGrown, NEW q \in Runs, RecordRun(q), RecordSame(q)
  PROVE  RecordRun(q)'
<1>1. cursor[q] \in Tree!Paths /\ target[q] \in Tree!Paths
  BY DEF RecordTypes, RecordRunTypes
<1>2. RecordPlace(q)'
  BY <1>1 DEF RecordRun, RecordPlace, RecordSame, RecordGrown, RecordKept, Tree!Stored
<1>3. RecordServed(q)'
  BY RecordServedKept DEF RecordRun, RecordSame, RecordGot
<1>4. RecordStage(q)'
  <2>0. PICK t \in Tree!Paths : t = target[q]
    BY <1>1
  <2>1. /\ pc'[q] = pc[q] /\ config'[q] = config[q] /\ cursor'[q] = cursor[q]
        /\ pending'[q] = pending[q] /\ target'[q] = t /\ seen'[q] = seen[q]
    BY <2>0 DEF RecordSame
  <2>2. /\ ran[t] \subseteq ran'[t] /\ hits[t] <= hits'[t] /\ hits[t] \in Nat /\ hits'[t] \in Nat
        /\ RecordKept(t)
    BY DEF RecordGrown, RecordTypes, RecordHistoryTypes
  <2>3. RecordStage(q)
    BY DEF RecordRun
  <2>4. pc[q] = "avoid" => seen[q] \in Nat /\ seen[q] <= hits[t] /\ Tree!HasResult(t)
    BY <2>0, <2>3 DEF RecordStage
  <2>5. pc[q] = "avoid" => /\ store'[t] # Absent /\ store'[t].result # None
                           /\ seen[q] \in Nat /\ seen[q] <= hits'[t]
    <3>1. ASSUME pc[q] = "avoid" PROVE seen[q] <= hits'[t]
      BY <2>2, <2>4, <3>1
    <3>2. ASSUME pc[q] = "avoid" PROVE store'[t] # Absent /\ store'[t].result # None
      BY <2>2, <2>4, <3>2, RecordResultKept
    <3> QED
      BY <2>4, <3>1, <3>2
  <2>6. pc[q] = "record" => seen[q] \in ran'[t]
    BY <2>0, <2>2, <2>3 DEF RecordStage
  <2>7. pc[q] \in {"dispatch", "record"} =>
          RecordMayCall(t) /\ cursor[q] = Tree!Front(t)
    BY <2>0, <2>3 DEF RecordStage
  <2>8. /\ pc[q] # "idle" => config[q].mode # "replay"
        /\ \A p \in pending[q] : RecordMayCall(p)
        /\ config[q].mode = "replay" => pending[q] = {}
    BY <2>3 DEF RecordStage
  <2> QED
    BY <2>1, <2>5, <2>6, <2>7, <2>8 DEF RecordStage, Tree!HasResult, Tree!Stored, RecordMayCall
<1> QED
  BY <1>2, <1>3, <1>4 DEF RecordRun

LEMMA RecordNodeStep ==
  ASSUME RecordTypes, RecordTypes', NEW q \in Tree!Paths, RecordNode(q),
         NEW x, RecordGains(q, x), x \in ran'[q] \cup {None},
         ran[q] \subseteq ran'[q], hits[q] <= hits'[q]
  PROVE  RecordNode(q)'
<1> SUFFICES ASSUME store'[q] # Absent
             PROVE  /\ ({store'[q].result} \cup store'[q].rivals) \ {None} \subseteq ran'[q]
                    /\ store'[q].avoided <= hits'[q]
  BY DEF RecordNode, Tree!Stored
<1>1. hits[q] \in Nat /\ hits'[q] \in Nat
  BY DEF RecordTypes, RecordHistoryTypes
<1>2. CASE /\ store'[q].result = x /\ store'[q].rivals = {} /\ store'[q].avoided = 0
  BY <1>1, <1>2
<1>3. CASE /\ Tree!Stored(q) /\ store'[q].result = store[q].result
           /\ store'[q].rivals \subseteq store[q].rivals \cup ({x} \ {None})
           /\ store'[q].avoided = store[q].avoided
  <2>1. /\ ({store[q].result} \cup store[q].rivals) \ {None} \subseteq ran[q]
        /\ store[q].avoided <= hits[q]
    BY <1>3 DEF RecordNode
  <2>2. store[q].avoided \in Nat
    BY <1>3 DEF RecordTypes, RecordStoreTypes, Tree!Stored, Tree!Nodes
  <2>3. store'[q].avoided <= hits'[q]
    BY <1>1, <1>3, <2>1, <2>2
  <2>4. ({store'[q].result} \cup store'[q].rivals) \ {None} \subseteq ran'[q]
    BY <1>3, <2>1
  <2> QED
    BY <2>3, <2>4
<1> QED
  BY <1>2, <1>3 DEF RecordGains

LEMMA RecordStoreSame ==
  ASSUME store' = store
  PROVE  \A q : RecordKept(q) /\ RecordGains(q, None)
BY DEF RecordKept, RecordGains, Tree!Stored

(* Tokens used up, calls and questions not more: the count still fits.     *)
LEMMA RecordCountKept ==
  ASSUME RecordAllowed, RecordTypes, NEW p \in Tree!Paths, RecordCounted(p),
         called'[p] = called[p], asked'[p] = asked[p],
         RecordOpen(p)' \subseteq RecordOpen(p), RecordGoing(p)' \subseteq RecordGoing(p)
  PROVE  RecordCounted(p)'
<1> DEFINE a == Cardinality(RecordOpen(p))
           b == Cardinality(RecordGoing(p))
           c == Cardinality(RecordOpen(p)')
           d == Cardinality(RecordGoing(p)')
<1>1. IsFiniteSet(RecordOpen(p)) /\ IsFiniteSet(RecordGoing(p))
  BY FS_Subset DEF RecordOpen, RecordGoing, RecordAllowed
<1>2. c <= a /\ d <= b /\ IsFiniteSet(RecordOpen(p)') /\ IsFiniteSet(RecordGoing(p)')
  BY <1>1, FS_Subset
<1>3. a \in Nat /\ b \in Nat /\ c \in Nat /\ d \in Nat
  BY <1>1, <1>2, FS_CardinalityType
<1>4. called[p] \in Nat /\ asked[p] \in Nat
  BY DEF RecordTypes, RecordHistoryTypes
<1>5. Tree!Last(p) \in NeedsConfirm => called[p] + (a + b) <= asked[p]
  BY DEF RecordCounted
<1>6. (Tree!Last(p) \in NeedsConfirm => called'[p] + (c + d) <= asked'[p])
  <2> HIDE DEF a, b, c, d
  <2> QED
    BY <1>2, <1>3, <1>4, <1>5
<1>7. Tree!Last(p) \in Denied => called'[p] = 0
  BY DEF RecordCounted
<1> QED
  BY <1>6, <1>7 DEF RecordCounted, Tree!Last

-----------------------------------------------------------------------------
(* Each kind of step has its effect.                                       *)
RecordQuiet == ran' = ran /\ hits' = hits
LEMMA RecordQuietNodes ==
  ASSUME RecordTypes, RecordTypes', RecordQuiet,
         \A q \in Tree!Paths : RecordKept(q) /\ RecordGains(q, None),
         \A q \in Tree!Paths : RecordNode(q)
  PROVE  RecordGrown /\ \A q \in Tree!Paths : RecordNode(q)'
<1>1. ASSUME NEW q \in Tree!Paths
      PROVE  ran[q] \subseteq ran'[q] /\ hits[q] <= hits'[q]
  BY DEF RecordQuiet, RecordTypes, RecordHistoryTypes
<1>2. RecordGrown
  BY <1>1 DEF RecordGrown
<1>3. ASSUME NEW q \in Tree!Paths PROVE RecordNode(q)'
  BY <1>1, RecordNodeStep
<1> QED
  BY <1>2, <1>3

LEMMA RecordMovesEffect ==
  ASSUME RecordAllowed, RecordInv, NEW r \in Runs, NEW p, RecordMoves(r, p)
  PROVE  RecordEffect(r)
<1>0. /\ RecordTypes /\ RecordShape /\ \A q \in Runs : RecordRun(q)
      /\ \A q \in Tree!Paths : RecordNode(q)
      /\ \A q \in Tree!Paths : q # <<>> => RecordCounted(q)
  BY RecordParts
<1>1. /\ pc[r] = "idle" /\ p \in Tree!Paths
      /\ RecordCallSame /\ RecordHistorySame
      /\ cursor' = [cursor EXCEPT ![r] = p]
  BY DEF RecordMoves
<1>2. /\ RecordStoreTypes' /\ store'[p] # Absent /\ RecordShape'
      /\ \A q \in Tree!Paths : RecordKept(q) /\ RecordGains(q, None)
  <2>1. CASE store' = store /\ Tree!Stored(p)
    <3>1. RecordShape'
      BY <1>0, <2>1, RecordShapeKept DEF Tree!Stored
    <3>2. RecordStoreTypes'
      BY <1>0, <2>1 DEF RecordTypes, RecordStoreTypes
    <3> QED
      BY <2>1, <3>1, <3>2, RecordStoreSame DEF Tree!Stored
  <2>2. CASE RecordPutsBelow(p)
    <3>1. PICK c \in Tree!Paths, l \in Tree!Labels, cost \in 0 .. 1 :
            Tree!Stored(c) /\ RecordBelow(c, l, p) /\ RecordPut(p, None, cost)
      BY <2>2 DEF RecordPutsBelow
    <3>2. RecordPutDoes(p, None)
      BY <1>0, <1>1, <3>1, RecordPutEffect DEF RecordTypes
    <3>3. RecordShape'
      BY <1>0, <3>1, <3>2, RecordShapePut
    <3> QED
      BY <3>2, <3>3 DEF RecordPutDoes
  <2> QED
    BY <2>1, <2>2 DEF RecordMoves
<1>3. /\ config' \in [Runs -> Configs] /\ pending' \in [Runs -> SUBSET Tree!Paths]
      /\ \A q \in Runs : pending'[q] \subseteq pending[q]
      /\ \A q \in Runs : q # r => config'[q] = config[q] /\ pending'[q] = pending[q]
      /\ config'[r].mode = "replay" => pending'[r] = {}
  <2>1. /\ config \in [Runs -> Configs] /\ pending \in [Runs -> SUBSET Tree!Paths]
        /\ config[r].mode = "replay" => pending[r] = {}
    BY <1>0 DEF RecordTypes, RecordRunTypes, RecordRun, RecordStage
  <2>2. CASE config' = config /\ pending' = pending
    BY <2>1, <2>2
  <2>3. CASE \E c \in Configs :
               config' = [config EXCEPT ![r] = c] /\ pending' = [pending EXCEPT ![r] = {}]
    BY <2>1, <2>3
  <2> QED
    BY <2>2, <2>3 DEF RecordMoves
<1>4. /\ got' = [q \in Runs |-> got'[q]] /\ RecordGot(r)
      /\ \A q \in Runs : q # r => got'[q] = got[q]
  <2>1. got = [q \in Runs |-> got[q]]
    BY <1>0 DEF RecordTypes, RecordRunTypes
  <2>2. CASE got' = got
    BY <2>1, <2>2 DEF RecordGot
  <2>3. CASE \E g : g.how # "hit" /\ got' = [got EXCEPT ![r] = g]
    <3>1. PICK g : g.how # "hit" /\ got' = [got EXCEPT ![r] = g]
      BY <2>3
    <3>2. got' = [q \in Runs |-> IF q = r THEN g ELSE got[q]]
      BY <2>1, <3>1
    <3> QED
      BY <3>1, <3>2 DEF RecordGot
  <2> QED
    BY <2>2, <2>3 DEF RecordMoves
<1>5. /\ cursor' \in [Runs -> Tree!Paths] /\ cursor'[r] = p
      /\ \A q \in Runs : q # r => cursor'[q] = cursor[q]
  BY <1>0, <1>1 DEF RecordTypes, RecordRunTypes
<1>6. RecordTypes'
  BY <1>0, <1>1, <1>2, <1>3, <1>4, <1>5 DEF RecordTypes, RecordRunTypes, RecordHistoryTypes,
     RecordCallSame, RecordHistorySame
<1>7. RecordQuiet
  BY <1>1 DEF RecordQuiet, RecordHistorySame
<1>8. RecordGrown /\ \A q \in Tree!Paths : RecordNode(q)'
  BY <1>0, <1>2, <1>6, <1>7, RecordQuietNodes
<1>9. ASSUME NEW q \in Runs, q # r PROVE RecordSame(q)
  BY <1>1, <1>3, <1>4, <1>5, <1>9 DEF RecordSame, RecordCallSame
<1>10. RecordRun(r)'
  <2>1. RecordServed(r)'
    BY <1>0, <1>4, <1>8, RecordServedKept DEF RecordRun
  <2>2. RecordPlace(r)'
    BY <1>2, <1>5 DEF RecordPlace, Tree!Stored
  <2>3. pc'[r] = "idle" /\ \A t \in pending'[r] : RecordMayCall(t)
    BY <1>0, <1>1, <1>3 DEF RecordCallSame, RecordRun, RecordStage
  <2>4. RecordStage(r)'
    BY <1>3, <2>3 DEF RecordStage, RecordMayCall, Tree!Last
  <2> QED
    BY <2>1, <2>2, <2>4 DEF RecordRun
<1>11. ASSUME NEW q \in Tree!Paths, q # <<>> PROVE RecordCounted(q)'
  <2>1. called'[q] = called[q] /\ asked'[q] = asked[q]
    BY <1>1 DEF RecordHistorySame
  <2>2. RecordOpen(q)' \subseteq RecordOpen(q)
    BY <1>3 DEF RecordOpen
  <2>3. RecordGoing(q)' \subseteq RecordGoing(q)
    BY <1>1 DEF RecordGoing, RecordCallSame
  <2> QED
    BY <1>0, <1>11, <2>1, <2>2, <2>3, RecordCountKept
<1> QED
  BY <1>2, <1>6, <1>8, <1>9, <1>10, <1>11 DEF RecordEffect

(* Steps that leave the tree alone.                                        *)
RecordStill == store' = store
LEMMA RecordStillDoes ==
  ASSUME RecordAllowed, RecordTypes, RecordShape, RecordStill
  PROVE  /\ RecordStoreTypes' /\ RecordShape'
         /\ \A q \in Tree!Paths : RecordKept(q) /\ RecordGains(q, None)
         /\ \A q : Tree!Stored(q)' <=> Tree!Stored(q)
<1>1. RecordShape'
  BY RecordShapeKept DEF RecordStill, Tree!Stored
<1>2. RecordStoreTypes'
  BY DEF RecordStill, RecordTypes, RecordStoreTypes
<1>3. \A q : RecordKept(q) /\ RecordGains(q, None)
  BY RecordStoreSame DEF RecordStill
<1> QED
  BY <1>1, <1>2, <1>3 DEF RecordStill, Tree!Stored

(* A token less, or none: only the acting run's tokens change.             *)
RecordUsesUp(r) ==
  /\ pending' \in [Runs -> SUBSET Tree!Paths]
  /\ \A q \in Runs : pending'[q] \subseteq pending[q]
  /\ \A q \in Runs : q # r => pending'[q] = pending[q]
LEMMA RecordTokenUsed ==
  ASSUME RecordTypes, NEW r \in Runs, NEW p, pending' = pending \/ RecordToken(r, p)
  PROVE  RecordUsesUp(r)
<1>1. pending \in [Runs -> SUBSET Tree!Paths]
  BY DEF RecordTypes, RecordRunTypes
<1>2. CASE pending' = pending
  BY <1>1, <1>2 DEF RecordUsesUp
<1>3. CASE pending' = [pending EXCEPT ![r] = pending[r] \ {p}]
  BY <1>1, <1>3 DEF RecordUsesUp
<1> QED
  BY <1>2, <1>3 DEF RecordToken

LEMMA RecordServesEffect ==
  ASSUME RecordAllowed, RecordInv, NEW r \in Runs, NEW p, RecordServes(r, p)
  PROVE  RecordEffect(r)
<1>0. /\ RecordTypes /\ RecordShape /\ \A q \in Runs : RecordRun(q)
      /\ \A q \in Tree!Paths : RecordNode(q)
      /\ \A q \in Tree!Paths : q # <<>> => RecordCounted(q)
  BY RecordParts
<1>1. /\ pc[r] = "idle" /\ p \in Tree!Paths /\ Tree!HasResult(p)
      /\ RecordCallSame /\ RecordHistorySame /\ RecordStill /\ config' = config
      /\ cursor' = [cursor EXCEPT ![r] = p]
      /\ got' = [got EXCEPT ![r] = [path |-> p, result |-> store[p].result, how |-> "hit"]]
  BY DEF RecordServes, RecordStill
<1>2. /\ RecordStoreTypes' /\ RecordShape'
      /\ \A q \in Tree!Paths : RecordKept(q) /\ RecordGains(q, None)
  BY <1>0, <1>1, RecordStillDoes
<1>3. RecordUsesUp(r)
  BY <1>0, RecordTokenUsed DEF RecordServes
<1>4. /\ got' = [q \in Runs |-> got'[q]]
      /\ got'[r] = [path |-> p, result |-> store[p].result, how |-> "hit"]
      /\ \A q \in Runs : q # r => got'[q] = got[q]
  <2> DEFINE g == [path |-> p, result |-> store[p].result, how |-> "hit"]
  <2>1. got = [q \in Runs |-> got[q]] /\ got' = [got EXCEPT ![r] = g]
    BY <1>0, <1>1 DEF RecordTypes, RecordRunTypes
  <2> HIDE DEF g
  <2>2. got' = [q \in Runs |-> IF q = r THEN g ELSE got[q]]
    BY <2>1
  <2>3. got' = [q \in Runs |-> got'[q]] /\ got'[r] = g /\ \A q \in Runs : q # r => got'[q] = got[q]
    BY <2>2
  <2> QED
    BY <2>3 DEF g
<1>5. /\ cursor' \in [Runs -> Tree!Paths] /\ cursor'[r] = p
      /\ \A q \in Runs : q # r => cursor'[q] = cursor[q]
  BY <1>0, <1>1 DEF RecordTypes, RecordRunTypes
<1>6. RecordTypes'
  BY <1>0, <1>1, <1>2, <1>3, <1>4, <1>5 DEF RecordTypes, RecordRunTypes, RecordHistoryTypes,
     RecordCallSame, RecordHistorySame, RecordUsesUp
<1>7. RecordQuiet
  BY <1>1 DEF RecordQuiet, RecordHistorySame
<1>8. RecordGrown /\ \A q \in Tree!Paths : RecordNode(q)'
  BY <1>0, <1>2, <1>6, <1>7, RecordQuietNodes
<1>9. ASSUME NEW q \in Runs, q # r PROVE RecordSame(q)
  BY <1>1, <1>3, <1>4, <1>5, <1>9 DEF RecordSame, RecordCallSame, RecordUsesUp
<1>10. RecordRun(r)'
  <2>1. RecordServed(r)'
    BY <1>1, <1>4 DEF RecordServed, RecordStill, Tree!HasResult, Tree!Stored
  <2>2. RecordPlace(r)'
    BY <1>1, <1>5 DEF RecordPlace, RecordStill, Tree!HasResult, Tree!Stored
  <2>3. /\ pc'[r] = "idle" /\ config'[r] = config[r]
        /\ \A t \in pending'[r] : RecordMayCall(t)
        /\ config[r].mode = "replay" => pending'[r] = {}
    BY <1>0, <1>1, <1>3 DEF RecordCallSame, RecordRun, RecordStage, RecordUsesUp
  <2>4. RecordStage(r)'
    BY <2>3 DEF RecordStage, RecordMayCall, Tree!Last
  <2> QED
    BY <2>1, <2>2, <2>4 DEF RecordRun
<1>11. ASSUME NEW q \in Tree!Paths, q # <<>> PROVE RecordCounted(q)'
  <2>1. called'[q] = called[q] /\ asked'[q] = asked[q]
    BY <1>1 DEF RecordHistorySame
  <2>2. RecordOpen(q)' \subseteq RecordOpen(q)
    BY <1>3 DEF RecordOpen, RecordUsesUp
  <2>3. RecordGoing(q)' \subseteq RecordGoing(q)
    BY <1>1 DEF RecordGoing, RecordCallSame
  <2> QED
    BY <1>0, <1>11, <2>1, <2>2, <2>3, RecordCountKept
<1> QED
  BY <1>2, <1>6, <1>8, <1>9, <1>10, <1>11 DEF RecordEffect

LEMMA RecordPrunesEffect ==
  ASSUME RecordAllowed, RecordInv, NEW r \in Runs, RecordPrunes(r)
  PROVE  RecordEffect(r)
<1>0. /\ RecordTypes /\ RecordShape /\ \A q \in Runs : RecordRun(q)
      /\ \A q \in Tree!Paths : RecordNode(q)
      /\ \A q \in Tree!Paths : q # <<>> => RecordCounted(q)
  BY RecordParts
<1>1. /\ cursor' = cursor /\ config' = config /\ pending' = pending /\ got' = got
      /\ RecordCallSame /\ RecordHistorySame /\ RecordQuiet
      /\ store' = [store EXCEPT ![cursor[r]].pruned = TRUE]
  BY DEF RecordPrunes, RecordQuiet, RecordHistorySame
<1>2. PICK p \in Tree!Paths : p = cursor[r] /\ Tree!Stored(p)
  BY <1>0 DEF RecordTypes, RecordRunTypes, RecordRun, RecordPlace
<1>3. /\ RecordStoreTypes'
      /\ \A q \in Tree!Paths : RecordKept(q) /\ RecordGains(q, None)
      /\ \A q \in Tree!Paths : store'[q] # Absent <=> Tree!Stored(q)
  <2> DEFINE node == [store[p] EXCEPT !.pruned = TRUE]
  <2>1. store \in [Tree!Paths -> Tree!Nodes \cup {Absent}] /\ Absent \notin Tree!Nodes
    BY <1>0 DEF RecordTypes, RecordStoreTypes, RecordAllowed
  <2>2. store[p] \in Tree!Nodes
    BY <1>2, <2>1 DEF Tree!Stored
  <2>3. /\ node \in Tree!Nodes /\ node.result = store[p].result
        /\ node.rivals = store[p].rivals /\ node.avoided = store[p].avoided
    BY <2>2 DEF Tree!Nodes
  <2>4. store' = [store EXCEPT ![p] = node]
    BY <1>1, <1>2
  <2> HIDE DEF node
  <2>5. /\ store' \in [Tree!Paths -> Tree!Nodes \cup {Absent}] /\ store'[p] = node /\ node # Absent
        /\ \A q \in Tree!Paths : q # p => store'[q] = store[q]
    BY <2>1, <2>3, <2>4
  <2>6. ASSUME NEW q \in Tree!Paths PROVE RecordKept(q) /\ RecordGains(q, None)
    <3>1. CASE q = p
      BY <1>2, <2>3, <2>5, <3>1 DEF RecordKept, RecordGains
    <3>2. CASE q # p
      BY <2>5, <3>2 DEF RecordKept, RecordGains, Tree!Stored
    <3> QED
      BY <3>1, <3>2
  <2>7. \A q \in Tree!Paths : store'[q] # Absent <=> Tree!Stored(q)
    BY <1>2, <2>5 DEF Tree!Stored
  <2> QED
    BY <2>5, <2>6, <2>7 DEF RecordStoreTypes
<1>4. RecordShape'
  BY <1>0, <1>3, RecordShapeKept
<1>5. RecordTypes'
  BY <1>0, <1>1, <1>3 DEF RecordTypes, RecordRunTypes, RecordHistoryTypes, RecordCallSame,
     RecordHistorySame
<1>6. RecordGrown /\ \A q \in Tree!Paths : RecordNode(q)'
  BY <1>0, <1>1, <1>3, <1>5, RecordQuietNodes
<1>7. \A q \in Runs : RecordSame(q)
  BY <1>1 DEF RecordSame, RecordCallSame
<1>8. RecordRun(r)'
  BY <1>0, <1>5, <1>6, <1>7, RecordOthers
<1>9. ASSUME NEW q \in Tree!Paths, q # <<>> PROVE RecordCounted(q)'
  <2>1. called'[q] = called[q] /\ asked'[q] = asked[q]
    BY <1>1 DEF RecordHistorySame
  <2>2. RecordOpen(q)' \subseteq RecordOpen(q) /\ RecordGoing(q)' \subseteq RecordGoing(q)
    BY <1>1 DEF RecordOpen, RecordGoing, RecordCallSame
  <2> QED
    BY <1>0, <1>9, <2>1, <2>2, RecordCountKept
<1> QED
  BY <1>4, <1>5, <1>6, <1>7, <1>8, <1>9 DEF RecordEffect

(* Steps of a call that moves neither cursor nor tree.                     *)
RecordKeeps == RecordStill /\ cursor' = cursor /\ config' = config /\ got' = got
RecordCallTypes ==
  /\ pc' \in [Runs -> RecordPcs] /\ target' \in [Runs -> Tree!Paths]
  /\ seen' = [q \in Runs |-> seen'[q]]
RecordOnly(r) ==
  \A q \in Runs : q # r => pc'[q] = pc[q] /\ target'[q] = target[q] /\ seen'[q] = seen[q]
LEMMA RecordKeepsEffect ==
  ASSUME RecordAllowed, RecordInv, NEW r \in Runs, RecordKeeps, RecordQuiet,
         RecordHistoryTypes', RecordCallTypes, RecordOnly(r),
         pending' \in [Runs -> SUBSET Tree!Paths],
         \A q \in Runs : q # r => pending'[q] = pending[q],
         RecordStage(r)',
         \A q \in Tree!Paths : q # <<>> => RecordCounted(q)'
  PROVE  RecordEffect(r)
<1>0. /\ RecordTypes /\ RecordShape /\ \A q \in Runs : RecordRun(q)
      /\ \A q \in Tree!Paths : RecordNode(q)
  BY RecordParts
<1>1. /\ RecordStoreTypes' /\ RecordShape'
      /\ \A q \in Tree!Paths : RecordKept(q) /\ RecordGains(q, None)
      /\ \A q : Tree!Stored(q)' <=> Tree!Stored(q)
  BY <1>0, RecordStillDoes DEF RecordKeeps
<1>2. RecordTypes'
  BY <1>0, <1>1 DEF RecordTypes, RecordRunTypes, RecordKeeps, RecordCallTypes
<1>3. RecordGrown /\ \A q \in Tree!Paths : RecordNode(q)'
  BY <1>0, <1>1, <1>2, RecordQuietNodes
<1>4. ASSUME NEW q \in Runs, q # r PROVE RecordSame(q)
  BY <1>4 DEF RecordSame, RecordKeeps, RecordOnly
<1>5. RecordRun(r)'
  <2>1. RecordServed(r)'
    BY <1>0, <1>3, RecordServedKept DEF RecordRun, RecordGot, RecordKeeps
  <2>2. RecordPlace(r)'
    BY <1>0 DEF RecordPlace, RecordRun, RecordKeeps, RecordStill, Tree!Stored
  <2> QED
    BY <2>1, <2>2 DEF RecordRun
<1> QED
  BY <1>1, <1>2, <1>3, <1>4, <1>5 DEF RecordEffect

LEMMA RecordFindsEffect ==
  ASSUME RecordAllowed, RecordInv, NEW r \in Runs, NEW p, RecordFinds(r, p)
  PROVE  RecordEffect(r)
<1>0. /\ RecordTypes /\ RecordRun(r)
      /\ \A q \in Tree!Paths : RecordNode(q)
      /\ \A q \in Tree!Paths : q # <<>> => RecordCounted(q)
  BY RecordParts
<1>1. /\ pc[r] = "idle" /\ p \in Tree!Paths /\ Tree!HasResult(p) /\ config[r].mode # "replay"
      /\ RecordHistorySame /\ RecordQuiet /\ RecordKeeps
      /\ pc' = [pc EXCEPT ![r] = "avoid"] /\ target' = [target EXCEPT ![r] = p]
      /\ seen' = [seen EXCEPT ![r] = store[p].avoided]
  BY DEF RecordFinds, RecordKeeps, RecordStill, RecordQuiet, RecordHistorySame
<1>2. RecordUsesUp(r)
  BY <1>0, RecordTokenUsed DEF RecordFinds
<1>3. /\ RecordCallTypes /\ RecordOnly(r)
      /\ pc'[r] = "avoid" /\ target'[r] = p /\ seen'[r] = store[p].avoided
  <2>1. /\ pc \in [Runs -> RecordPcs] /\ target \in [Runs -> Tree!Paths]
        /\ seen = [q \in Runs |-> seen[q]]
    BY <1>0 DEF RecordTypes, RecordRunTypes
  <2>2. seen' = [q \in Runs |-> IF q = r THEN store[p].avoided ELSE seen[q]]
    BY <1>1, <2>1
  <2> QED
    BY <1>1, <2>1, <2>2 DEF RecordCallTypes, RecordOnly, RecordPcs
<1>4. RecordHistoryTypes'
  BY <1>0, <1>1 DEF RecordTypes, RecordHistoryTypes, RecordHistorySame
<1>5. RecordStage(r)'
  <2>1. store[p].avoided \in Nat /\ store[p].avoided <= hits'[p]
    BY <1>0, <1>1 DEF RecordNode, RecordTypes, RecordStoreTypes, Tree!HasResult, Tree!Stored,
       Tree!Nodes, RecordHistorySame
  <2>2. store'[p] # Absent /\ store'[p].result # None
    BY <1>1 DEF RecordKeeps, RecordStill, Tree!HasResult, Tree!Stored
  <2>3. config'[r].mode # "replay" /\ \A t \in pending'[r] : RecordMayCall(t)
    BY <1>0, <1>1, <1>2 DEF RecordKeeps, RecordRun, RecordStage, RecordUsesUp
  <2> QED
    BY <1>3, <2>1, <2>2, <2>3 DEF RecordStage, Tree!HasResult, Tree!Stored, RecordMayCall, Tree!Last
<1>6. ASSUME NEW q \in Tree!Paths, q # <<>> PROVE RecordCounted(q)'
  <2>1. called'[q] = called[q] /\ asked'[q] = asked[q]
    BY <1>1 DEF RecordHistorySame
  <2>2. RecordOpen(q)' \subseteq RecordOpen(q)
    BY <1>2 DEF RecordOpen, RecordUsesUp
  <2>3. RecordGoing(q)' \subseteq RecordGoing(q)
    BY <1>3 DEF RecordGoing, RecordOnly
  <2> QED
    BY <1>0, <1>6, <2>1, <2>2, <2>3, RecordCountKept
<1> QED
  BY <1>1, <1>2, <1>3, <1>4, <1>5, <1>6, RecordKeepsEffect DEF RecordUsesUp

LEMMA RecordLosesEffect ==
  ASSUME RecordAllowed, RecordInv, NEW r \in Runs, NEW p, RecordLoses(r, p)
  PROVE  RecordEffect(r)
<1>0. /\ RecordTypes /\ RecordRun(r)
      /\ \A q \in Tree!Paths : q # <<>> => RecordCounted(q)
  BY RecordParts
<1>1. RecordHistorySame /\ RecordQuiet /\ RecordKeeps /\ RecordCallSame
  BY DEF RecordLoses, RecordStays, RecordKeeps, RecordStill, RecordQuiet, RecordHistorySame
<1>2. RecordUsesUp(r)
  <2>1. RecordToken(r, p)
    BY DEF RecordLoses, RecordToken
  <2> QED
    BY <1>0, <2>1, RecordTokenUsed
<1>3. RecordCallTypes /\ RecordOnly(r)
  BY <1>0, <1>1 DEF RecordTypes, RecordRunTypes, RecordCallTypes, RecordOnly, RecordCallSame
<1>4. RecordHistoryTypes'
  BY <1>0, <1>1 DEF RecordTypes, RecordHistoryTypes, RecordHistorySame
<1>5. RecordStage(r)'
  BY <1>0, <1>1, <1>2 DEF RecordRun, RecordStage, RecordUsesUp, RecordKeeps, RecordStill,
     RecordCallSame, RecordHistorySame, Tree!HasResult, Tree!Stored, RecordMayCall, Tree!Last
<1>6. ASSUME NEW q \in Tree!Paths, q # <<>> PROVE RecordCounted(q)'
  <2>1. called'[q] = called[q] /\ asked'[q] = asked[q]
    BY <1>1 DEF RecordHistorySame
  <2>2. RecordOpen(q)' \subseteq RecordOpen(q)
    BY <1>2 DEF RecordOpen, RecordUsesUp
  <2>3. RecordGoing(q)' \subseteq RecordGoing(q)
    BY <1>1 DEF RecordGoing, RecordCallSame
  <2> QED
    BY <1>0, <1>6, <2>1, <2>2, <2>3, RecordCountKept
<1> QED
  BY <1>1, <1>2, <1>3, <1>4, <1>5, <1>6, RecordKeepsEffect DEF RecordUsesUp

LEMMA RecordAsksEffect ==
  ASSUME RecordAllowed, RecordInv, NEW r \in Runs, NEW p, RecordAsks(r, p)
  PROVE  RecordEffect(r)
<1>0. /\ RecordTypes /\ RecordRun(r)
      /\ \A q \in Tree!Paths : q # <<>> => RecordCounted(q)
  BY RecordParts
<1>1. /\ p \in Tree!Paths /\ RecordMayCall(p) /\ config[r].mode # "replay"
      /\ pending' = [pending EXCEPT ![r] = pending[r] \cup {p}]
      /\ asked' = [asked EXCEPT ![p] = asked[p] + 1] /\ called' = called
      /\ RecordQuiet /\ RecordKeeps /\ RecordCallSame
  BY DEF RecordAsks, RecordStays, RecordKeeps, RecordStill, RecordQuiet
<1>2. /\ pending' \in [Runs -> SUBSET Tree!Paths] /\ pending'[r] = pending[r] \cup {p}
      /\ \A q \in Runs : q # r => pending'[q] = pending[q]
  BY <1>0, <1>1 DEF RecordTypes, RecordRunTypes
<1>3. RecordCallTypes /\ RecordOnly(r)
  BY <1>0, <1>1 DEF RecordTypes, RecordRunTypes, RecordCallTypes, RecordOnly, RecordCallSame
<1>4. /\ asked' \in [Tree!Paths -> Nat] /\ asked'[p] = asked[p] + 1
      /\ \A q \in Tree!Paths : q # p => asked'[q] = asked[q]
  BY <1>0, <1>1 DEF RecordTypes, RecordHistoryTypes
<1>5. RecordHistoryTypes'
  BY <1>0, <1>1, <1>4 DEF RecordTypes, RecordHistoryTypes, RecordQuiet
<1>6. RecordStage(r)'
  BY <1>0, <1>1, <1>2 DEF RecordRun, RecordStage, RecordKeeps, RecordStill, RecordQuiet,
     RecordCallSame, Tree!HasResult, Tree!Stored, RecordMayCall, Tree!Last
<1>7. ASSUME NEW q \in Tree!Paths, q # <<>> PROVE RecordCounted(q)'
  <2>1. RecordGoing(q)' = RecordGoing(q) /\ called'[q] = called[q]
    BY <1>1 DEF RecordGoing, RecordCallSame
  <2>2. CASE q # p
    <3>1. RecordOpen(q)' \subseteq RecordOpen(q)
      BY <1>2, <2>2 DEF RecordOpen
    <3> QED
      BY <1>0, <1>4, <1>7, <2>1, <2>2, <3>1, RecordCountKept
  <2>3. CASE q = p
    <3>1. RecordOpen(q)' = RecordOpen(q) \cup {r}
      BY <1>2, <2>3 DEF RecordOpen
    <3>2. IsFiniteSet(RecordOpen(q)) /\ IsFiniteSet(RecordGoing(q))
      BY FS_Subset DEF RecordOpen, RecordGoing, RecordAllowed
    <3> DEFINE a == Cardinality(RecordOpen(q))
               b == Cardinality(RecordGoing(q))
               c == Cardinality(RecordOpen(q)')
    <3>3. c \in {a, a + 1} /\ a \in Nat /\ b \in Nat
      BY <3>1, <3>2, FS_AddElement, FS_CardinalityType
    <3>4. called[q] \in Nat /\ asked[q] \in Nat /\ asked'[q] = asked[q] + 1
      BY <1>0, <1>4, <2>3 DEF RecordTypes, RecordHistoryTypes
    <3>5. RecordCounted(q)
      BY <1>0, <1>7
    <3>6. Tree!Last(q) \in NeedsConfirm => called[q] + (a + b) <= asked[q]
      BY <3>5 DEF RecordCounted
    <3> HIDE DEF a, b, c
    <3>7. Tree!Last(q) \in NeedsConfirm => called[q] + (c + b) <= asked'[q]
      BY <3>3, <3>4, <3>6
    <3>8. Tree!Last(q) \in Denied => called[q] = 0
      BY <3>5 DEF RecordCounted
    <3> QED
      BY <2>1, <3>7, <3>8 DEF RecordCounted, Tree!Last, b, c
  <2> QED
    BY <2>2, <2>3
<1> QED
  BY <1>1, <1>2, <1>3, <1>5, <1>6, <1>7, RecordKeepsEffect

LEMMA RecordGoesEffect ==
  ASSUME RecordAllowed, RecordInv, NEW r \in Runs, NEW p, RecordGoes(r, p)
  PROVE  RecordEffect(r)
<1>0. /\ RecordTypes /\ RecordRun(r)
      /\ \A q \in Tree!Paths : q # <<>> => RecordCounted(q)
  BY RecordParts
<1>1. /\ pc[r] = "idle" /\ p \in Tree!Paths /\ config[r].mode # "replay"
      /\ RecordMayCall(p) /\ cursor[r] = Tree!Front(p) /\ RecordToken(r, p)
      /\ RecordHistorySame /\ RecordQuiet /\ RecordKeeps /\ seen' = seen
      /\ pc' = [pc EXCEPT ![r] = "dispatch"] /\ target' = [target EXCEPT ![r] = p]
  BY DEF RecordGoes, RecordKeeps, RecordStill, RecordQuiet, RecordHistorySame
<1>2. RecordUsesUp(r)
  BY <1>0, <1>1, RecordTokenUsed
<1>3. RecordCallTypes /\ RecordOnly(r) /\ pc'[r] = "dispatch" /\ target'[r] = p
  BY <1>0, <1>1 DEF RecordTypes, RecordRunTypes, RecordCallTypes, RecordOnly, RecordPcs
<1>4. RecordHistoryTypes'
  BY <1>0, <1>1 DEF RecordTypes, RecordHistoryTypes, RecordHistorySame
<1>5. RecordStage(r)'
  <2>1. /\ config'[r].mode # "replay" /\ cursor'[r] = Tree!Front(p)
        /\ \A t \in pending'[r] : RecordMayCall(t)
    BY <1>0, <1>1, <1>2 DEF RecordKeeps, RecordRun, RecordStage, RecordUsesUp
  <2> QED
    BY <1>1, <1>3, <2>1 DEF RecordStage, RecordMayCall, Tree!Last, Tree!Front
<1>6. ASSUME NEW q \in Tree!Paths, q # <<>> PROVE RecordCounted(q)'
  <2>1. called'[q] = called[q] /\ asked'[q] = asked[q]
    BY <1>1 DEF RecordHistorySame
  <2>2. CASE q # p
    <3>1. RecordOpen(q)' \subseteq RecordOpen(q)
      BY <1>2 DEF RecordOpen, RecordUsesUp
    <3>2. RecordGoing(q)' \subseteq RecordGoing(q)
      BY <1>3, <2>2 DEF RecordGoing, RecordOnly
    <3> QED
      BY <1>0, <1>6, <2>1, <3>1, <3>2, RecordCountKept
  <2>3. CASE q = p
    <3> DEFINE a == Cardinality(RecordOpen(q))
               b == Cardinality(RecordGoing(q))
               c == Cardinality(RecordOpen(q)')
               d == Cardinality(RecordGoing(q)')
    <3>1. RecordCounted(q) /\ (Tree!Last(q) \in Denied => called[q] = 0)
      BY <1>0, <1>6 DEF RecordCounted
    <3>2. ASSUME Tree!Last(q) \in NeedsConfirm PROVE called[q] + (c + d) <= asked[q]
      <4>1. r \in RecordOpen(q) /\ RecordOpen(q)' = RecordOpen(q) \ {r}
        <5>1. p \in pending[r] /\ pending' = [pending EXCEPT ![r] = pending[r] \ {p}]
          BY <1>1, <2>3, <3>2 DEF RecordToken
        <5>2. pending'[r] = pending[r] \ {p}
          BY <1>0, <5>1 DEF RecordTypes, RecordRunTypes
        <5> QED
          BY <1>2, <2>3, <5>1, <5>2 DEF RecordOpen, RecordUsesUp
      <4>2. r \notin RecordGoing(q) /\ RecordGoing(q)' = RecordGoing(q) \cup {r}
        BY <1>1, <1>3, <2>3 DEF RecordGoing, RecordOnly
      <4>3. IsFiniteSet(RecordOpen(q)) /\ IsFiniteSet(RecordGoing(q))
        BY FS_Subset DEF RecordOpen, RecordGoing, RecordAllowed
      <4>4. a \in Nat /\ b \in Nat
        BY <4>3, FS_CardinalityType
      <4>5. c = a - 1
        BY <4>1, <4>3, FS_RemoveElement
      <4>6. d = b + 1
        BY <4>2, <4>3, FS_AddElement
      <4>7. called[q] + (a + b) <= asked[q]
        BY <3>1, <3>2 DEF RecordCounted
      <4>8. called[q] \in Nat /\ asked[q] \in Nat
        BY <1>0 DEF RecordTypes, RecordHistoryTypes
      <4> HIDE DEF a, b, c, d
      <4> QED
        BY <4>4, <4>5, <4>6, <4>7, <4>8
    <3> QED
      BY <2>1, <3>1, <3>2 DEF RecordCounted, Tree!Last
  <2> QED
    BY <2>2, <2>3
<1> QED
  BY <1>1, <1>2, <1>3, <1>4, <1>5, <1>6, RecordKeepsEffect DEF RecordUsesUp

(* The handler is called: one call more, and one fewer about to be made.   *)
LEMMA RecordDispatchEffect ==
  ASSUME RecordAllowed, RecordInv, NEW r \in Runs, Tree!Dispatch(r)
  PROVE  RecordEffect(r)
<1>0. /\ RecordTypes /\ RecordShape /\ RecordRun(r)
      /\ \A q \in Tree!Paths : RecordNode(q)
      /\ \A q \in Tree!Paths : q # <<>> => RecordCounted(q)
  BY RecordParts
<1>1. PICK t \in Tree!Paths : t = target[r]
  BY <1>0 DEF RecordTypes, RecordRunTypes
<1>2. /\ pc[r] = "dispatch" /\ called' = [called EXCEPT ![t] = called[t] + 1]
      /\ RecordKeeps /\ pending' = pending /\ target' = target /\ asked' = asked /\ hits' = hits
  BY <1>1 DEF Tree!Dispatch, RecordKeeps, RecordStill
<1>3. /\ called' \in [Tree!Paths -> Nat] /\ called'[t] = called[t] + 1
      /\ \A q \in Tree!Paths : q # t => called'[q] = called[q]
  BY <1>0, <1>2 DEF RecordTypes, RecordHistoryTypes
<1>4. /\ RecordCallTypes /\ RecordOnly(r) /\ pc'[r] # "dispatch" /\ pc'[r] # "avoid"
      /\ ran' \in [Tree!Paths -> SUBSET Results] /\ \A q \in Tree!Paths : ran[q] \subseteq ran'[q]
      /\ pc'[r] = "record" => seen'[r] \in ran'[t]
  <2>1. /\ pc \in [Runs -> RecordPcs] /\ target \in [Runs -> Tree!Paths]
        /\ seen = [q \in Runs |-> seen[q]] /\ ran \in [Tree!Paths -> SUBSET Results]
    BY <1>0 DEF RecordTypes, RecordRunTypes, RecordHistoryTypes
  <2>2. CASE \E x \in Results : /\ seen' = [seen EXCEPT ![r] = x]
                                /\ ran' = [ran EXCEPT ![t] = ran[t] \cup {x}]
                                /\ pc' = [pc EXCEPT ![r] = "record"]
    <3>1. PICK x \in Results : /\ seen' = [seen EXCEPT ![r] = x]
                               /\ ran' = [ran EXCEPT ![t] = ran[t] \cup {x}]
                               /\ pc' = [pc EXCEPT ![r] = "record"]
      BY <2>2
    <3>2. seen' = [q \in Runs |-> IF q = r THEN x ELSE seen[q]]
      BY <2>1, <3>1
    <3>3. seen' = [q \in Runs |-> seen'[q]] /\ seen'[r] = x /\ \A q \in Runs : q # r => seen'[q] = seen[q]
      BY <3>2
    <3>4. /\ ran' \in [Tree!Paths -> SUBSET Results] /\ ran'[t] = ran[t] \cup {x}
          /\ \A q \in Tree!Paths : ran[q] \subseteq ran'[q]
      BY <2>1, <3>1
    <3>5. /\ pc' \in [Runs -> RecordPcs] /\ pc'[r] = "record"
          /\ \A q \in Runs : q # r => pc'[q] = pc[q]
      BY <2>1, <3>1 DEF RecordPcs
    <3> QED
      BY <1>2, <2>1, <3>3, <3>4, <3>5 DEF RecordCallTypes, RecordOnly
  <2>3. CASE pc' = [pc EXCEPT ![r] = "idle"] /\ seen' = seen /\ ran' = ran
    BY <1>2, <2>1, <2>3 DEF RecordCallTypes, RecordOnly, RecordPcs
  <2> QED
    BY <1>1, <2>2, <2>3 DEF Tree!Dispatch
<1>5. /\ RecordStoreTypes' /\ RecordShape'
      /\ \A q \in Tree!Paths : RecordKept(q) /\ RecordGains(q, None)
  BY <1>0, <1>2, RecordStillDoes DEF RecordKeeps
<1>6. RecordTypes'
  BY <1>0, <1>2, <1>3, <1>4, <1>5 DEF RecordTypes, RecordRunTypes, RecordHistoryTypes,
     RecordKeeps, RecordCallTypes
<1>7. \A q \in Tree!Paths : hits[q] <= hits'[q]
  BY <1>0, <1>2 DEF RecordTypes, RecordHistoryTypes
<1>8. RecordGrown
  BY <1>4, <1>5, <1>7 DEF RecordGrown
<1>9. ASSUME NEW q \in Tree!Paths PROVE RecordNode(q)'
  BY <1>0, <1>4, <1>5, <1>6, <1>7, RecordNodeStep
<1>10. ASSUME NEW q \in Runs, q # r PROVE RecordSame(q)
  BY <1>2, <1>4, <1>10 DEF RecordSame, RecordKeeps, RecordOnly
<1>11. RecordRun(r)'
  <2>1. RecordServed(r)'
    BY <1>0, <1>2, <1>8, RecordServedKept DEF RecordRun, RecordGot, RecordKeeps
  <2>2. RecordPlace(r)'
    BY <1>0, <1>2 DEF RecordPlace, RecordRun, RecordKeeps, RecordStill, Tree!Stored
  <2>3. /\ RecordMayCall(t) /\ cursor'[r] = Tree!Front(t) /\ target'[r] = t
        /\ config'[r].mode # "replay" /\ \A p \in pending'[r] : RecordMayCall(p)
    BY <1>0, <1>1, <1>2 DEF RecordRun, RecordStage, RecordKeeps
  <2>4. RecordStage(r)'
    BY <1>4, <2>3 DEF RecordStage, RecordMayCall, Tree!Last, Tree!Front
  <2> QED
    BY <2>1, <2>2, <2>4 DEF RecordRun
<1>12. ASSUME NEW q \in Tree!Paths, q # <<>> PROVE RecordCounted(q)'
  <2>1. RecordOpen(q)' = RecordOpen(q) /\ asked'[q] = asked[q]
    BY <1>2 DEF RecordOpen
  <2>2. CASE q # t
    <3>1. RecordGoing(q)' \subseteq RecordGoing(q)
      BY <1>2, <1>4 DEF RecordGoing, RecordOnly
    <3> QED
      BY <1>0, <1>3, <1>12, <2>1, <2>2, <3>1, RecordCountKept
  <2>3. CASE q = t
    <3>1. r \in RecordGoing(q) /\ RecordGoing(q)' = RecordGoing(q) \ {r}
      BY <1>1, <1>2, <1>4, <2>3 DEF RecordGoing, RecordOnly
    <3>2. IsFiniteSet(RecordOpen(q)) /\ IsFiniteSet(RecordGoing(q))
      BY FS_Subset DEF RecordOpen, RecordGoing, RecordAllowed
    <3> DEFINE a == Cardinality(RecordOpen(q))
               b == Cardinality(RecordGoing(q))
               d == Cardinality(RecordGoing(q)')
    <3>3. d = b - 1
      BY <3>1, <3>2, FS_RemoveElement
    <3>4. a \in Nat /\ b \in Nat
      BY <3>2, FS_CardinalityType
    <3>5. called[q] \in Nat /\ asked[q] \in Nat /\ called'[q] = called[q] + 1
      BY <1>0, <1>3, <2>3 DEF RecordTypes, RecordHistoryTypes
    <3>6. Tree!Last(q) \in NeedsConfirm => called[q] + (a + b) <= asked[q]
      BY <1>0, <1>12 DEF RecordCounted
    <3>7. Tree!Last(q) \notin Denied
      BY <1>0, <1>1, <1>2, <2>3 DEF RecordRun, RecordStage, RecordMayCall
    <3> HIDE DEF a, b, d
    <3>8. Tree!Last(q) \in NeedsConfirm => called'[q] + (a + d) <= asked'[q]
      BY <2>1, <3>3, <3>4, <3>5, <3>6
    <3> QED
      BY <2>1, <3>7, <3>8 DEF RecordCounted, Tree!Last, a, d
  <2> QED
    BY <2>2, <2>3
<1> QED
  BY <1>5, <1>6, <1>8, <1>9, <1>10, <1>11, <1>12 DEF RecordEffect

(* A hit is counted: the number written is one more than what was read.  *)
LEMMA RecordAvoidEffect ==
  ASSUME RecordAllowed, RecordInv, NEW r \in Runs, Tree!CountAvoided(r)
  PROVE  RecordEffect(r)
<1>0. /\ RecordTypes /\ RecordShape /\ \A q \in Runs : RecordRun(q)
      /\ \A q \in Tree!Paths : RecordNode(q)
      /\ \A q \in Tree!Paths : q # <<>> => RecordCounted(q)
  BY RecordParts
<1>1. PICK t \in Tree!Paths : t = target[r]
  BY <1>0 DEF RecordTypes, RecordRunTypes
<1> DEFINE g == [path |-> t, result |-> store[t].result, how |-> "hit"]
           node == [store[t] EXCEPT !.avoided = seen[r] + 1]
<1>2. /\ pc[r] = "avoid" /\ store' = [store EXCEPT ![t] = node]
      /\ hits' = [hits EXCEPT ![t] = hits[t] + 1] /\ cursor' = [cursor EXCEPT ![r] = t]
      /\ got' = [got EXCEPT ![r] = g] /\ pc' = [pc EXCEPT ![r] = "idle"]
      /\ seen' = [seen EXCEPT ![r] = None]
      /\ config' = config /\ pending' = pending /\ target' = target
      /\ ran' = ran /\ asked' = asked /\ called' = called
  BY <1>1 DEF Tree!CountAvoided, Tree!MoveTo, Tree!Returns
<1>3. Tree!HasResult(t) /\ seen[r] \in Nat /\ seen[r] <= hits[t]
  BY <1>0, <1>1, <1>2 DEF RecordRun, RecordStage
<1>4. /\ node \in Tree!Nodes /\ node.result = store[t].result
      /\ node.rivals = store[t].rivals /\ node.avoided = seen[r] + 1
  <2>1. store[t] \in Tree!Nodes
    BY <1>0, <1>3 DEF RecordTypes, RecordStoreTypes, Tree!HasResult, Tree!Stored
  <2> QED
    BY <1>3, <2>1 DEF Tree!Nodes
<1> HIDE DEF node
<1>5. /\ RecordStoreTypes' /\ store'[t] = node /\ node # Absent
      /\ \A q \in Tree!Paths : q # t => store'[q] = store[q]
  BY <1>0, <1>2, <1>4 DEF RecordTypes, RecordStoreTypes, RecordAllowed
<1>6. /\ \A q \in Tree!Paths : RecordKept(q)
      /\ \A q \in Tree!Paths : store'[q] # Absent <=> Tree!Stored(q)
  BY <1>3, <1>4, <1>5 DEF RecordKept, Tree!Stored, Tree!HasResult
<1>7. RecordShape'
  BY <1>0, <1>6, RecordShapeKept
<1>8. /\ hits' \in [Tree!Paths -> Nat] /\ hits'[t] = hits[t] + 1 /\ hits[t] \in Nat
      /\ \A q \in Tree!Paths : q # t => hits'[q] = hits[q] /\ hits[q] \in Nat
  BY <1>0, <1>2 DEF RecordTypes, RecordHistoryTypes
<1>9. /\ got' = [q \in Runs |-> got'[q]] /\ got'[r] = g
      /\ \A q \in Runs : q # r => got'[q] = got[q]
  <2>1. got = [q \in Runs |-> got[q]] /\ got' = [got EXCEPT ![r] = g]
    BY <1>0, <1>2 DEF RecordTypes, RecordRunTypes
  <2> HIDE DEF g
  <2>2. got' = [q \in Runs |-> IF q = r THEN g ELSE got[q]]
    BY <2>1
  <2> QED
    BY <2>2
<1>10. /\ seen' = [q \in Runs |-> seen'[q]]
       /\ \A q \in Runs : q # r => seen'[q] = seen[q]
  <2>1. seen = [q \in Runs |-> seen[q]]
    BY <1>0 DEF RecordTypes, RecordRunTypes
  <2>2. seen' = [q \in Runs |-> IF q = r THEN None ELSE seen[q]]
    BY <1>2, <2>1
  <2> QED
    BY <2>2
<1> HIDE DEF g
<1>11. /\ cursor' \in [Runs -> Tree!Paths] /\ cursor'[r] = t
       /\ pc' \in [Runs -> RecordPcs] /\ pc'[r] = "idle"
       /\ \A q \in Runs : q # r => cursor'[q] = cursor[q] /\ pc'[q] = pc[q]
  BY <1>0, <1>2 DEF RecordTypes, RecordRunTypes, RecordPcs
<1>12. RecordTypes'
  BY <1>0, <1>2, <1>5, <1>8, <1>9, <1>10, <1>11 DEF RecordTypes, RecordRunTypes, RecordHistoryTypes
<1>13. RecordGrown
  <2>1. ASSUME NEW q \in Tree!Paths PROVE ran[q] \subseteq ran'[q] /\ hits[q] <= hits'[q]
    BY <1>2, <1>8
  <2> QED
    BY <1>6, <2>1 DEF RecordGrown
<1>14. ASSUME NEW q \in Tree!Paths PROVE RecordNode(q)'
  <2>1. CASE q # t
    <3>1. RecordGains(q, None) /\ ran[q] \subseteq ran'[q] /\ hits[q] <= hits'[q]
      BY <1>2, <1>5, <1>8, <2>1 DEF RecordGains, Tree!Stored
    <3> QED
      BY <1>0, <1>12, <3>1, RecordNodeStep
  <2>2. CASE q = t
    <3>1. ({store[t].result} \cup store[t].rivals) \ {None} \subseteq ran[t]
      BY <1>0, <1>3 DEF RecordNode, Tree!HasResult
    <3>2. node.avoided <= hits'[t]
      BY <1>3, <1>4, <1>8
    <3> QED
      BY <1>2, <1>4, <1>5, <2>2, <3>1, <3>2 DEF RecordNode, Tree!Stored
  <2> QED
    BY <2>1, <2>2
<1>15. ASSUME NEW q \in Runs, q # r PROVE RecordSame(q)
  BY <1>2, <1>9, <1>10, <1>11, <1>15 DEF RecordSame
<1>16. RecordRun(r)'
  <2>1. RecordPlace(r)'
    BY <1>5, <1>11 DEF RecordPlace, Tree!Stored
  <2>2. RecordServed(r)'
    BY <1>3, <1>4, <1>5, <1>9 DEF RecordServed, Tree!HasResult, Tree!Stored, g
  <2>3. /\ \A p \in pending'[r] : RecordMayCall(p)
        /\ config'[r].mode = "replay" => pending'[r] = {}
    BY <1>0, <1>2 DEF RecordRun, RecordStage
  <2>4. RecordStage(r)'
    BY <1>11, <2>3 DEF RecordStage, RecordMayCall, Tree!Last
  <2> QED
    BY <2>1, <2>2, <2>4 DEF RecordRun
<1>17. ASSUME NEW q \in Tree!Paths, q # <<>> PROVE RecordCounted(q)'
  <2>1. called'[q] = called[q] /\ asked'[q] = asked[q] /\ RecordOpen(q)' \subseteq RecordOpen(q)
    BY <1>2 DEF RecordOpen
  <2>2. RecordGoing(q)' \subseteq RecordGoing(q)
    BY <1>2, <1>11 DEF RecordGoing
  <2> QED
    BY <1>0, <1>17, <2>1, <2>2, RecordCountKept
<1> QED
  BY <1>7, <1>12, <1>13, <1>14, <1>15, <1>16, <1>17 DEF RecordEffect

(* What the handler returned is put where the call was looked up.          *)
LEMMA RecordRecordEffect ==
  ASSUME RecordAllowed, RecordInv, NEW r \in Runs, Tree!Record(r)
  PROVE  RecordEffect(r)
<1>0. /\ RecordTypes /\ RecordShape /\ \A q \in Runs : RecordRun(q)
      /\ \A q \in Tree!Paths : RecordNode(q)
      /\ \A q \in Tree!Paths : q # <<>> => RecordCounted(q)
  BY RecordParts
<1>1. PICK t \in Tree!Paths : t = target[r]
  BY <1>0 DEF RecordTypes, RecordRunTypes
<1>2. /\ pc[r] = "record" /\ t # <<>> /\ cursor[r] = Tree!Front(t) /\ seen[r] \in ran[t]
      /\ Tree!Last(t) \in Calls /\ cursor[r] \in Tree!Paths /\ Tree!Stored(cursor[r])
  BY <1>0, <1>1 DEF Tree!Record, RecordRun, RecordStage, RecordMayCall, RecordPlace, RecordTypes,
     RecordRunTypes
<1>3. Append(cursor[r], Tree!Last(t)) = t
  BY <1>2, RecordFrontLast
<1>4. RecordBelow(cursor[r], Tree!Last(t), t)
  <2>1. Tree!Last(t) \in Tree!Labels /\ MaxDepth \in Nat
    BY <1>2 DEF Tree!Labels, RecordAllowed
  <2>2. cursor[r] \in Seq(Tree!Labels) /\ Len(t) <= MaxDepth
    BY <1>2, RecordPaths
  <2>3. Len(t) = Len(cursor[r]) + 1 /\ Len(cursor[r]) \in Nat
    BY <1>3, <2>1, <2>2
  <2>4. Len(cursor[r]) < MaxDepth
    BY <2>1, <2>2, <2>3
  <2>5. RecordBelow(cursor[r], Tree!Last(t), Append(cursor[r], Tree!Last(t)))
    BY <1>2, <2>1, <2>4, RecordBelowCursor
  <2> QED
    BY <1>3, <2>5
<1> DEFINE g == [path |-> t, result |-> store'[t].result, how |-> "live"]
           x == seen[r]
<1>5. /\ RecordPut(t, x, 1) /\ cursor' = [cursor EXCEPT ![r] = t]
      /\ got' = [got EXCEPT ![r] = g] /\ pc' = [pc EXCEPT ![r] = "idle"]
      /\ seen' = [seen EXCEPT ![r] = None]
      /\ config' = config /\ pending' = pending /\ target' = target /\ RecordHistorySame
  BY <1>1, <1>3 DEF Tree!Record, Tree!MoveTo, Tree!Returns, Tree!Below, RecordPut, RecordHistorySame
<1>6. x \in Results
  BY <1>0, <1>2 DEF RecordTypes, RecordHistoryTypes
<1>7. RecordPutDoes(t, x)
  BY <1>0, <1>5, <1>6, RecordPutEffect DEF RecordTypes
<1>8. RecordShape'
  BY <1>0, <1>2, <1>4, <1>7, RecordShapePut
<1>9. /\ got' = [q \in Runs |-> got'[q]] /\ got'[r].how # "hit"
      /\ \A q \in Runs : q # r => got'[q] = got[q]
  <2>1. got = [q \in Runs |-> got[q]] /\ got' = [got EXCEPT ![r] = g] /\ g.how # "hit"
    BY <1>0, <1>5 DEF RecordTypes, RecordRunTypes
  <2> HIDE DEF g
  <2>2. got' = [q \in Runs |-> IF q = r THEN g ELSE got[q]]
    BY <2>1
  <2> QED
    BY <2>1, <2>2
<1>10. /\ seen' = [q \in Runs |-> seen'[q]]
       /\ \A q \in Runs : q # r => seen'[q] = seen[q]
  <2>1. seen = [q \in Runs |-> seen[q]]
    BY <1>0 DEF RecordTypes, RecordRunTypes
  <2>2. seen' = [q \in Runs |-> IF q = r THEN None ELSE seen[q]]
    BY <1>5, <2>1
  <2> QED
    BY <2>2
<1> HIDE DEF g
<1>11. /\ cursor' \in [Runs -> Tree!Paths] /\ cursor'[r] = t
       /\ pc' \in [Runs -> RecordPcs] /\ pc'[r] = "idle"
       /\ \A q \in Runs : q # r => cursor'[q] = cursor[q] /\ pc'[q] = pc[q]
  BY <1>0, <1>5 DEF RecordTypes, RecordRunTypes, RecordPcs
<1>12. RecordTypes'
  BY <1>0, <1>5, <1>7, <1>9, <1>10, <1>11 DEF RecordTypes, RecordRunTypes, RecordHistoryTypes,
     RecordHistorySame, RecordPutDoes
<1>13. \A q \in Tree!Paths : ran[q] \subseteq ran'[q] /\ hits[q] <= hits'[q]
  BY <1>0, <1>5 DEF RecordHistorySame, RecordTypes, RecordHistoryTypes
<1>14. RecordGrown
  BY <1>7, <1>13 DEF RecordGrown, RecordPutDoes
<1>15. ASSUME NEW q \in Tree!Paths PROVE RecordNode(q)'
  <2>1. CASE q # t
    <3>1. RecordGains(q, None)
      BY <1>7, <2>1 DEF RecordPutDoes
    <3> QED
      BY <1>0, <1>12, <1>13, <3>1, RecordNodeStep
  <2>2. CASE q = t
    <3>1. RecordGains(q, x) /\ x \in ran'[q]
      BY <1>2, <1>5, <1>7, <2>2 DEF RecordPutDoes, RecordHistorySame
    <3> HIDE DEF x
    <3> QED
      BY <1>0, <1>12, <1>13, <3>1, RecordNodeStep
  <2> QED
    BY <2>1, <2>2
<1>16. ASSUME NEW q \in Runs, q # r PROVE RecordSame(q)
  BY <1>5, <1>9, <1>10, <1>11, <1>16 DEF RecordSame
<1>17. RecordRun(r)'
  <2>1. RecordPlace(r)'
    BY <1>7, <1>11 DEF RecordPlace, RecordPutDoes, Tree!Stored
  <2>2. RecordServed(r)'
    BY <1>9 DEF RecordServed
  <2>3. /\ \A p \in pending'[r] : RecordMayCall(p)
        /\ config'[r].mode = "replay" => pending'[r] = {}
    BY <1>0, <1>5 DEF RecordRun, RecordStage
  <2>4. RecordStage(r)'
    BY <1>11, <2>3 DEF RecordStage, RecordMayCall, Tree!Last
  <2> QED
    BY <2>1, <2>2, <2>4 DEF RecordRun
<1>18. ASSUME NEW q \in Tree!Paths, q # <<>> PROVE RecordCounted(q)'
  <2>1. called'[q] = called[q] /\ asked'[q] = asked[q] /\ RecordOpen(q)' \subseteq RecordOpen(q)
    BY <1>5 DEF RecordOpen, RecordHistorySame
  <2>2. RecordGoing(q)' \subseteq RecordGoing(q)
    BY <1>5, <1>11 DEF RecordGoing
  <2> QED
    BY <1>0, <1>18, <2>1, <2>2, RecordCountKept
<1> QED
  BY <1>8, <1>12, <1>14, <1>15, <1>16, <1>17, <1>18 DEF RecordEffect

-----------------------------------------------------------------------------
(* The invariant holds at first and is kept.                               *)
LEMMA RecordInit == ASSUME RecordAllowed PROVE Tree!Init => RecordInv
<1> SUFFICES ASSUME Tree!Init PROVE RecordInv
  OBVIOUS
<1>1. <<>> \in Tree!Paths
  <2>1. <<>> \in Seq(Tree!Labels) /\ Len(<<>>) <= MaxDepth
    BY DEF RecordAllowed
  <2> QED
    BY <2>1, RecordPaths
<1>2. /\ store = [p \in Tree!Paths |-> IF p = <<>> THEN Tree!NodeOf(None, 0) ELSE Absent]
      /\ cursor = [r \in Runs |-> <<>>] /\ target = [r \in Runs |-> <<>>]
      /\ config \in [Runs -> Configs] /\ pc = [r \in Runs |-> "idle"]
      /\ pending = [r \in Runs |-> {}]
      /\ seen = [r \in Runs |-> None] /\ got = [r \in Runs |-> Tree!Nothing]
      /\ ran = [p \in Tree!Paths |-> {}] /\ asked = [p \in Tree!Paths |-> 0]
      /\ called = [p \in Tree!Paths |-> 0] /\ hits = [p \in Tree!Paths |-> 0]
  BY DEF Tree!Init, Tree!Root
<1> DEFINE node == Tree!NodeOf(None, 0)
<1>3. node \in Tree!Nodes /\ node.result = None /\ node.rivals = {} /\ node.avoided = 0
  BY DEF Tree!NodeOf, Tree!Nodes
<1> HIDE DEF node
<1>4. store \in [Tree!Paths -> Tree!Nodes \cup {Absent}] /\ store[<<>>] = node /\ node # Absent
  BY <1>1, <1>2, <1>3 DEF RecordAllowed, node
<1>5. \A p \in Tree!Paths : Tree!Stored(p) => p = <<>>
  BY <1>2 DEF Tree!Stored
<1>6. RecordTypes
  <2>1. RecordRunTypes
    BY <1>1, <1>2 DEF RecordRunTypes, RecordPcs
  <2>2. RecordHistoryTypes
    BY <1>2 DEF RecordHistoryTypes
  <2> QED
    BY <1>4, <2>1, <2>2 DEF RecordTypes, RecordStoreTypes
<1>7. RecordShape
  <2>1. ASSUME NEW p \in Tree!Paths, Tree!Stored(p), NEW k \in 0 .. Len(p)
        PROVE  Tree!Stored(SubSeq(p, 1, k))
    <3>1. p = <<>> /\ k = 0
      BY <1>5, <2>1
    <3>2. SubSeq(p, 1, k) = <<>>
      BY <3>1
    <3> QED
      BY <1>4, <3>2 DEF Tree!Stored
  <2> QED
    BY <1>4, <2>1 DEF RecordShape, Tree!Stored
<1>8. ASSUME NEW r \in Runs PROVE RecordRun(r)
  <2>1. RecordPlace(r)
    BY <1>2, <1>4 DEF RecordPlace, Tree!Stored
  <2>2. RecordServed(r) /\ RecordStage(r)
    BY <1>2 DEF RecordServed, RecordStage, Tree!Nothing
  <2> QED
    BY <2>1, <2>2 DEF RecordRun
<1>9. ASSUME NEW p \in Tree!Paths PROVE RecordNode(p)
  <2> SUFFICES ASSUME Tree!Stored(p)
               PROVE  /\ ({store[p].result} \cup store[p].rivals) \ {None} \subseteq ran[p]
                      /\ store[p].avoided <= hits[p]
    BY DEF RecordNode
  <2>1. store[p].result = None /\ store[p].rivals = {} /\ store[p].avoided = 0 /\ hits[p] = 0
    BY <1>2, <1>3, <1>4, <1>5
  <2> QED
    BY <2>1
<1>10. ASSUME NEW p \in Tree!Paths PROVE RecordCounted(p)
  <2>1. RecordOpen(p) = {} /\ RecordGoing(p) = {}
    BY <1>2 DEF RecordOpen, RecordGoing
  <2>2. Cardinality(RecordOpen(p)) = 0 /\ Cardinality(RecordGoing(p)) = 0
    BY <2>1, FS_EmptySet
  <2> QED
    BY <1>2, <2>2 DEF RecordCounted
<1> QED
  BY <1>6, <1>7, <1>8, <1>9, <1>10, RecordParts

LEMMA RecordStepEffect ==
  ASSUME RecordAllowed, RecordInv, NEW r \in Runs, RecordSteps(r)
  PROVE  RecordEffect(r)
<1>1. ASSUME NEW p, RecordMoves(r, p) \/ RecordServes(r, p) \/ RecordFinds(r, p) \/ RecordGoes(r, p)
                    \/ RecordAsks(r, p) \/ RecordLoses(r, p)
      PROVE  RecordEffect(r)
  BY <1>1, RecordMovesEffect, RecordServesEffect, RecordFindsEffect, RecordGoesEffect,
     RecordAsksEffect, RecordLosesEffect
<1>2. CASE RecordPrunes(r)
  BY <1>2, RecordPrunesEffect
<1>3. CASE RecordCalls(r)
  BY <1>3, RecordAvoidEffect, RecordDispatchEffect, RecordRecordEffect DEF RecordCalls
<1> QED
  BY <1>1, <1>2, <1>3 DEF RecordSteps

LEMMA RecordEffectInv ==
  ASSUME RecordInv, NEW r \in Runs, RecordEffect(r)
  PROVE  RecordInv'
<1>1. RecordTypes /\ RecordTypes' /\ RecordGrown /\ \A q \in Runs : RecordRun(q)
  BY RecordParts DEF RecordEffect
<1>2. ASSUME NEW q \in Runs PROVE RecordRun(q)'
  BY <1>1, RecordOthers DEF RecordEffect
<1>3. /\ RecordTypes' /\ RecordShape' /\ \A q \in Tree!Paths : RecordNode(q)'
      /\ \A q \in Tree!Paths : q # <<>> => RecordCounted(q)'
  BY DEF RecordEffect
<1>4. RecordTree'
  BY <1>2, <1>3 DEF RecordTree, RecordShape, RecordRun, RecordPlace
<1> QED
  BY <1>2, <1>3, <1>4 DEF RecordInv, RecordRun

LEMMA RecordUnchanged ==
  ASSUME RecordInv, UNCHANGED Tree!vars
  PROVE  RecordInv'
<1>1. /\ store' = store /\ config' = config /\ cursor' = cursor /\ pending' = pending /\ pc' = pc
      /\ target' = target /\ seen' = seen /\ got' = got
      /\ ran' = ran /\ asked' = asked /\ called' = called /\ hits' = hits
  BY DEF Tree!vars, Tree!history
<1>2. RecordTypes' /\ RecordTree'
  BY <1>1 DEF RecordInv, RecordTypes, RecordStoreTypes, RecordRunTypes, RecordHistoryTypes,
     RecordTree, Tree!Stored
<1>3. ASSUME NEW r \in Runs PROVE RecordStage(r)' /\ RecordServed(r)'
  BY <1>1 DEF RecordInv, RecordStage, RecordServed, RecordMayCall, Tree!HasResult, Tree!Stored,
     Tree!Last, Tree!Front
<1>4. ASSUME NEW p \in Tree!Paths PROVE RecordNode(p)' /\ (p # <<>> => RecordCounted(p)')
  <2>1. RecordOpen(p)' = RecordOpen(p) /\ RecordGoing(p)' = RecordGoing(p)
    BY <1>1 DEF RecordOpen, RecordGoing
  <2>2. RecordCounted(p) => RecordCounted(p)'
    BY <1>1, <2>1 DEF RecordCounted, Tree!Last
  <2>3. RecordNode(p) => RecordNode(p)'
    BY <1>1 DEF RecordNode, Tree!Stored
  <2> QED
    BY <2>2, <2>3 DEF RecordInv
<1> QED
  BY <1>2, <1>3, <1>4 DEF RecordInv

LEMMA RecordInductive == ASSUME RecordAllowed PROVE Tree!Spec => []RecordInv
<1>1. Tree!Init => RecordInv
  BY RecordInit
<1>2. RecordInv /\ [Tree!Next]_(Tree!vars) => RecordInv'
  BY RecordNext, RecordStepEffect, RecordEffectInv, RecordUnchanged
<1> QED
  BY <1>1, <1>2, PTL DEF Tree!Spec

-----------------------------------------------------------------------------
(* A result stands where the call that produced it was looked up and       *)
(* prechecked, as the node's result or as a conflict (Run._call).          *)
THEOREM RecordStandsWhereChecked ==
  ASSUME RecordAllowed
  PROVE  Tree!Spec => []Tree!RecordedWhereChecked
<1>1. RecordInv => Tree!RecordedWhereChecked
  BY DEF RecordInv, RecordNode, Tree!RecordedWhereChecked
<1> QED
  BY <1>1, RecordInductive, PTL

(* What a call returned from a recording stands there now (replay.py).     *)
THEOREM RecordIsServed ==
  ASSUME RecordAllowed
  PROVE  Tree!Spec => []Tree!ServedIsRecorded
<1>1. RecordInv => Tree!ServedIsRecorded
  BY DEF RecordInv, RecordServed, Tree!HasResult, Tree!ServedIsRecorded
<1> QED
  BY <1>1, RecordInductive, PTL

(* A handler that needs confirmation is called at most as often as it was  *)
(* asked for at that place; a denied one is never called (Run.confirm).    *)
THEOREM RecordConfirmedOnce ==
  ASSUME RecordAllowed
  PROVE  Tree!Spec => []Tree!ConfirmedOnce
<1>1. RecordInv => Tree!ConfirmedOnce
  <2> SUFFICES ASSUME RecordInv, NEW p \in Tree!Paths, p # <<>>
               PROVE  /\ Tree!Last(p) \in NeedsConfirm => called[p] <= asked[p]
                      /\ Tree!Last(p) \in Denied => called[p] = 0
    BY DEF Tree!ConfirmedOnce, Tree!Root
  <2>1. RecordCounted(p)
    BY DEF RecordInv
  <2> DEFINE a == Cardinality(RecordOpen(p))
             b == Cardinality(RecordGoing(p))
  <2>2. a \in Nat /\ b \in Nat
    <3>1. IsFiniteSet(RecordOpen(p)) /\ IsFiniteSet(RecordGoing(p))
      BY FS_Subset DEF RecordOpen, RecordGoing, RecordAllowed
    <3> QED
      BY <3>1, FS_CardinalityType
  <2>3. called[p] \in Nat /\ asked[p] \in Nat
    BY DEF RecordInv, RecordTypes, RecordHistoryTypes
  <2>4. Tree!Last(p) \in NeedsConfirm => called[p] + (a + b) <= asked[p]
    BY <2>1 DEF RecordCounted
  <2> HIDE DEF a, b
  <2>5. Tree!Last(p) \in NeedsConfirm => called[p] <= asked[p]
    BY <2>2, <2>3, <2>4
  <2> QED
    BY <2>1, <2>5 DEF RecordCounted
<1>2. RecordAllowed
  OBVIOUS
<1> QED
  BY <1>1, <1>2, RecordInductive, PTL

(* A charge is called avoided only where a recorded result was served in *)
(* its place (record_avoided_charges).                                   *)
THEOREM RecordAvoidedIsReal ==
  ASSUME RecordAllowed
  PROVE  Tree!Spec => []Tree!AvoidedIsReal
<1>1. RecordInv => Tree!AvoidedIsReal
  BY DEF RecordInv, RecordNode, Tree!AvoidedIsReal
<1> QED
  BY <1>1, RecordInductive, PTL

(* A recording is for ever: neither re-recording, branches, pruning nor    *)
(* rolled-back runs take back what a replay can serve.                     *)
THEOREM RecordIsForEver ==
  ASSUME RecordAllowed
  PROVE  Tree!Spec => [][Tree!RecordingStays]_(Tree!vars)
<1>1. RecordInv /\ [Tree!Next]_(Tree!vars) => [Tree!RecordingStays]_(Tree!vars)
  <2> SUFFICES ASSUME RecordInv, Tree!Next PROVE Tree!RecordingStays
    OBVIOUS
  <2>1. PICK r \in Runs : RecordEffect(r)
    BY RecordNext, RecordStepEffect
  <2>2. ASSUME NEW p \in Tree!Paths, Tree!HasResult(p) PROVE store'[p].result = store[p].result
    BY <2>1, <2>2, RecordResultKept DEF RecordEffect, RecordGrown
  <2> QED
    BY <2>2 DEF Tree!RecordingStays
<1> QED
  BY <1>1, RecordInductive, PTL DEF Tree!Spec

(* While only replay runs are at work, the recording does not change.      *)
THEOREM RecordReplayReads ==
  ASSUME RecordAllowed
  PROVE  Tree!Spec => [][Tree!ReplayReadsOnly]_(Tree!vars)
<1>1. RecordInv /\ [Tree!Next]_(Tree!vars) => [Tree!ReplayReadsOnly]_(Tree!vars)
  <2> SUFFICES ASSUME RecordInv, Tree!Next, \A r \in Runs : Tree!Replays(r) PROVE store' = store
    BY DEF Tree!ReplayReadsOnly
  <2>1. \A r \in Runs : pc[r] = "idle" /\ pending[r] = {}
    BY DEF RecordInv, RecordStage, Tree!Replays
  <2>2. ASSUME NEW r \in Runs, Tree!Note(r) PROVE store' = store
    BY <2>2 DEF Tree!Note
  <2>3. ASSUME NEW r \in Runs, Tree!Prune(r) PROVE FALSE
    BY <2>3 DEF Tree!Prune
  <2>4. ASSUME NEW r \in Runs, NEW q \in Runs, Tree!Branch(r, q) PROVE store' = store
    BY <2>4 DEF Tree!Branch
  <2>5. ASSUME NEW r \in Runs, NEW p, Tree!Rollback(r, p) PROVE store' = store
    BY <2>5 DEF Tree!Rollback
  <2>6. ASSUME NEW r \in Runs, NEW c, NEW p, Tree!StartRun(r, c, p) PROVE store' = store
    BY <2>6 DEF Tree!StartRun
  <2>7. ASSUME NEW r \in Runs, NEW c \in Calls, Tree!ToolCall(r, c) PROVE store' = store
    BY <2>7 DEF Tree!ToolCall, Tree!Serve
  <2>8. ASSUME NEW r \in Runs, Tree!CountAvoided(r) \/ Tree!Dispatch(r) \/ Tree!Record(r) PROVE FALSE
    BY <2>1, <2>8 DEF Tree!CountAvoided, Tree!Dispatch, Tree!Record
  <2> QED
    BY <2>1, <2>2, <2>3, <2>4, <2>5, <2>6, <2>7, <2>8 DEF Tree!Next
<1> QED
  BY <1>1, RecordInductive, PTL DEF Tree!Spec
-----------------------------------------------------------------------------
(* What is proved of KVArbiter, for these requests and charges.            *)
Proved == INSTANCE KVArbiterProofs WITH
  MaxTime <- Horizon, Requests <- Asks, Charges <- Bills

LEMMA ClientsAllowed == Proved!RowsAssumption /\ Proved!LeaseAssumption /\ Proved!ClientsAssumption
<1>1. Proved!RowsAssumption /\ Proved!LeaseAssumption
  BY RowsAssumption DEF Proved!RowsAssumption, Proved!LeaseAssumption, Proved!Rows
<1>2. IsFiniteSet(Ids) <=> Proved!IsFiniteSet(Ids)
  BY DEF IsFiniteSet, Proved!IsFiniteSet
<1>3. Asks \subseteq Proved!RequestType
  BY WorkersAssumption DEF Asks, Proved!RequestType
<1>4. Bills \subseteq Proved!ChargeType
  BY WorkersAssumption DEF Bills, Proved!ChargeType
<1> QED
  BY <1>1, <1>2, <1>3, <1>4, RowsAssumption DEF Proved!ClientsAssumption

(* It is the same arbiter.                                                 *)
LEMMA SameTotals ==
  ASSUME NEW S, NEW f
  PROVE  Proved!Total(S, f) = Total(S, f) /\ Arbiter!Total(S, f) = Total(S, f)
BY DEF Total, Units, Proved!Total, Proved!Units, Proved!Cardinality,
       Arbiter!Total, Arbiter!Units, Arbiter!Cardinality, Cardinality

LEMMA SameReads ==
  /\ \A i : Proved!Live(i) <=> Arbiter!Live(i)
  /\ \A r : Proved!Held(r) = Arbiter!Held(r)
  /\ \A w : Proved!WindowSettled(w) = Arbiter!WindowSettled(w)
  /\ Proved!Purged = Arbiter!Purged
<1>1. \A i, r : (Proved!Live(i) <=> Arbiter!Live(i)) /\ (Proved!On(i, r) <=> Arbiter!On(i, r))
  BY DEF Proved!Live, Arbiter!Live, Proved!On, Arbiter!On, Proved!Details, Arbiter!Details
<1>2. \A r : /\ Proved!Holders(r) = Arbiter!Holders(r)
             /\ Proved!Estimates(r) = Arbiter!Estimates(r)
             /\ Proved!Bills(r) = Arbiter!Bills(r)
             /\ Proved!Recent(r) = Arbiter!Recent(r)
  BY <1>1 DEF Proved!Holders, Arbiter!Holders, Proved!Estimates, Arbiter!Estimates,
              Proved!Bills, Arbiter!Bills, Proved!Recent, Arbiter!Recent,
              Proved!InWindow, Arbiter!InWindow
<1>3. Proved!Purged = Arbiter!Purged
  BY DEF Proved!Purged, Arbiter!Purged, Proved!InWindow, Arbiter!InWindow
<1> QED
  BY <1>1, <1>2, <1>3, SameTotals
  DEF Proved!Held, Arbiter!Held, Proved!WindowSettled, Arbiter!WindowSettled

LEMMA SameReserve ==
  ASSUME NEW i, NEW q
  PROVE  Arbiter!Reserve(i, q) <=> Proved!Reserve(i, q)
<1>1. \A k : Proved!Synced(q, k) = Arbiter!Synced(q, k)
  BY DEF Proved!Synced, Arbiter!Synced, Proved!Larger, Arbiter!Larger
<1>2. \A r : /\ Proved!Fits(q, r) <=> Arbiter!Fits(q, r)
             /\ Proved!FitsWindow(q, r) <=> Arbiter!FitsWindow(q, r)
  BY <1>1, SameReads
  DEF Proved!Fits, Arbiter!Fits, Proved!FitsWindow, Arbiter!FitsWindow
<1>3. Proved!Overdrawn(q) = Arbiter!Overdrawn(q) /\ Proved!Crowded(q) = Arbiter!Crowded(q)
  BY <1>2 DEF Proved!Overdrawn, Arbiter!Overdrawn, Proved!Crowded, Arbiter!Crowded
<1>4. Proved!Visited(q) = Arbiter!Visited(q)
  BY <1>3 DEF Proved!Visited, Arbiter!Visited
<1>5. Proved!SyncRows(q) <=> Arbiter!SyncRows(q)
  BY <1>1, <1>4 DEF Proved!SyncRows, Arbiter!SyncRows
<1> QED
  BY <1>3, <1>5, SameReads
  DEF Arbiter!Reserve, Proved!Reserve, Arbiter!RetryReserve, Proved!RetryReserve,
      Arbiter!RefuseByBudget, Proved!RefuseByBudget, Arbiter!RefuseByWindow,
      Proved!RefuseByWindow, Arbiter!Grant, Proved!Grant, Arbiter!Expiry, Proved!Expiry,
      Arbiter!vars, Proved!vars, Arbiter!reservations, Proved!reservations,
      Arbiter!ledger, Proved!ledger

LEMMA SameEnds ==
  ASSUME NEW i, NEW ch
  PROVE  /\ Arbiter!Settle(i, ch) <=> Proved!Settle(i, ch)
         /\ Arbiter!Release(i) <=> Proved!Release(i)
         /\ Arbiter!Renew(i) <=> Proved!Renew(i)
         /\ Arbiter!Tick <=> Proved!Tick
<1> USE DEF Arbiter!vars, Proved!vars, Arbiter!reservations, Proved!reservations,
            Arbiter!ledger, Proved!ledger
<1>1. Arbiter!Settle(i, ch) <=> Proved!Settle(i, ch)
  <2>1. /\ Arbiter!CanSettle(i) <=> Proved!CanSettle(i)
        /\ Arbiter!SettledBudget(i, ch) = Proved!SettledBudget(i, ch)
        /\ Arbiter!SettledEvents(i, ch) = Proved!SettledEvents(i, ch)
    BY DEF Arbiter!CanSettle, Proved!CanSettle, Arbiter!Details, Proved!Details,
           Arbiter!SettledBudget, Proved!SettledBudget,
           Arbiter!SettledEvents, Proved!SettledEvents
  <2> QED
    BY <2>1 DEF Arbiter!Settle, Proved!Settle, Arbiter!SettleActive, Proved!SettleActive,
                Arbiter!RetrySettle, Proved!RetrySettle
<1>2. Arbiter!Release(i) <=> Proved!Release(i)
  BY DEF Arbiter!Release, Proved!Release, Arbiter!CanRelease, Proved!CanRelease
<1>3. Arbiter!Renew(i) <=> Proved!Renew(i)
  BY DEF Arbiter!Renew, Proved!Renew, Arbiter!CanRenew, Proved!CanRenew, Arbiter!Live,
         Proved!Live, Arbiter!Expiry, Proved!Expiry
<1>4. Arbiter!Tick <=> Proved!Tick
  BY DEF Arbiter!Tick, Proved!Tick
<1> QED
  BY <1>1, <1>2, <1>3, <1>4

LEMMA SameArbiter == Arbiter!Spec => Proved!Spec
<1>1. Arbiter!Init => Proved!Init
  BY DEF Arbiter!Init, Proved!Init, Arbiter!NoRequest, Proved!NoRequest, Arbiter!NoCharge,
         Proved!NoCharge
<1>2. [Arbiter!Next]_(Arbiter!vars) => [Proved!Next]_(Proved!vars)
  <2>1. Arbiter!Next => Proved!Next
    BY SameReserve, SameEnds DEF Arbiter!Next, Proved!Next
  <2>2. UNCHANGED Arbiter!vars => UNCHANGED Proved!vars
    BY DEF Arbiter!vars, Proved!vars, Arbiter!reservations, Proved!reservations,
           Arbiter!ledger, Proved!ledger
  <2> QED
    BY <2>1, <2>2
<1> QED
  BY <1>1, <1>2, PTL DEF Arbiter!Spec, Proved!Spec

LEMMA LedgerCovers == Spec => []Arbiter!LedgerCoversCharges
<1>1. Proved!Spec => []Proved!LedgerCoversCharges
  BY ClientsAllowed, Proved!NothingForgotten
<1>2. Proved!LedgerCoversCharges => Arbiter!LedgerCoversCharges
  BY SameTotals DEF Proved!LedgerCoversCharges, Arbiter!LedgerCoversCharges,
     Proved!Paid, Arbiter!Paid, Proved!Payers, Arbiter!Payers, Proved!Bills, Arbiter!Bills
<1> QED
  BY <1>1, <1>2, CallsUseArbiter, SameArbiter, PTL

(* Workers share one limit: however calls fail, time out, are retried and  *)
(* crash, what the arbiter has settled and holds for all of them stays     *)
(* within it, but for the excess of settled calls.                         *)
THEOREM WorkersShareLimit == Spec => []Arbiter!CapacityBound
<1>1. Proved!Spec => []Proved!CapacityBound
  BY ClientsAllowed, Proved!NeverOverGranted
<1>2. Proved!CapacityBound => Arbiter!CapacityBound
  <2>1. \A k : /\ Proved!Paid(k) = Arbiter!Paid(k)
               /\ Proved!Payers(k) = Arbiter!Payers(k)
    BY SameTotals DEF Proved!Paid, Arbiter!Paid, Proved!Payers, Arbiter!Payers,
       Proved!Bills, Arbiter!Bills
  <2>2. \A k : Proved!Excesses(k) = Arbiter!Excesses(k)
    BY DEF Proved!Excesses, Arbiter!Excesses, Proved!Excess, Arbiter!Excess,
       Proved!Late, Arbiter!Late, Proved!Larger, Arbiter!Larger
  <2> QED
    BY <2>1, <2>2, SameReads, SameTotals DEF Proved!CapacityBound, Arbiter!CapacityBound
<1> QED
  BY <1>1, <1>2, CallsUseArbiter, SameArbiter, PTL

-----------------------------------------------------------------------------
(***************************************************************************)
(* Baselines.  The tree counts no more than the ledger has settled, the    *)
(* stored amounts never shrink, and so a baseline read from the tree is    *)
(* covered when it is read and as long as the request is under way.        *)
(***************************************************************************)
LEMMA TreeWithinLedger ==
  ASSUME TypeOK, IInv, AskInv, unsure = {}, Arbiter!LedgerCoversCharges, NEW k \in Keys
  PROVE  Spent(k) <= budget[k]
<1> USE RowsAssumption, WorkersAssumption DEF TypeOK
<1> DEFINE Counted == {i \in recorded : k \in Plan[i].keys}
           f == [i \in Ids |-> charge[i][MeterOf[k]]]
           g == [i \in Ids |-> paid[i][MeterOf[k]]]
           Payers == Arbiter!Payers(k)
<1>1. IsFiniteSet(Payers)
  BY FS_Subset DEF Arbiter!Payers
<1>2. Counted \subseteq Payers
  <2> SUFFICES ASSUME NEW i \in recorded, k \in Plan[i].keys PROVE i \in Payers
    OBVIOUS
  <2>1. state[i] = "settled"
    BY DEF IInv, CallInv, Charged
  <2>2. request[i].keys = Plan[i].keys
    BY <2>1 DEF AskInv, Asked
  <2> QED
    BY <2>1, <2>2 DEF Arbiter!Payers
<1>3. \A i \in Ids : f[i] \in Nat /\ g[i] \in Nat
  <2>1. MeterOf[k] \in Meters
    OBVIOUS
  <2>2. \A i \in Ids : charge[i] \in [Meters -> Nat] /\ paid[i] \in [Meters -> Nat]
    BY DEF Arbiter!ChargeType
  <2> QED
    BY <2>1, <2>2
<1>4. \A i \in Counted : f[i] = g[i]
  BY DEF IInv, CallInv, Charged
<1>5. Arbiter!Paid(k) = Total(Payers, g)
  BY SameTotals DEF Arbiter!Paid, Arbiter!Bills
<1>6. Spent(k) = 0 \/ Spent(k) = Total(Counted, f)
  BY DEF Spent
<1>7. Payers \subseteq Ids
  BY DEF Arbiter!Payers
<1> HIDE DEF Counted, f, g, Payers
<1>8. \A i \in Payers : g[i] \in Nat
  BY <1>3, <1>7
<1>9. \A i \in Counted : f[i] \in Nat /\ f[i] <= g[i]
  BY <1>2, <1>3, <1>4, <1>7
<1>10. Total(Counted, f) <= Total(Payers, g) /\ Total(Payers, g) \in Nat
  BY <1>1, <1>2, <1>8, <1>9, TotalMonotone, TotalType
<1>11. Total(Payers, g) <= budget[k]
  BY <1>5 DEF Arbiter!LedgerCoversCharges
<1>12. Total(Counted, f) \in Nat
  <2>1. IsFiniteSet(Counted)
    BY <1>1, <1>2, FS_Subset
  <2> QED
    BY <1>9, <2>1, TotalType
<1> QED
  BY <1>6, <1>10, <1>11, <1>12

LEMMA StoredGrows ==
  ASSUME TypeOK, [Arbiter!Next]_(Arbiter!vars), NEW k \in Keys
  PROVE  budget[k] <= budget'[k]
<1> USE DEF TypeOK
<1>1. budget[k] \in Nat
  OBVIOUS
<1>2. CASE UNCHANGED budget
  BY <1>1, <1>2
<1>3. ASSUME NEW q \in Asks, Arbiter!SyncRows(q) PROVE budget[k] <= budget'[k]
  <2>1. q.base[k] \in Nat
    BY DEF Asks
  <2> QED
    BY <1>1, <1>3, <2>1 DEF Arbiter!SyncRows, Arbiter!Synced, Arbiter!Larger
<1>4. ASSUME NEW i \in Ids, NEW ch \in Bills, Arbiter!SettleActive(i, ch)
      PROVE  budget[k] <= budget'[k]
  <2>1. ch[MeterOf[k]] \in Nat
    BY RowsAssumption, WorkersAssumption DEF Bills
  <2> QED
    BY <1>1, <1>4, <2>1 DEF Arbiter!SettleActive, Arbiter!SettledBudget
<1> QED
  BY <1>2, <1>3, <1>4
  DEF Arbiter!Next, Arbiter!Reserve, Arbiter!RetryReserve, Arbiter!RefuseByBudget,
      Arbiter!RefuseByWindow, Arbiter!Grant, Arbiter!Settle, Arbiter!RetrySettle,
      Arbiter!Release, Arbiter!Renew, Arbiter!Tick, Arbiter!vars, Arbiter!reservations,
      Arbiter!ledger

BaseCovered(i) == pc[i] = "asking" => \A k \in Keys : ask[i].base[k] <= budget[k]
UnsureGrows == unsure \subseteq unsure'

LEMMA OwnBase ==
  ASSUME TypeOK, TypeOK', IInv, AskInv, unsure = {}, Arbiter!LedgerCoversCharges,
         NEW i \in Ids, BaseCovered(i), \A k \in Keys : budget[k] <= budget'[k],
         \/ Reserving(i) \/ Returning(i) \/ Ending(i) \/ Heartbeat(i)
  PROVE  BaseCovered(i)'
<1> USE DEF TypeOK, Goto
<1>1. CASE Snapshot(i)
  <2> DEFINE b == [k \in Keys |-> IF k \in Plan[i].keys THEN Spent(k) ELSE 0]
  <2>1. ask'[i].base = b
    BY <1>1 DEF Snapshot
  <2>2. budget' = budget
    BY <1>1 DEF Snapshot, arbiterVars
  <2>3. \A k \in Keys : b[k] <= budget[k]
    <3> SUFFICES ASSUME NEW k \in Keys PROVE b[k] <= budget[k]
      OBVIOUS
    <3>1. Spent(k) <= budget[k] /\ budget[k] \in Nat
      BY TreeWithinLedger
    <3> QED
      BY <3>1
  <2> HIDE DEF b
  <2> QED
    BY <2>1, <2>2, <2>3 DEF BaseCovered
<1>2. CASE ~ Snapshot(i)
  <2>1. pc'[i] = "asking" => pc[i] = "asking" /\ ask'[i] = ask[i]
    BY <1>2 DEF Reserving, Precheck, PrecheckFails, ReserveAcked, ReserveUnacked, ReserveFails,
       StartLease, Acknowledged, TryAgainOr, StageAfter, Returning, ReturnResult, ReturnUnknown,
       ReturnError, StopLease, AfterStop, Ending, SettleAcked, SettleUnacked, SettleFails,
       SettleFailed, Record, RecordFails, Assess, AssessFails, ReleaseAcked, ReleaseUnacked,
       ReleaseFails, Heartbeat, BeginHeartbeat, SendRenewal, ApplyRenewal, RenewalConfirmed,
       RenewalDenied, RenewalFails, callVars
  <2> SUFFICES ASSUME pc'[i] = "asking", NEW k \in Keys PROVE ask'[i].base[k] <= budget'[k]
    BY DEF BaseCovered
  <2>2. ask[i].base[k] <= budget[k] /\ ask'[i] = ask[i]
    BY <2>1 DEF BaseCovered
  <2>3. ask[i] \in Arbiter!RequestType
    OBVIOUS
  <2>4. ask[i].base[k] \in Nat
    BY <2>3 DEF Arbiter!RequestType
  <2>5. budget \in [Keys -> Nat] /\ budget' \in [Keys -> Nat]
    BY DEF Arbiter!TypeOK
  <2>6. budget[k] <= budget'[k]
    OBVIOUS
  <2>7. \A a, b, c \in Nat : a <= b /\ b <= c => a <= c
    OBVIOUS
  <2> HIDE DEF TypeOK
  <2> QED
    BY <2>2, <2>4, <2>5, <2>6, <2>7, Zenon
<1> QED
  BY <1>1, <1>2

LEMMA OtherBase ==
  ASSUME TypeOK, TypeOK', NEW i \in Ids, BaseCovered(i),
         \A k \in Keys : budget[k] <= budget'[k],
         pc'[i] = "asking" => pc[i] = "asking" /\ ask'[i] = ask[i]
  PROVE  BaseCovered(i)'
<1> SUFFICES ASSUME pc'[i] = "asking", NEW k \in Keys PROVE ask'[i].base[k] <= budget'[k]
  BY DEF BaseCovered
<1>1. ask[i].base[k] <= budget[k] /\ ask'[i] = ask[i]
  BY DEF BaseCovered
<1>2. ask[i].base[k] \in Nat /\ budget[k] \in Nat /\ budget'[k] \in Nat
  BY DEF TypeOK, Arbiter!RequestType
<1> QED
  BY <1>1, <1>2

LEMMA UnsureStays == ASSUME [Next]_vars PROVE UnsureGrows
<1> USE DEF UnsureGrows, treeVars
<1>1. ASSUME NEW i \in Ids, Reserving(i) \/ Returning(i) PROVE UnsureGrows
  BY <1>1 DEF Reserving, Precheck, PrecheckFails, Snapshot, ReserveAcked, ReserveUnacked,
              ReserveFails, StartLease, Returning, ReturnResult, ReturnUnknown, ReturnError,
              StopLease
<1>2. ASSUME NEW i \in Ids, Ending(i) PROVE UnsureGrows
  <2>1. CASE SettleAcked(i) \/ SettleUnacked(i) \/ SettleFails(i)
    BY <2>1 DEF SettleAcked, SettleUnacked, SettleFails, SettleFailed
  <2>2. CASE ~ (SettleAcked(i) \/ SettleUnacked(i) \/ SettleFails(i))
    BY <1>2, <2>2 DEF Ending, Record, RecordFails, Assess, AssessFails, ReleaseAcked,
                      ReleaseUnacked, ReleaseFails
  <2> QED
    BY <2>1, <2>2
<1>3. ASSUME NEW i \in Ids, Heartbeat(i) PROVE UnsureGrows
  BY <1>3 DEF Heartbeat, BeginHeartbeat, SendRenewal, ApplyRenewal, RenewalConfirmed,
              RenewalDenied, RenewalFails
<1>4. CASE (\E w \in Workers : Crash(w)) \/ Tick \/ UNCHANGED vars
  BY <1>4 DEF Crash, Tick, vars
<1> QED
  BY <1>1, <1>2, <1>3, <1>4 DEF Next

(* A request under way never raises a row above what has been settled in   *)
(* it, however old its baselines are and whatever the others recorded in   *)
(* the meantime (_precheck).                                               *)
THEOREM BaselinesHarmless == Spec => []StaleBaselinesHarmless
<1>1. Init => StaleBaselinesHarmless
  BY DEF Init, StaleBaselinesHarmless
<1>2. /\ TypeOK /\ TypeOK' /\ IInv /\ AskInv /\ Arbiter!LedgerCoversCharges
      /\ StaleBaselinesHarmless /\ [Next]_vars
      => StaleBaselinesHarmless'
  <2> SUFFICES ASSUME TypeOK, TypeOK', IInv, AskInv, Arbiter!LedgerCoversCharges,
                      StaleBaselinesHarmless, [Next]_vars, unsure' = {}, NEW i \in Ids
               PROVE  BaseCovered(i)'
    BY DEF StaleBaselinesHarmless, BaseCovered
  <2>1. unsure = {}
    BY UnsureStays DEF UnsureGrows
  <2>2. BaseCovered(i)
    BY <2>1 DEF StaleBaselinesHarmless, BaseCovered
  <2>3. \A k \in Keys : budget[k] <= budget'[k]
    BY StepServed, StoredGrows
  <2>4. ASSUME NEW j \in Ids, Reserving(j) \/ Returning(j) \/ Ending(j) \/ Heartbeat(j)
        PROVE  BaseCovered(i)'
    <3>1. CASE i = j
      BY <2>1, <2>2, <2>3, <2>4, <3>1, OwnBase
    <3>2. CASE i # j
      <4>1. pc'[i] = pc[i] /\ ask'[i] = ask[i]
        BY <2>4, <3>2, OthersStill DEF Still
      <4> QED
        BY <2>2, <2>3, <4>1, OtherBase
    <3> QED
      BY <3>1, <3>2
  <2>5. ASSUME NEW w \in Workers, Crash(w) PROVE BaseCovered(i)'
    <3>1. pc'[i] = "asking" => pc[i] = "asking" /\ ask'[i] = ask[i]
      BY <2>5 DEF Crash, Cleared, TypeOK
    <3> QED
      BY <2>2, <2>3, <3>1, OtherBase
  <2>6. CASE Tick \/ UNCHANGED vars
    <3>1. pc'[i] = pc[i] /\ ask'[i] = ask[i]
      BY <2>6 DEF Tick, vars, callVars
    <3> QED
      BY <2>2, <2>3, <3>1, OtherBase
  <2> QED
    BY <2>4, <2>5, <2>6 DEF Next
<1> QED
  BY <1>1, <1>2, CallTypeCorrect, Inductive, AsksKept, LedgerCovers, PTL DEF Spec

=============================================================================
