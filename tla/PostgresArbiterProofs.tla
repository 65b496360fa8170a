------------------------ MODULE PostgresArbiterProofs ------------------------
(***************************************************************************)
(* Proofs about PostgresArbiter for any number of connections,             *)
(* reservations, rows, limits, requests and charges, and a clock without   *)
(* bound: what the row locks exclude, what they order, and that this is    *)
(* enough for the ledger although the transactions are interleaved.        *)
(***************************************************************************)
EXTENDS PostgresArbiter, WellFoundedInduction

Rows == Keys \cup Windows

(* The types of the tables, and of the sessions. *)
Tables ==
  /\ now \in Nat
  /\ state \in [Ids -> {"none", "active", "settled", "released"}]
  /\ request \in [Ids -> Ledger!RequestType]
  /\ expires \in [Ids -> Nat]
  /\ paid \in [Ids -> [Meters -> Nat]]
  /\ completed \in [Ids -> Nat]
  /\ budget \in [Keys -> Nat]
  /\ present \in SUBSET Keys
  /\ events \in SUBSET (Ids \X Windows)
  /\ ended \in [Ids -> Nat]
  /\ revived \in SUBSET Ids
TxType == [op : Operations, id : Ids \cup {NoId}, q : Ledger!RequestType,
           ch : [Meters -> Nat], stage : Stages, time : Nat,
           verdict : Verdicts, reach : SUBSET Rows]
Transactions ==
  /\ tx \in [Sessions -> TxType]
  /\ \A s \in Sessions : tx[s].op # "none" => tx[s].id \in Ids
Locks == owner \in [Resources -> SUBSET Sessions]

Typed == Tables /\ Transactions /\ Locks

(* Every request and every charge a session carries is well formed. *)
LEMMA Inputs ==
  /\ \A q \in Requests : q \in Ledger!RequestType
  /\ \A ch \in Charges : ch \in [Meters -> Nat]
  /\ Ledger!NoRequest \in Ledger!RequestType
  /\ Ledger!NoCharge \in [Meters -> Nat]
  /\ \A q \in Ledger!RequestType :
       /\ q.keys \subseteq Keys /\ q.wins \subseteq Windows
       /\ q.est \in [Meters -> Nat] /\ q.base \in [Keys -> Nat]
  /\ \A r \in Rows : MeterOf[r] \in Meters /\ Limit[r] \in Nat
  /\ \A w \in Windows : Span[w] \in Nat
BY SessionsAssumption, RowsAssumption
DEF Ledger!RequestType, Ledger!NoRequest, Ledger!NoCharge, Rows

(* The first thing a session does, and what is left of it at its end. *)
LEMMA TxTypes ==
  /\ NoTransaction \in TxType
  /\ \A i \in Ids, q \in Requests : [Doing("reserve", i) EXCEPT !.q = q] \in TxType
  /\ \A i \in Ids, ch \in Charges : [Doing("settle", i) EXCEPT !.ch = ch] \in TxType
  /\ \A i \in Ids : Doing("release", i) \in TxType /\ Doing("renew", i) \in TxType
BY Inputs DEF TxType, NoTransaction, Doing, Operations, Stages, Verdicts

(* A transaction that goes to another stage, that reads the clock, and     *)
(* that decides on its request.                                            *)
Locking(t) == [t EXCEPT !.stage = "locking"]
TimedAt(t, time) == [t EXCEPT !.stage = "timed", !.time = time]
DecidedAt(t, time, v, h) == [t EXCEPT !.stage = "timed", !.time = time, !.verdict = v, !.reach = h]

LEMMA LockingFits ==
  ASSUME NEW t \in TxType
  PROVE  Locking(t) \in TxType /\ Locking(t).id = t.id /\ Locking(t).op = t.op /\ Locking(t).time = t.time
BY DEF TxType, Locking, Stages

LEMMA TimedFits ==
  ASSUME NEW t \in TxType, NEW time \in Nat
  PROVE  TimedAt(t, time) \in TxType /\ TimedAt(t, time).id = t.id /\ TimedAt(t, time).op = t.op
BY DEF TxType, TimedAt, Stages

LEMMA DecidedFits ==
  ASSUME NEW t \in TxType, NEW time \in Nat, NEW v \in Verdicts, NEW h \in SUBSET Rows
  PROVE  /\ DecidedAt(t, time, v, h) \in TxType
         /\ DecidedAt(t, time, v, h).id = t.id /\ DecidedAt(t, time, v, h).op = t.op
BY DEF TxType, DecidedAt, Stages

Begins(s) ==
  \/ \E i \in Ids, q \in Requests : BeginReserve(s, i, q)
  \/ \E i \in Ids, ch \in Charges : BeginSettle(s, i, ch)
  \/ \E i \in Ids : BeginRelease(s, i) \/ BeginRenew(s, i)

LEMMA BeginsWith ==
  ASSUME NEW s \in Sessions, Begins(s)
  PROVE  \E t \in TxType : t.id \in Ids /\ t.time = 0 /\ Begin(s, t)
<1>4. ASSUME NEW i \in Ids, NEW q \in Requests, BeginReserve(s, i, q)
      PROVE  \E t \in TxType : t.id \in Ids /\ t.time = 0 /\ Begin(s, t)
  <2> DEFINE n == [Doing("reserve", i) EXCEPT !.q = q]
  <2>1. n \in TxType /\ n.id = i /\ n.time = 0 /\ Begin(s, n)
    BY <1>4, TxTypes DEF BeginReserve, Doing
  <2> HIDE DEF n
  <2> QED
    BY <2>1
<1>5. ASSUME NEW i \in Ids, NEW ch \in Charges, BeginSettle(s, i, ch)
      PROVE  \E t \in TxType : t.id \in Ids /\ t.time = 0 /\ Begin(s, t)
  <2> DEFINE n == [Doing("settle", i) EXCEPT !.ch = ch]
  <2>1. n \in TxType /\ n.id = i /\ n.time = 0 /\ Begin(s, n)
    BY <1>5, TxTypes DEF BeginSettle, Doing
  <2> HIDE DEF n
  <2> QED
    BY <2>1
<1>6. ASSUME NEW i \in Ids, BeginRelease(s, i) \/ BeginRenew(s, i)
      PROVE  \E t \in TxType : t.id \in Ids /\ t.time = 0 /\ Begin(s, t)
  <2>1. /\ Doing("release", i).id = i /\ Doing("release", i).time = 0
        /\ Doing("renew", i).id = i /\ Doing("renew", i).time = 0
    BY DEF Doing
  <2> QED
    BY <1>6, <2>1, TxTypes DEF BeginRelease, BeginRenew
<1> QED
  BY <1>4, <1>5, <1>6 DEF Begins

LEMMA TxSet ==
  ASSUME Transactions, NEW s \in Sessions, NEW t \in TxType, t.op # "none" => t.id \in Ids,
         tx' = [tx EXCEPT ![s] = t]
  PROVE  Transactions'
BY DEF Transactions

LEMMA TxNext ==
  ASSUME Typed, NEW s \in Sessions, Step(s)
  PROVE  Transactions' /\ Locks'
<1> USE DEF Typed, Locks
<1>1. ASSUME End(s) PROVE Transactions' /\ Locks'
  <2>1. NoTransaction.op = "none"
    BY DEF NoTransaction, Doing
  <2>2. Transactions'
    BY <1>1, <2>1, TxTypes, TxSet DEF End
  <2> QED
    BY <1>1, <2>2 DEF End
<1>2. ASSUME Begins(s) PROVE Transactions' /\ Locks'
  BY <1>2, BeginsWith, TxSet DEF Begin
<1>6. ASSUME Lock(s) PROVE Transactions' /\ Locks'
  BY <1>6 DEF Lock, Transactions
<1>0. /\ tx[s] \in TxType
      /\ tx[s].op # "none" => tx[s].id \in Ids
      /\ now \in Nat /\ \A g \in {"locking", "timed"} : g \in Stages
  BY DEF Transactions, Tables, Stages
<1>7. ASSUME ReadClock(s) PROVE Transactions' /\ Locks'
  <2> DEFINE n == TimedAt(tx[s], now)
  <2>1. tx' = [tx EXCEPT ![s] = n] /\ owner' = owner
    BY <1>7 DEF ReadClock, DatabaseTime, TimedAt
  <2>2. n \in TxType /\ (n.op # "none" => n.id \in Ids)
    BY <1>0, TimedFits
  <2> HIDE DEF n
  <2>3. Transactions'
    BY <2>1, <2>2 DEF Transactions
  <2> QED
    BY <2>1, <2>3
<1>8. ASSUME ReserveNew(s) \/ LookAndLock(s) PROVE Transactions' /\ Locks'
  <2> DEFINE n == Locking(tx[s])
  <2>1. tx' = [tx EXCEPT ![s] = n]
    BY <1>8 DEF ReserveNew, LookAndLock, Locking
  <2>2. Locks'
    BY <1>8 DEF ReserveNew, LookAndLock
  <2>3. n \in TxType /\ (n.op # "none" => n.id \in Ids)
    BY <1>0, LockingFits
  <2> HIDE DEF n
  <2>4. Transactions'
    BY <2>1, <2>3 DEF Transactions
  <2> QED
    BY <2>2, <2>4
<1>9. ASSUME Decide(s) PROVE Transactions' /\ Locks'
  <2>1. Verdict(tx[s].q, DatabaseTime) \in Verdicts
    BY DEF Verdict, Verdicts
  <2>2. Reach(tx[s].q, DatabaseTime) \in SUBSET Rows
    BY <1>0 DEF Reach, Rows, TxType, Ledger!RequestType
  <2> DEFINE v == Verdict(tx[s].q, now)
             h == Reach(tx[s].q, now)
  <2>3. v \in Verdicts /\ h \in SUBSET Rows
    BY <2>1, <2>2 DEF DatabaseTime
  <2> DEFINE n == DecidedAt(tx[s], now, v, h)
  <2>4. tx' = [tx EXCEPT ![s] = n] /\ owner' = owner
    BY <1>9 DEF Decide, DatabaseTime, DecidedAt
  <2> HIDE DEF v, h
  <2>5. n \in TxType /\ (n.op # "none" => n.id \in Ids)
    BY <1>0, <2>3, DecidedFits
  <2> HIDE DEF n
  <2>6. Transactions'
    BY <2>4, <2>5 DEF Transactions
  <2> QED
    BY <2>4, <2>6
<1>11. ASSUME \/ Rollback(s) \/ ReserveKnown(s) \/ Refuse(s) \/ Grant(s)
              \/ LookInVain(s) \/ Settle(s) \/ Release(s) \/ Renew(s)
       PROVE  End(s)
  BY <1>11 DEF Rollback, ReserveKnown, Refuse, Grant, LookInVain, Settle, Release, Renew
<1> QED
  BY <1>1, <1>2, <1>6, <1>7, <1>8, <1>9, <1>11 DEF Step, Begins

LEMMA TablesNext ==
  ASSUME Typed, NEW s \in Sessions, Step(s)
  PROVE  Tables'
<1> USE DEF Typed, Tables
<1>1. /\ tx[s].q \in Ledger!RequestType
      /\ tx[s].ch \in [Meters -> Nat]
      /\ tx[s].time \in Nat
      /\ tx[s].op # "none" => tx[s].id \in Ids
  BY DEF Transactions, TxType
<1>2. ASSUME SyncRows(s) PROVE budget' \in [Keys -> Nat] /\ present' \in SUBSET Keys
  <2>1. tx[s].q.base \in [Keys -> Nat] /\ tx[s].q.keys \subseteq Keys
    BY <1>1, Inputs
  <2>2. \A k \in Keys : Synced(tx[s].q, k) \in Nat
    BY <2>1 DEF Synced, Ledger!Synced, Ledger!Larger
  <2> QED
    BY <1>2, <2>1, <2>2 DEF SyncRows
<1>3. Purged(s) \in SUBSET (Ids \X Windows)
  BY DEF Purged
<1>4. ASSUME \/ UNCHANGED <<now, tables, history>>
             \/ UNCHANGED <<now, tables, tx, history>>
      PROVE  Tables'
  BY <1>4 DEF tables, history
<1>5. ASSUME \/ \E i \in Ids, q \in Requests : BeginReserve(s, i, q)
             \/ \E i \in Ids, ch \in Charges : BeginSettle(s, i, ch)
             \/ \E i \in Ids : BeginRelease(s, i) \/ BeginRenew(s, i)
             \/ Lock(s) \/ ReadClock(s) \/ Rollback(s)
             \/ ReserveKnown(s) \/ ReserveNew(s) \/ Decide(s)
             \/ LookInVain(s) \/ LookAndLock(s)
      PROVE  Tables'
  BY <1>4, <1>5
  DEF BeginReserve, BeginSettle, BeginRelease, BeginRenew, Begin, Lock, ReadClock, Rollback,
      ReserveKnown, ReserveNew, Decide, LookInVain, LookAndLock
<1>6. ASSUME Refuse(s) PROVE Tables'
  BY <1>2, <1>3, <1>6 DEF Refuse, history
<1>7. ASSUME Grant(s) PROVE Tables'
  BY <1>1, <1>2, <1>3, <1>7, LeaseAssumption DEF Grant, Decided, In, Id, history
<1>8. ASSUME Settle(s) PROVE Tables'
  <2>1. tx[s].ch \in [Meters -> Nat] /\ \A r \in Rows : MeterOf[r] \in Meters
    BY <1>1, Inputs
  <2>2. Ledger!SettledBudget(Id(s), tx[s].ch) \in [Keys -> Nat]
    BY <2>1 DEF Ledger!SettledBudget, Rows
  <2>3. Id(s) \in Ids =>
          Ledger!SettledEvents(Id(s), tx[s].ch) \in SUBSET (Ids \X Windows)
    BY Inputs DEF Ledger!SettledEvents
  <2> QED
    BY <1>1, <1>8, <2>2, <2>3 DEF Settle, In, Id
<1>9. ASSUME Release(s) PROVE Tables'
  BY <1>1, <1>9 DEF Release, In, Id, history
<1>10. ASSUME Renew(s) PROVE Tables'
  BY <1>1, <1>10, LeaseAssumption DEF Renew, In, Id
<1> QED
  BY <1>5, <1>6, <1>7, <1>8, <1>9, <1>10 DEF Step

(* A lock has one holder at most, and a session's clock reading is past.   *)
OneHolder == \A r \in Resources : \A s, t \in owner[r] : s = t
Punctual == \A s \in Sessions : tx[s].time <= now

LEMMA OneHolderNext ==
  ASSUME Typed, OneHolder, NEW s \in Sessions, Step(s)
  PROVE  OneHolder'
<1> USE DEF Typed, Locks, OneHolder
<1>1. ASSUME End(s) PROVE OneHolder'
  BY <1>1 DEF End
<1>2. ASSUME UNCHANGED owner PROVE OneHolder'
  BY <1>2
<1>3. ASSUME NEW r \in Resources, owner' = [owner EXCEPT ![r] = {s}] PROVE OneHolder'
  BY <1>3
<1>4. CASE Lock(s) \/ LookAndLock(s)
  <2>1. CASE Lock(s)
    BY <1>3, <2>1 DEF Lock, Resources, Locks
  <2>2. CASE LookAndLock(s)
    BY <1>3, <2>2 DEF LookAndLock, Resources, Transactions, Id
  <2> QED
    BY <1>4, <2>1, <2>2
<1> QED
  BY <1>1, <1>2, <1>4
  DEF Step, BeginReserve, BeginSettle, BeginRelease, BeginRenew, Begin, ReadClock, Rollback,
      ReserveKnown, ReserveNew, Decide, Refuse, Grant, LookInVain, Settle, Release, Renew

LEMMA PunctualNext ==
  ASSUME Typed, Punctual, NEW s \in Sessions, Step(s)
  PROVE  Punctual'
<1> USE DEF Typed, Tables, Transactions, TxType, Punctual
<1>1. ASSUME NEW t \in TxType, t.time <= now, tx' = [tx EXCEPT ![s] = t], now' = now
      PROVE  Punctual'
  BY <1>1
<1>2. NoTransaction \in TxType /\ NoTransaction.time <= now
  BY TxTypes DEF NoTransaction, Doing
<1>3. ASSUME End(s), now' = now PROVE Punctual'
  BY <1>1, <1>2, <1>3 DEF End
<1>4. ASSUME UNCHANGED <<now, tx>> PROVE Punctual'
  BY <1>4
<1>5. ASSUME Begins(s) PROVE Punctual'
  <2>1. PICK t \in TxType : t.time = 0 /\ Begin(s, t)
    BY <1>5, BeginsWith
  <2>2. t.time <= now
    BY <2>1
  <2> QED
    BY <1>1, <2>1, <2>2 DEF Begin
<1>8. ASSUME ReadClock(s) \/ Decide(s) PROVE Punctual'
  <2>1. tx'[s].time = now /\ now' = now /\ \A t \in Sessions \ {s} : tx'[t] = tx[t]
    BY <1>8 DEF ReadClock, Decide, DatabaseTime
  <2> QED
    BY <2>1
<1>9. ASSUME ReserveNew(s) \/ LookAndLock(s) PROVE Punctual'
  <2>1. tx[s] \in TxType /\ tx[s].time <= now
    OBVIOUS
  <2>2. tx' = [tx EXCEPT ![s] = Locking(tx[s])] /\ now' = now
    BY <1>9 DEF ReserveNew, LookAndLock, Locking
  <2> HIDE DEF TxType
  <2> QED
    BY <1>1, <2>1, <2>2, LockingFits
<1> QED
  BY <1>3, <1>4, <1>5, <1>8, <1>9
  DEF Step, Begins, Lock, Rollback, ReserveKnown, Refuse, Grant, LookInVain, Settle, Release, Renew

LEMMA TypedStarts == Init => Typed /\ OneHolder /\ Punctual
BY TxTypes, Inputs
DEF Init, Ledger!Init, Typed, Tables, Transactions, Locks, OneHolder, Punctual, TxType,
    NoTransaction, Doing

LEMMA TypedNext ==
  Typed /\ OneHolder /\ Punctual /\ [Next]_vars => (Typed /\ OneHolder /\ Punctual)'
<1> SUFFICES ASSUME Typed, OneHolder, Punctual, [Next]_vars
             PROVE  (Typed /\ OneHolder /\ Punctual)'
  OBVIOUS
<1>1. ASSUME NEW s \in Sessions, Step(s) PROVE (Typed /\ OneHolder /\ Punctual)'
  BY <1>1, TxNext, TablesNext, OneHolderNext, PunctualNext DEF Typed
<1>2. CASE Tick
  BY <1>2 DEF Tick, tables, history, Typed, Tables, Transactions, Locks, OneHolder, Punctual, TxType
<1>3. CASE UNCHANGED vars
  BY <1>3 DEF vars, tables, history, Typed, Tables, Transactions, Locks, OneHolder, Punctual
<1> QED
  BY <1>1, <1>2, <1>3 DEF Next

LEMMA TypedAlways == Spec => [](Typed /\ OneHolder /\ Punctual)
BY TypedStarts, TypedNext, PTL DEF Spec

(* No row is ever locked by two sessions, no session has read a clock that *)
(* is still to come, and every table keeps its type.                       *)
THEOREM TypeCorrect == Spec => []TypeOK
<1>1. Typed /\ OneHolder /\ Punctual => TypeOK
  <2> SUFFICES ASSUME Typed, OneHolder, Punctual PROVE TypeOK
    OBVIOUS
  <2>1. ASSUME NEW r \in Resources PROVE Cardinality(owner[r]) <= 1
    <3>1. CASE owner[r] = {}
      BY <3>1, FS_EmptySet
    <3>2. CASE owner[r] # {}
      <4>1. PICK s \in owner[r] : owner[r] = {s}
        BY <3>2 DEF OneHolder
      <4>2. Cardinality({s}) = 1
        BY FS_Singleton
      <4> QED
        BY <4>1, <4>2
    <3> QED
      BY <3>1, <3>2
  <2>2. Ledger!TypeOK
    BY DEF Typed, Tables, Ledger!TypeOK, Ledger!States, Ledger!ChargeType
  <2> QED
    BY <2>1, <2>2
    DEF TypeOK, Typed, Tables, Transactions, TxType, Locks, Punctual, Rows, Ledger!ChargeType
<1> QED
  BY <1>1, TypedAlways, PTL

-----------------------------------------------------------------------------
(* Least elements.                                                         *)

(* Rows are numbers, so of the rows still to be locked one comes first.    *)
LEMMA LeastOf ==
  ASSUME NEW S \in SUBSET Nat, S # {}
  PROVE  \E n \in S : \A m \in S : n <= m
<1> DEFINE R == OpToRel(<, Nat)
<1>1. PICK n \in S : \A m \in S : ~ (<<m, n>> \in R)
  <2>1. IsWellFoundedOn(R, Nat)
    BY NatLessThanWellFounded
  <2> HIDE DEF R
  <2> QED
    BY <2>1, WFMin
<1>2. \A m \in S : ~ (m < n)
  BY <1>1 DEF OpToRel
<1> QED
  BY <1>2

(* When none is next, all are locked. *)
LEMMA AllLocked ==
  ASSUME NEW s \in Sessions, NEW S \in SUBSET Rows, Unlocked(s, S) = {}
  PROVE  S \subseteq Owned(s)
<1>1. S \ Owned(s) \in SUBSET Nat
  BY RowsAssumption DEF Rows
<1>2. CASE S \ Owned(s) # {}
  BY <1>1, <1>2, LeastOf DEF Unlocked
<1> QED
  BY <1>2

-----------------------------------------------------------------------------
(* What a session holds at each stage of its transaction.                  *)

Has(s, r) == s \in owner[r]
Wants(s) == tx[s].q.keys \cup tx[s].q.wins
Takes(s) == tx[s].op \in {"settle", "release", "renew"} /\ tx[s].stage # "look"

HoldsNothing(s) == \A r \in Resources : ~ Has(s, r)
(* A reserve locks only rows it asks for, and has all of them when it      *)
(* decides.                                                                *)
ReserveHolds(s) ==
  /\ tx[s].q \in Requests
  /\ tx[s].reach \subseteq Wants(s)
  /\ \A r \in Resources : Has(s, r) => r \in Wants(s)
  /\ tx[s].stage = "timed" => \A r \in Wants(s) : Has(s, r)
(* The other operations go on only with an active reservation, whose row   *)
(* they keep locked.                                                       *)
TakerHolds(s) == Has(s, Id(s)) /\ state[Id(s)] = "active"
(* A settlement locks only rows of its reservation, and has locked the     *)
(* windows when it reads the clock.                                        *)
SettleHolds(s) ==
  /\ \A r \in Resources : Has(s, r) => r = Id(s) \/ Ledger!On(Id(s), r)
  /\ tx[s].stage = "timed" => \A w \in request[Id(s)].wins : Has(s, w)
OtherHolds(s) == \A r \in Resources : Has(s, r) => r = Id(s)

Holding(s) ==
  /\ tx[s].op = "none" => tx[s].stage = "look"
  /\ tx[s].stage = "look" => HoldsNothing(s)
  /\ tx[s].op = "reserve" => ReserveHolds(s)
  /\ Takes(s) => TakerHolds(s)
  /\ tx[s].op = "settle" => tx[s].ch \in Charges
  /\ (tx[s].op = "settle" /\ Takes(s)) => SettleHolds(s)
  /\ (tx[s].op \in {"release", "renew"} /\ Takes(s)) => OtherHolds(s)

LockInv == \A s \in Sessions : Holding(s)

(* A step is its own session's: the others keep their transactions and     *)
(* their locks.                                                            *)
LEMMA Others ==
  ASSUME Typed, NEW s \in Sessions, Step(s), NEW t \in Sessions \ {s}
  PROVE  tx'[t] = tx[t] /\ \A r \in Resources : Has(t, r)' <=> Has(t, r)
<1> USE DEF Typed, Transactions, Locks, Has
<1>1. ASSUME End(s) PROVE tx'[t] = tx[t] /\ \A r \in Resources : Has(t, r)' <=> Has(t, r)
  BY <1>1 DEF End
<1>2. CASE Lock(s)
  <2>1. PICK r \in Needs(s) : Free(s, r) /\ owner' = [owner EXCEPT ![r] = {s}]
    BY <1>2 DEF Lock
  <2> QED
    BY <1>2, <2>1 DEF Lock, Free
<1>3. CASE LookAndLock(s)
  BY <1>3 DEF LookAndLock, Free
<1> QED
  BY <1>1, <1>2, <1>3
  DEF Step, BeginReserve, BeginSettle, BeginRelease, BeginRenew, Begin, ReadClock, Rollback,
      ReserveKnown, ReserveNew, Decide, Refuse, Grant, LookInVain, Settle, Release, Renew

(* What the tables say of a reservation. *)
Stands(i) ==
  /\ state'[i] = state[i] /\ request'[i] = request[i] /\ expires'[i] = expires[i]
  /\ paid'[i] = paid[i] /\ completed'[i] = completed[i] /\ ended'[i] = ended[i]
  /\ (i \in revived') <=> (i \in revived)

(* A reservation that was granted is changed by no step, unless it is      *)
(* active and the session has locked its row.                              *)
LEMMA Untouched ==
  ASSUME Typed, NEW s \in Sessions, Holding(s), Step(s),
         NEW i \in Ids, state[i] # "none", state[i] # "active" \/ ~ Has(s, i)
  PROVE  Stands(i)
<1> USE DEF Typed, Tables, Stands
<1>1. CASE UNCHANGED <<tables, history>>
  BY <1>1 DEF tables, history
<1>2. CASE Refuse(s)
  BY <1>2 DEF Refuse, history
<1>3. CASE Grant(s)
  BY <1>3 DEF Grant, history
<1>4. CASE Settle(s) \/ Release(s) \/ Renew(s)
  <2>1. Id(s) # i
    BY <1>4 DEF Settle, Release, Renew, In, Holding, Takes, TakerHolds
  <2> QED
    BY <1>4, <2>1 DEF Settle, Release, Renew, history
<1> QED
  BY <1>1, <1>2, <1>3, <1>4
  DEF Step, BeginReserve, BeginSettle, BeginRelease, BeginRenew, Begin, Lock, ReadClock,
      Rollback, ReserveKnown, ReserveNew, Decide, LookInVain, LookAndLock

LEMMA OthersHold ==
  ASSUME Typed, OneHolder, NEW s \in Sessions, Holding(s), Step(s),
         NEW t \in Sessions \ {s}, Holding(t)
  PROVE  Holding(t)'
<1>1. tx'[t] = tx[t] /\ \A r \in Resources : Has(t, r)' <=> Has(t, r)
  BY Others
<1>2. ASSUME Takes(t) PROVE Id(t) \in Ids /\ Stands(Id(t)) /\ state[Id(t)] = "active"
  <2>1. Id(t) \in Ids /\ Has(t, Id(t)) /\ state[Id(t)] = "active"
    BY <1>2 DEF Takes, Holding, TakerHolds, Typed, Transactions, Id
  <2>2. ~ Has(s, Id(t))
    BY <2>1 DEF OneHolder, Has, Resources
  <2> QED
    BY <2>1, <2>2, Untouched
<1>3. Takes(t)' <=> Takes(t)
  BY <1>1 DEF Takes
<1>4. Id(t)' = Id(t) /\ Wants(t)' = Wants(t)
  BY <1>1 DEF Id, Wants
<1>5. HoldsNothing(t) => HoldsNothing(t)'
  BY <1>1 DEF HoldsNothing
<1>6. ReserveHolds(t) => ReserveHolds(t)'
  <2>1. Wants(t) \subseteq Resources
    BY Inputs DEF Wants, Resources, Typed, Transactions, TxType
  <2> QED
    BY <1>1, <1>4, <2>1 DEF ReserveHolds
<1>7. (Takes(t) /\ TakerHolds(t)) => TakerHolds(t)'
  BY <1>1, <1>2, <1>4 DEF TakerHolds, Stands, Resources
<1>8. (Takes(t) /\ SettleHolds(t)) => SettleHolds(t)'
  <2> SUFFICES ASSUME Takes(t), SettleHolds(t) PROVE SettleHolds(t)'
    OBVIOUS
  <2>1. request'[Id(t)] = request[Id(t)] /\ request[Id(t)].wins \subseteq Resources
    BY <1>2, Inputs DEF Stands, Typed, Tables, Resources
  <2> QED
    BY <1>1, <1>4, <2>1 DEF SettleHolds, Ledger!On, Ledger!Details
<1>9. OtherHolds(t) => OtherHolds(t)'
  BY <1>1, <1>4 DEF OtherHolds
<1> QED
  BY <1>1, <1>3, <1>5, <1>6, <1>7, <1>8, <1>9 DEF Holding

(* A session that begins or ends holds nothing. *)
LEMMA StartsEmpty ==
  ASSUME Typed, NEW s \in Sessions, Holding(s),
         \/ End(s)
         \/ \E i \in Ids, q \in Requests : BeginReserve(s, i, q)
         \/ \E i \in Ids, ch \in Charges : BeginSettle(s, i, ch)
         \/ \E i \in Ids : BeginRelease(s, i) \/ BeginRenew(s, i)
  PROVE  Holding(s)' /\ HoldsNothing(s)'
<1> USE DEF Typed, Transactions, Locks
<1>1. ASSUME NEW t \in TxType, tx' = [tx EXCEPT ![s] = t], HoldsNothing(s)', t.stage = "look",
             t.op = "reserve" => t.q \in Requests /\ t.reach = {},
             t.op = "settle" => t.ch \in Charges
      PROVE  Holding(s)'
  <2>1. tx'[s] = t
    BY <1>1
  <2> QED
    BY <1>1, <2>1 DEF Holding, HoldsNothing, ReserveHolds, Takes, Resources, Wants
<1>2. CASE End(s)
  <2>1. HoldsNothing(s)'
    BY <1>2 DEF End, HoldsNothing, Has
  <2>2. tx' = [tx EXCEPT ![s] = NoTransaction]
    BY <1>2 DEF End
  <2>3. NoTransaction \in TxType /\ NoTransaction.stage = "look" /\ NoTransaction.op = "none"
    BY TxTypes DEF NoTransaction, Doing
  <2> QED
    BY <1>1, <2>1, <2>2, <2>3
<1>3. ASSUME NEW t \in TxType, Begin(s, t), t.stage = "look",
             t.op = "reserve" => t.q \in Requests /\ t.reach = {},
             t.op = "settle" => t.ch \in Charges
      PROVE  Holding(s)' /\ HoldsNothing(s)'
  <2>1. HoldsNothing(s)'
    BY <1>3 DEF Begin, Holding, HoldsNothing, Has
  <2> QED
    BY <1>1, <1>3, <2>1 DEF Begin
<1>4. ASSUME NEW i \in Ids, NEW q \in Requests, BeginReserve(s, i, q)
      PROVE  Holding(s)' /\ HoldsNothing(s)'
  BY <1>3, <1>4, TxTypes DEF BeginReserve, Doing
<1>5. ASSUME NEW i \in Ids, NEW ch \in Charges, BeginSettle(s, i, ch)
      PROVE  Holding(s)' /\ HoldsNothing(s)'
  BY <1>3, <1>5, TxTypes DEF BeginSettle, Doing
<1>6. ASSUME NEW i \in Ids, BeginRelease(s, i) \/ BeginRenew(s, i)
      PROVE  Holding(s)' /\ HoldsNothing(s)'
  BY <1>3, <1>6, TxTypes DEF BeginRelease, BeginRenew, Doing
<1> QED
  BY <1>2, <1>4, <1>5, <1>6

(* Locking, a session takes what it needs and nothing else. *)
LEMMA LockHolds ==
  ASSUME Typed, NEW s \in Sessions, Holding(s), Lock(s)
  PROVE  Holding(s)'
<1>1. PICK r \in Needs(s) : owner' = [owner EXCEPT ![r] = {s}]
  BY DEF Lock
<1>2. /\ tx' = tx /\ UNCHANGED <<state, request>>
  BY DEF Lock, tables
<1>3. /\ tx[s].op \in {"reserve", "settle"} /\ tx[s].stage # "look"
      /\ tx[s].op = "reserve" => tx[s].stage = "locking" /\ r \in Wants(s)
      /\ tx[s].op = "settle" => Ledger!On(Id(s), r)
  <2>1. CASE tx[s].op = "reserve"
    BY <2>1, <1>1 DEF Needs, ReserveNeeds, FirstOf, Unlocked, Wants
  <2>2. CASE tx[s].op = "settle"
    BY <2>2, <1>1 DEF Needs, SettleNeeds, Unlocked, Ledger!On, Ledger!Details
  <2> QED
    BY <1>1, <2>1, <2>2 DEF Needs
<1>4. \A o \in Resources : /\ Has(s, o) => Has(s, o)'
                           /\ Has(s, o)' => Has(s, o) \/ o = r
  BY <1>1 DEF Has, Typed, Locks
<1>5. tx[s].op = "reserve" => ReserveHolds(s)'
  BY <1>2, <1>3, <1>4 DEF Holding, ReserveHolds, Wants
<1>6. tx[s].op = "settle" => Takes(s)
  BY <1>3 DEF Takes
<1>7. Takes(s) => TakerHolds(s)'
  <2>1. Takes(s) => Id(s) \in Resources
    BY DEF Takes, Typed, Transactions, Id, Resources
  <2> QED
    BY <1>2, <1>4, <2>1 DEF Holding, TakerHolds, Id
<1>8. tx[s].op = "settle" => SettleHolds(s)'
  <2>1. tx[s].op = "settle" => request[Id(s)].wins \subseteq Resources
    BY Inputs DEF Typed, Transactions, Tables, Id, Resources
  <2> QED
    BY <1>2, <1>3, <1>4, <1>6, <2>1
    DEF Holding, SettleHolds, Id, Ledger!On, Ledger!Details
<1> QED
  BY <1>2, <1>3, <1>5, <1>7, <1>8 DEF Holding, Takes

LEMMA OwnHolds ==
  ASSUME Typed, NEW s \in Sessions, Holding(s), Step(s)
  PROVE  Holding(s)'
<1> USE DEF Typed, Transactions, Locks
<1>1. ASSUME tx[s].op = "reserve", ReserveHolds(s), tx'[s].op = "reserve", tx'[s].q = tx[s].q,
             tx'[s].stage \in {"locking", "timed"}, tx'[s].reach \subseteq Wants(s),
             tx'[s].stage = "timed" => \A r \in Wants(s) : Has(s, r), owner' = owner
      PROVE  Holding(s)'
  <2>1. Wants(s)' = Wants(s) /\ \A r : Has(s, r)' <=> Has(s, r)
    BY <1>1 DEF Wants, Has
  <2> QED
    BY <1>1, <2>1 DEF Holding, ReserveHolds, Takes
<1>2. CASE ReserveNew(s)
  <2>1. /\ tx'[s] = [tx[s] EXCEPT !.stage = "locking"] /\ owner' = owner
        /\ tx[s].op = "reserve"
    BY <1>2 DEF ReserveNew, In
  <2>2. /\ tx'[s].op = "reserve" /\ tx'[s].q = tx[s].q /\ tx'[s].reach = tx[s].reach
        /\ tx'[s].stage = "locking"
    BY <2>1 DEF TxType
  <2> QED
    BY <1>1, <2>1, <2>2 DEF Holding, ReserveHolds
<1>3. CASE Decide(s)
  <2>1. /\ tx'[s].op = "reserve" /\ tx'[s].q = tx[s].q /\ tx'[s].stage = "timed"
        /\ tx'[s].reach = Reach(tx[s].q, now) /\ owner' = owner /\ tx[s].op = "reserve"
        /\ tx[s].stage = "locking" /\ Needs(s) = {}
    BY <1>3 DEF Decide, In, TxType, DatabaseTime
  <2>2. Reach(tx[s].q, now) \subseteq Wants(s)
    BY DEF Reach, Wants
  <2>3. Unlocked(s, tx[s].q.keys) = {} /\ Unlocked(s, tx[s].q.wins) = {}
    BY <2>1 DEF Needs, ReserveNeeds, FirstOf
  <2>4. \A r \in Wants(s) : Has(s, r)
    <3>1. tx[s].q.keys \in SUBSET Rows /\ tx[s].q.wins \in SUBSET Rows
      BY Inputs DEF TxType, Rows
    <3>2. Wants(s) \subseteq Owned(s)
      BY <2>3, <3>1, AllLocked DEF Wants
    <3> QED
      BY <3>2 DEF Owned, Has
  <2> QED
    BY <1>1, <2>1, <2>2, <2>4 DEF Holding
<1>4. CASE LookAndLock(s)
  <2>1. /\ tx'[s].op = tx[s].op /\ tx'[s].stage = "locking" /\ tx'[s].id = tx[s].id
        /\ tx'[s].ch = tx[s].ch /\ tx[s].op \in {"settle", "release", "renew"}
        /\ tx[s].stage = "look" /\ UNCHANGED <<state, request>>
        /\ owner' = [owner EXCEPT ![Id(s)] = {s}] /\ state[Id(s)] = "active"
    BY <1>4 DEF LookAndLock, TxType, tables, Active
  <2>2. Id(s)' = Id(s) /\ Id(s) \in Resources
    BY <2>1 DEF Id, Resources
  <2>3. Has(s, Id(s))' /\ \A r \in Resources : Has(s, r)' => r = Id(s)
    BY <2>1, <2>2 DEF Has, Holding, HoldsNothing
  <2> QED
    BY <2>1, <2>2, <2>3 DEF Holding, Takes, TakerHolds, SettleHolds, OtherHolds
<1>5. CASE ReadClock(s)
  <2>1. /\ tx'[s].op = tx[s].op /\ tx'[s].stage = "timed" /\ tx'[s].id = tx[s].id
        /\ tx'[s].ch = tx[s].ch /\ tx[s].op \in {"settle", "release", "renew"}
        /\ tx[s].stage = "locking" /\ UNCHANGED <<state, request, owner>>
        /\ Needs(s) = {}
    BY <1>5 DEF ReadClock, TxType, tables
  <2>2. Id(s)' = Id(s) /\ \A r : Has(s, r)' <=> Has(s, r)
    BY <2>1 DEF Id, Has
  <2>3. ASSUME tx[s].op = "settle" PROVE \A w \in request[Id(s)].wins : Has(s, w)
    <3>1. Unlocked(s, request[Id(s)].wins) = {}
      BY <2>1, <2>3 DEF Needs, SettleNeeds
    <3>2. request[Id(s)].wins \in SUBSET Rows
      BY <2>3, Inputs DEF Tables, Id, Rows
    <3>3. request[Id(s)].wins \subseteq Owned(s)
      BY <3>1, <3>2, AllLocked
    <3> QED
      BY <3>3 DEF Owned, Has
  <2> QED
    BY <2>1, <2>2, <2>3
    DEF Holding, Takes, TakerHolds, SettleHolds, OtherHolds, Ledger!On, Ledger!Details
<1> QED
  BY <1>2, <1>3, <1>4, <1>5, StartsEmpty, LockHolds
  DEF Step, Rollback, ReserveKnown, Refuse, Grant, LookInVain, Settle, Release, Renew

Sane == Typed /\ OneHolder /\ Punctual /\ LockInv

LEMMA LocksStart == Init => LockInv
BY TxTypes
DEF Init, LockInv, Holding, HoldsNothing, Takes, Has, NoTransaction, Doing

LEMMA LocksNext ==
  ASSUME Typed, OneHolder, LockInv, [Next]_vars
  PROVE  LockInv'
<1>1. ASSUME NEW s \in Sessions, Step(s) PROVE LockInv'
  <2> SUFFICES ASSUME NEW t \in Sessions PROVE Holding(t)'
    BY DEF LockInv
  <2>1. Holding(s) /\ Holding(t)
    BY DEF LockInv
  <2>2. CASE t = s
    BY <1>1, <2>1, <2>2, OwnHolds
  <2>3. CASE t # s
    BY <1>1, <2>1, <2>3, OthersHold
  <2> QED
    BY <2>2, <2>3
<1>2. CASE Tick \/ UNCHANGED vars
  <2>1. UNCHANGED <<tx, owner, state, request>>
    BY <1>2 DEF Tick, vars, tables
  <2> QED
    BY <2>1 DEF LockInv, Holding, HoldsNothing, ReserveHolds, Takes, TakerHolds, SettleHolds,
                OtherHolds, Has, Wants, Id, Ledger!On, Ledger!Details
<1> QED
  BY <1>1, <1>2 DEF Next

LEMMA SaneAlways == Spec => []Sane
<1>1. Init => Sane
  BY TypedStarts, LocksStart DEF Sane
<1>2. Sane /\ [Next]_vars => Sane'
  BY TypedNext, LocksNext DEF Sane
<1> QED
  BY <1>1, <1>2, PTL DEF Spec

(* An operation goes on after its first look only with the lock of its     *)
(* reservation's row, so a second transaction for the same id waits, and   *)
(* finds the reservation ended (_pollard_settle_once and its like).        *)
THEOREM TombstonesStay == Spec => TombstonesPermanent
<1> DEFINE Stay == \A i \in Ids : state[i] \in {"settled", "released"} =>
                     /\ state'[i] = state[i]
                     /\ paid'[i] = paid[i]
                     /\ completed'[i] = completed[i]
<1>1. Sane /\ [Next]_vars => [Stay]_vars
  <2> SUFFICES ASSUME Sane, [Next]_vars, NEW i \in Ids, state[i] \in {"settled", "released"}
               PROVE  Stands(i)
    BY DEF Stands
  <2>1. ASSUME NEW s \in Sessions, Step(s) PROVE Stands(i)
    BY <2>1, Untouched DEF Sane, LockInv
  <2>2. CASE Tick \/ UNCHANGED vars
    BY <2>2 DEF Tick, vars, tables, history, Stands
  <2> QED
    BY <2>1, <2>2 DEF Next
<1> QED
  BY <1>1, SaneAlways, PTL DEF Spec, TombstonesPermanent

-----------------------------------------------------------------------------
(* The stored ledger.                                                      *)

(* A row that is not stored counts for nothing, and the rows of a          *)
(* reservation that was granted are stored.                                *)
Stored ==
  /\ \A k \in Keys \ present : budget[k] = 0
  /\ \A i \in Ids : state[i] # "none" => request[i].keys \subseteq present
(* Only settlements write events, for their own windows. *)
EventsSettled ==
  \A i \in Ids, w \in Windows :
    <<i, w>> \in events => state[i] = "settled" /\ w \in request[i].wins

(* What a reservation has paid into a row. *)
Bills(r) == Ledger!Bills(r)
PaidInto(k) == Total(Payers(k), Bills(k))
SpentIn(w) == Total(Ledger!Recent(w), Bills(w))

LEMMA SameSums ==
  /\ \A k \in Keys : Ledger!Paid(k) = PaidInto(k)
  /\ \A w \in Windows : Ledger!WindowSettled(w) = SpentIn(w)
BY DEF Ledger!Paid, Ledger!WindowSettled, PaidInto, SpentIn, Payers, Bills,
       Ledger!Total, Ledger!Units, Ledger!Cardinality, Total, Units, Cardinality

(* The settled reservations are those of before, and stand as they were. *)
SameSettled ==
  \A i \in Ids : /\ (state'[i] = "settled") <=> (state[i] = "settled")
                 /\ state[i] = "settled" => Stands(i)

(* A step that settles nothing.  What it does to the ledger is to raise    *)
(* rows to a baseline and to delete events.                                *)
Quiet ==
  /\ SameSettled
  /\ events' \subseteq events
  /\ now <= now'
  /\ \A k \in Keys : budget'[k] >= budget[k]
  /\ \A k \in Keys : (\A q \in Requests : q.base[k] = 0) => budget'[k] = budget[k]
  /\ \A k \in Keys \ present' : budget'[k] = budget[k] /\ k \notin present

LEMMA Raises ==
  ASSUME Sane, Stored, NEW s \in Sessions, tx[s].op = "reserve", SyncRows(s)
  PROVE  /\ \A k \in Keys : budget'[k] >= budget[k]
         /\ \A k \in Keys : (\A q \in Requests : q.base[k] = 0) => budget'[k] = budget[k]
         /\ \A k \in Keys \ present' : budget'[k] = budget[k] /\ k \notin present
<1>1. /\ tx[s].q \in Requests /\ tx[s].reach \subseteq Wants(s)
      /\ tx[s].q.base \in [Keys -> Nat] /\ tx[s].q.wins \cap Keys = {}
  BY Inputs, RowsAssumption DEF Sane, LockInv, Holding, ReserveHolds
<1>2. ASSUME NEW k \in Keys
      PROVE  /\ budget[k] \in Nat /\ tx[s].q.base[k] \in Nat
             /\ Synced(tx[s].q, k) = IF budget[k] > tx[s].q.base[k] THEN budget[k]
                                                                 ELSE tx[s].q.base[k]
  BY <1>1 DEF Synced, Ledger!Synced, Ledger!Larger, Stored, Sane, Typed, Tables
<1>3. ASSUME NEW k \in Keys PROVE budget'[k] >= budget[k]
  BY <1>2 DEF SyncRows
<1>4. ASSUME NEW k \in Keys, \A q \in Requests : q.base[k] = 0
      PROVE  budget'[k] = budget[k]
  BY <1>1, <1>2, <1>4 DEF SyncRows
<1>5. ASSUME NEW k \in Keys \ present' PROVE budget'[k] = budget[k] /\ k \notin present
  <2>1. k \notin tx[s].q.keys /\ k \notin present
    BY <1>5 DEF SyncRows
  <2>2. k \notin tx[s].reach
    BY <1>1, <2>1 DEF Wants
  <2> QED
    BY <2>1, <2>2 DEF SyncRows
<1> QED
  BY <1>3, <1>4, <1>5

LEMMA QuietSteps ==
  ASSUME Sane, Stored, [Next]_vars, ~ \E s \in Sessions : Settle(s)
  PROVE  Quiet
<1> USE DEF Sane
<1>1. now \in Nat
  BY DEF Typed, Tables
<1>2. ASSUME UNCHANGED <<state, request, expires, paid, completed, history>> PROVE SameSettled
  BY <1>2 DEF SameSettled, Stands, history
<1>3. ASSUME UNCHANGED tables, UNCHANGED history, now <= now' PROVE Quiet
  <2>1. SameSettled
    BY <1>2, <1>3 DEF tables
  <2>2. \A k \in Keys : budget[k] \in Nat
    BY DEF Typed, Tables
  <2> QED
    BY <1>3, <2>1, <2>2, Raises DEF tables, Quiet, Stored
<1>4. ASSUME NEW s \in Sessions, Refuse(s) PROVE Quiet
  <2>1. tx[s].op = "reserve" /\ SyncRows(s) /\ events' \subseteq events /\ now' = now
    BY <1>4 DEF Refuse, Decided, In, Purged
  <2> QED
    BY <1>1, <1>2, <1>4, <2>1, Raises DEF Refuse, Quiet
<1>5. ASSUME NEW s \in Sessions, Grant(s) PROVE Quiet
  <2>1. tx[s].op = "reserve" /\ SyncRows(s) /\ events' \subseteq events /\ now' = now
    BY <1>5 DEF Grant, Decided, In, Purged
  <2>2. SameSettled
    BY <1>5 DEF Grant, SameSettled, Stands, history, Typed, Tables
  <2> QED
    BY <1>1, <2>1, <2>2, Raises DEF Quiet
<1>6. ASSUME NEW s \in Sessions, Release(s) \/ Renew(s) PROVE Quiet
  <2>1. /\ Id(s) \in Ids /\ state[Id(s)] = "active" /\ UNCHANGED <<now, budget, present, events>>
        /\ state' = state \/ state' = [state EXCEPT ![Id(s)] = "released"]
    BY <1>6 DEF Release, Renew, LockInv, Holding, Takes, TakerHolds, In, Typed, Transactions, Id
  <2>2. ASSUME NEW i \in Ids, i # Id(s) PROVE Stands(i)
    BY <1>6, <2>2 DEF Release, Renew, Stands, history, Typed, Tables
  <2>3. SameSettled
    BY <2>1, <2>2 DEF SameSettled, Stands, Typed, Tables
  <2>4. \A k \in Keys : budget[k] \in Nat
    BY DEF Typed, Tables
  <2> QED
    BY <1>1, <2>1, <2>3, <2>4 DEF Quiet
<1>7. CASE Tick \/ UNCHANGED vars
  BY <1>1, <1>3, <1>7 DEF Tick, vars
<1>8. ASSUME NEW s \in Sessions, Step(s) PROVE Quiet
  BY <1>1, <1>3, <1>4, <1>5, <1>6, <1>8
  DEF Step, BeginReserve, BeginSettle, BeginRelease, BeginRenew, Begin, Lock, ReadClock,
      Rollback, ReserveKnown, ReserveNew, Decide, LookInVain, LookAndLock
<1> QED
  BY <1>7, <1>8 DEF Next

(* What a settlement does. *)
LEMMA SettleStep ==
  ASSUME Sane, NEW s \in Sessions, Settle(s), NEW i, i = Id(s)
  PROVE  /\ i \in Ids /\ Has(s, i) /\ tx[s].ch \in [Meters -> Nat]
         /\ state[i] = "active" /\ state'[i] = "settled" /\ paid'[i] = tx[s].ch
         /\ completed'[i] = tx[s].time /\ ended'[i] = now
         /\ \A w \in request[i].wins : Has(s, w)
         /\ UNCHANGED <<now, request, expires, present, revived>>
         /\ \A j \in Ids \ {i} : Stands(j)
         /\ \A k \in Keys : budget'[k] = IF k \in request[i].keys
                                        THEN budget[k] + tx[s].ch[MeterOf[k]] ELSE budget[k]
         /\ \A j, w : <<j, w>> \in events' <=>
              \/ <<j, w>> \in events
              \/ j = i /\ w \in request[i].wins /\ tx[s].ch[MeterOf[w]] # 0
<1>1. /\ i \in Ids /\ Has(s, i) /\ state[i] = "active" /\ tx[s].ch \in [Meters -> Nat]
      /\ \A w \in request[i].wins : Has(s, w)
  BY DEF Sane, LockInv, Holding, Takes, TakerHolds, SettleHolds, Settle, In, Typed,
         Transactions, TxType, Id
<1>2. \A j \in Ids \ {i} : Stands(j)
  BY DEF Settle, Stands, Sane, Typed, Tables
<1> QED
  BY <1>1, <1>2
  DEF Settle, Sane, Typed, Tables, Ledger!SettledBudget, Ledger!SettledEvents

LEMMA StoredNext ==
  ASSUME Sane, Stored, EventsSettled, [Next]_vars
  PROVE  Stored' /\ EventsSettled'
<1>1. CASE \E s \in Sessions : Settle(s)
  <2>1. PICK s \in Sessions : Settle(s)
    BY <1>1
  <2> DEFINE i == Id(s)
  <2>2. /\ i \in Ids /\ state[i] = "active" /\ state'[i] = "settled"
        /\ UNCHANGED <<request, present>> /\ \A j \in Ids \ {i} : Stands(j)
        /\ \A k \in Keys : budget'[k] = IF k \in request[i].keys
                                       THEN budget[k] + tx[s].ch[MeterOf[k]] ELSE budget[k]
        /\ \A j, w : <<j, w>> \in events' <=>
              \/ <<j, w>> \in events
              \/ j = i /\ w \in request[i].wins /\ tx[s].ch[MeterOf[w]] # 0
    BY <2>1, SettleStep
  <2> HIDE DEF i
  <2> QED
    BY <2>2 DEF Stored, EventsSettled, Stands
<1>2. CASE ~ \E s \in Sessions : Settle(s)
  <2>1. Quiet
    BY <1>2, QuietSteps
  <2>2. EventsSettled'
    BY <2>1 DEF Quiet, SameSettled, Stands, EventsSettled
  <2>3. \A k \in Keys \ present' : budget'[k] = 0
    BY <2>1 DEF Quiet, Stored
  <2>4. ASSUME NEW j \in Ids, state'[j] # "none" PROVE request'[j].keys \subseteq present'
    <3>1. ASSUME NEW s \in Sessions, Step(s) PROVE request'[j].keys \subseteq present'
      <4>1. CASE Grant(s)
        BY <2>4, <4>1 DEF Grant, SyncRows, Stored, Sane, Typed, Tables
      <4>2. CASE Refuse(s)
        BY <2>4, <4>2 DEF Refuse, SyncRows, Stored
      <4>3. CASE Release(s) \/ Renew(s)
        <5>1. state[Id(s)] = "active"
          BY <4>3 DEF Release, Renew, Sane, LockInv, Holding, Takes, TakerHolds, In
        <5> QED
          BY <2>4, <4>3, <5>1 DEF Release, Renew, Stored, Sane, Typed, Tables
      <4>4. CASE UNCHANGED tables
        BY <2>4, <4>4 DEF tables, Stored
      <4> QED
        BY <1>2, <3>1, <4>1, <4>2, <4>3, <4>4
        DEF Step, BeginReserve, BeginSettle, BeginRelease, BeginRenew, Begin, Lock, ReadClock,
            Rollback, ReserveKnown, ReserveNew, Decide, LookInVain, LookAndLock
    <3>2. CASE Tick \/ UNCHANGED vars
      BY <2>4, <3>2 DEF Tick, vars, tables, Stored
    <3> QED
      BY <3>1, <3>2 DEF Next
  <2> QED
    BY <2>2, <2>3, <2>4 DEF Stored
<1> QED
  BY <1>1, <1>2

(* Amounts are natural numbers, and so are their sums. *)
LEMMA Amounts ==
  ASSUME Typed, NEW r \in Rows, NEW i \in Ids
  PROVE  /\ Bills(r)[i] = paid[i][MeterOf[r]] /\ Bills(r)[i] \in Nat
         /\ Ledger!Estimates(r)[i] = request[i].est[MeterOf[r]]
         /\ Ledger!Estimates(r)[i] \in Nat
<1>1. request[i].est \in [Meters -> Nat] /\ paid[i] \in [Meters -> Nat] /\ MeterOf[r] \in Meters
  BY Inputs DEF Typed, Tables
<1> QED
  BY <1>1 DEF Bills, Ledger!Bills, Ledger!Estimates

LEMMA SetsOfIds ==
  ASSUME NEW r
  PROVE  /\ Payers(r) \subseteq Ids /\ IsFiniteSet(Payers(r))
         /\ Ledger!Recent(r) \subseteq Ids /\ IsFiniteSet(Ledger!Recent(r))
<1>1. Payers(r) \subseteq Ids /\ Ledger!Recent(r) \subseteq Ids
  BY DEF Payers, Ledger!Payers, Ledger!Recent
<1> QED
  BY <1>1, SessionsAssumption, FS_Subset

LEMMA PaidSum ==
  ASSUME Typed, NEW k \in Keys
  PROVE  PaidInto(k) \in Nat
<1>1. \A i \in Payers(k) : Bills(k)[i] \in Nat
  BY Amounts, SetsOfIds DEF Rows
<1> QED
  BY <1>1, SetsOfIds, TotalType DEF PaidInto

(* A step that settles nothing changes nothing in what was paid. *)
LEMMA PaidKeeps ==
  ASSUME SameSettled, NEW k \in Keys
  PROVE  PaidInto(k)' = PaidInto(k)
<1>1. Payers(k)' = Payers(k)
  BY DEF SameSettled, Stands, Payers, Ledger!Payers
<1>2. \A i \in Payers(k) : Bills(k)[i] = Bills(k)'[i]
  BY DEF SameSettled, Stands, Payers, Ledger!Payers, Bills, Ledger!Bills
<1>3. Total(Payers(k), Bills(k)) = Total(Payers(k), Bills(k)')
  BY <1>2, TotalAgree
<1> QED
  BY <1>1, <1>3 DEF PaidInto

(* A settlement pays its charge into each of its budget rows. *)
LEMMA SettlePays ==
  ASSUME Sane, Typed', NEW s \in Sessions, Settle(s), NEW k \in Keys
  PROVE  PaidInto(k)' = PaidInto(k) + (IF k \in request[Id(s)].keys
                                       THEN tx[s].ch[MeterOf[k]] ELSE 0)
<1> DEFINE i == Id(s)
           S == Payers(k)
           f == Bills(k)
           g == Bills(k)'
<1>1. /\ i \in Ids /\ state[i] = "active" /\ state'[i] = "settled" /\ paid'[i] = tx[s].ch
      /\ tx[s].ch \in [Meters -> Nat] /\ request' = request
      /\ \A j \in Ids \ {i} : Stands(j)
  BY SettleStep
<1> HIDE DEF i
<1>2. i \notin S
  BY <1>1 DEF Payers, Ledger!Payers
<1>3. Payers(k)' = IF k \in request[i].keys THEN S \cup {i} ELSE S
  BY <1>1 DEF Payers, Ledger!Payers, Stands
<1>4. \A j \in S : g[j] = f[j]
  BY <1>1, <1>2, SetsOfIds DEF Bills, Ledger!Bills, Stands
<1>5. \A j \in S : f[j] \in Nat
  BY Amounts, SetsOfIds DEF Rows, Sane
<1>6. g[i] = tx[s].ch[MeterOf[k]] /\ g[i] \in Nat
  BY <1>1, Inputs DEF Bills, Ledger!Bills, Rows
<1>7. IsFiniteSet(S) /\ Total(S, f) \in Nat
  BY SetsOfIds, PaidSum DEF PaidInto, Sane
<1>8. Total(S \cup {i}, g) = Total(S, f) + g[i]
  <2> HIDE DEF S, f, g
  <2>1. \A j \in S : g[j] \in Nat
    BY <1>4, <1>5
  <2>2. g[i] \in Nat /\ IsFiniteSet(S)
    BY <1>6, <1>7
  <2>3. \A j \in S : g[j] = f[j]
    BY <1>4
  <2> QED
    BY <1>2, <2>1, <2>2, <2>3, TotalGains
<1>9. Total(S, g) = Total(S, f)
  <2> HIDE DEF S, f, g
  <2> QED
    BY <1>4, TotalAgree
<1>10. PaidInto(k)' = Total(Payers(k)', g) /\ PaidInto(k) = Total(S, f)
  BY DEF PaidInto
<1> HIDE DEF S, f, g
<1> QED
  BY <1>3, <1>6, <1>7, <1>8, <1>9, <1>10 DEF i

LedgerInv ==
  /\ Stored /\ EventsSettled
  /\ \A k \in Keys : /\ PaidInto(k) <= budget[k]
                     /\ (\A q \in Requests : q.base[k] = 0) => budget[k] = PaidInto(k)

LEMMA LedgerStarts == Init => LedgerInv
<1> SUFFICES ASSUME Init PROVE LedgerInv
  OBVIOUS
<1>1. ASSUME NEW k \in Keys PROVE PaidInto(k) = 0 /\ budget[k] = 0
  <2>1. Payers(k) = {}
    BY DEF Init, Ledger!Init, Payers, Ledger!Payers
  <2> QED
    BY <2>1, TotalEmpty DEF PaidInto, Init, Ledger!Init
<1>2. Stored /\ EventsSettled
  BY DEF Init, Ledger!Init, Stored, EventsSettled
<1> QED
  BY <1>1, <1>2 DEF LedgerInv

LEMMA LedgerNext ==
  ASSUME Sane, Sane', LedgerInv, [Next]_vars
  PROVE  LedgerInv'
<1>1. Stored' /\ EventsSettled'
  BY StoredNext DEF LedgerInv
<1>2. ASSUME NEW k \in Keys
      PROVE  /\ PaidInto(k)' <= budget'[k]
             /\ (\A q \in Requests : q.base[k] = 0) => budget'[k] = PaidInto(k)'
  <2>1. /\ budget[k] \in Nat /\ budget'[k] \in Nat /\ PaidInto(k) \in Nat
        /\ PaidInto(k) <= budget[k]
        /\ (\A q \in Requests : q.base[k] = 0) => budget[k] = PaidInto(k)
    BY PaidSum DEF Sane, Typed, Tables, LedgerInv
  <2>2. CASE \E s \in Sessions : Settle(s)
    <3>1. PICK s \in Sessions : Settle(s)
      BY <2>2
    <3>2. PaidInto(k)' = PaidInto(k) + (IF k \in request[Id(s)].keys
                                        THEN tx[s].ch[MeterOf[k]] ELSE 0)
      BY <3>1, SettlePays DEF Sane
    <3>3. /\ tx[s].ch[MeterOf[k]] \in Nat
          /\ budget'[k] = IF k \in request[Id(s)].keys
                          THEN budget[k] + tx[s].ch[MeterOf[k]] ELSE budget[k]
      BY <3>1, SettleStep, Inputs DEF Rows
    <3> QED
      BY <2>1, <3>2, <3>3
  <2>3. CASE ~ \E s \in Sessions : Settle(s)
    <3>1. Quiet
      BY <2>3, QuietSteps DEF LedgerInv
    <3>2. PaidInto(k)' = PaidInto(k)
      BY <3>1, PaidKeeps DEF Quiet
    <3> QED
      BY <2>1, <3>1, <3>2 DEF Quiet
  <2> QED
    BY <2>2, <2>3
<1> QED
  BY <1>1, <1>2 DEF LedgerInv

LEMMA LedgerAlways == Spec => []LedgerInv
<1>1. Sane /\ Sane' /\ LedgerInv /\ [Next]_vars => LedgerInv'
  BY LedgerNext
<1> QED
  BY <1>1, LedgerStarts, SaneAlways, PTL DEF Spec

(* Whatever waits for whose lock, no settled charge is lost from a row and *)
(* none is overwritten by a baseline (_pollard_settle_once).               *)
THEOREM NothingLost == Spec => []LedgerCoversCharges
<1>1. LedgerInv => LedgerCoversCharges
  BY SameSums DEF LedgerInv, LedgerCoversCharges, Ledger!LedgerCoversCharges
<1> QED
  BY <1>1, LedgerAlways, PTL

(* And where no baseline is brought, none is counted twice. *)
THEOREM EachChargeOnce == Spec => []ChargedExactlyOnce
<1>1. LedgerInv => ChargedExactlyOnce
  BY SameSums DEF LedgerInv, ChargedExactlyOnce, Ledger!ChargedExactlyOnce
<1> QED
  BY <1>1, LedgerAlways, PTL

-----------------------------------------------------------------------------
(* The limits.  Of a row's limit, the part of each settlement that its own *)
(* reservation covered is taken, and the estimate of every reservation     *)
(* that is live or, in a window, being settled on a clock read in time.    *)

BeingSettled(i) ==
  \E s \in Sessions : In(s, "settle", "timed") /\ Id(s) = i /\ tx[s].time < expires[i]
Claimed(i, r) ==
  /\ state[i] = "active" /\ i \notin revived /\ Ledger!On(i, r)
  /\ expires[i] > now \/ (r \in Windows /\ BeingSettled(i))
Claims(r) == {i \in Ids : Claimed(i, r)}
ClaimedOf(r) == Total(Claims(r), Ledger!Estimates(r))

SettledIn(r) == IF r \in Keys THEN Payers(r) ELSE Ledger!Recent(r)
Covered(r) == [i \in Ids |-> paid[i][MeterOf[r]] - Beyond(r)[i]]
CoveredOf(r) == Total(SettledIn(r), Covered(r))

Load(r) == CoveredOf(r) + ClaimedOf(r)

WithinLimit == \A r \in Rows : Load(r) <= Limit[r]
(* What a reserve decided on stays true until it commits, because it holds *)
(* its rows.                                                               *)
PendingFits ==
  \A s \in Sessions : Decided(s, "grant") =>
    \A r \in Wants(s) : Load(r) + tx[s].q.est[MeterOf[r]] <= Limit[r]

(* A settlement is the sum of what was covered and what went beyond. *)
LEMMA Splits ==
  ASSUME Typed, NEW r \in Rows, NEW i \in Ids
  PROVE  /\ Covered(r)[i] \in Nat /\ Beyond(r)[i] \in Nat
         /\ Bills(r)[i] = Covered(r)[i] + Beyond(r)[i]
         /\ Overtook(i, r) => Covered(r)[i] = 0
         /\ ~ Overtook(i, r) /\ completed[i] < expires[i] =>
              Covered(r)[i] <= Ledger!Estimates(r)[i]
<1> DEFINE b == paid[i][MeterOf[r]]
           e == request[i].est[MeterOf[r]]
<1>1. b \in Nat /\ e \in Nat /\ Bills(r)[i] = b /\ Ledger!Estimates(r)[i] = e
  BY Amounts
<1>2. expires[i] \in Nat /\ completed[i] \in Nat
  BY DEF Typed, Tables
<1>3. Ledger!Excess(i, r) = IF expires[i] <= completed[i] THEN b
                            ELSE IF 0 > b - e THEN 0 ELSE b - e
  BY DEF Ledger!Excess, Ledger!Late, Ledger!Larger
<1>4. Beyond(r)[i] = IF Overtook(i, r) THEN b ELSE Ledger!Excess(i, r)
  BY DEF Beyond
<1>5. Covered(r)[i] = b - Beyond(r)[i]
  BY DEF Covered
<1> HIDE DEF b, e
<1> QED
  BY <1>1, <1>2, <1>3, <1>4, <1>5

LEMMA LoadSets ==
  ASSUME Typed, NEW r \in Rows
  PROVE  /\ SettledIn(r) \subseteq Ids /\ IsFiniteSet(SettledIn(r))
         /\ Claims(r) \subseteq Ids /\ IsFiniteSet(Claims(r))
         /\ CoveredOf(r) \in Nat /\ ClaimedOf(r) \in Nat /\ Load(r) \in Nat
<1>1. SettledIn(r) \subseteq Ids /\ IsFiniteSet(SettledIn(r))
  BY SetsOfIds DEF SettledIn
<1>2. Claims(r) \subseteq Ids
  BY DEF Claims
<1>3. IsFiniteSet(Claims(r))
  BY <1>2, SessionsAssumption, FS_Subset
<1>4. \A i \in SettledIn(r) : Covered(r)[i] \in Nat
  BY <1>1, Splits
<1>5. \A i \in Claims(r) : Ledger!Estimates(r)[i] \in Nat
  BY <1>2, Amounts
<1>6. CoveredOf(r) \in Nat
  BY <1>1, <1>4, TotalType DEF CoveredOf
<1>7. ClaimedOf(r) \in Nat
  BY <1>3, <1>5, TotalType DEF ClaimedOf
<1> QED
  BY <1>1, <1>2, <1>3, <1>6, <1>7 DEF Load

LoadsTyped ==
  \A r \in Rows : CoveredOf(r) \in Nat /\ ClaimedOf(r) \in Nat /\ Load(r) \in Nat
LEMMA LoadsNow == Typed => LoadsTyped
BY LoadSets DEF LoadsTyped
LEMMA LoadsLater == Typed' => LoadsTyped'
BY LoadsNow, PTL

CoversTyped ==
  \A i \in Ids, r \in Rows :
    /\ Covered(r)[i] \in Nat
    /\ Overtook(i, r) => Covered(r)[i] = 0
    /\ ~ Overtook(i, r) /\ completed[i] < expires[i] =>
         Covered(r)[i] <= Ledger!Estimates(r)[i]
LEMMA CoversNow == Typed => CoversTyped
BY Splits DEF CoversTyped
LEMMA CoversLater == Typed' => CoversTyped'
BY CoversNow, PTL

(* A settlement that stands counts for the same. *)
LEMMA SameCover ==
  ASSUME NEW i \in Ids, NEW r, Stands(i)
  PROVE  Covered(r)'[i] = Covered(r)[i] /\ Beyond(r)'[i] = Beyond(r)[i]
BY DEF Stands, Covered, Beyond, Overtook, Ledger!Excess, Ledger!Late

(* If no reservation is newly settled, what the settled ones are covered   *)
(* for does not grow: events only age or are deleted.                      *)
LEMMA CoveredKeeps ==
  ASSUME Typed, Typed', EventsSettled, SameSettled, events' \subseteq events, now <= now',
         NEW r \in Rows
  PROVE  CoveredOf(r)' <= CoveredOf(r)
<1>1. \A i \in SettledIn(r)' : i \in SettledIn(r) /\ Stands(i)
  <2> SUFFICES ASSUME NEW i \in SettledIn(r)' PROVE i \in SettledIn(r) /\ Stands(i)
    OBVIOUS
  <2>1. CASE r \in Keys
    BY <2>1 DEF SettledIn, Payers, Ledger!Payers, SameSettled, Stands
  <2>2. CASE r \notin Keys
    <3>1. i \in Ids /\ <<i, r>> \in events /\ completed'[i] > now' - Span[r] /\ r \in Windows
      BY <2>2 DEF SettledIn, Ledger!Recent, Ledger!InWindow, Rows
    <3>2. state[i] = "settled" /\ Stands(i)
      BY <3>1 DEF EventsSettled, SameSettled
    <3>3. completed[i] \in Nat /\ now \in Nat /\ now' \in Nat /\ Span[r] \in Nat
      BY <3>1, Inputs DEF Typed, Tables
    <3>4. completed[i] > now - Span[r]
      BY <3>1, <3>2, <3>3 DEF Stands
    <3> QED
      BY <2>2, <3>1, <3>2, <3>4 DEF SettledIn, Ledger!Recent, Ledger!InWindow
  <2> QED
    BY <2>1, <2>2
<1>2. IsFiniteSet(SettledIn(r)) /\ \A i \in SettledIn(r) : Covered(r)[i] \in Nat
  BY LoadSets, Splits
<1>3. \A i \in SettledIn(r)' : Covered(r)'[i] = Covered(r)[i]
  BY <1>1, SameCover, LoadSets
<1> DEFINE S == SettledIn(r)
           T == SettledIn(r)'
           f == Covered(r)
           g == Covered(r)'
<1>4. T \subseteq S /\ IsFiniteSet(S)
  BY <1>1, <1>2
<1>5. \A i \in S : f[i] \in Nat
  BY <1>2
<1>6. \A i \in T : g[i] \in Nat /\ g[i] <= f[i]
  BY <1>3, <1>4, <1>5
<1>7. CoveredOf(r)' = Total(T, g) /\ CoveredOf(r) = Total(S, f)
  BY DEF CoveredOf
<1> HIDE DEF S, T, f, g
<1> QED
  BY <1>4, <1>5, <1>6, <1>7, TotalMonotone

(* If no reservation claims anew, no more is claimed. *)
LEMMA ClaimsKeep ==
  ASSUME Typed, NEW r \in Rows,
         \A i \in Ids : Claimed(i, r)' => Claimed(i, r) /\ request'[i] = request[i]
  PROVE  ClaimedOf(r)' <= ClaimedOf(r)
<1> DEFINE S == Claims(r)
           T == Claims(r)'
           f == Ledger!Estimates(r)
           g == Ledger!Estimates(r)'
<1>1. T \subseteq S /\ IsFiniteSet(S)
  BY LoadSets DEF Claims
<1>2. \A i \in S : f[i] \in Nat
  BY Amounts, LoadSets
<1>3. \A i \in T : g[i] = f[i]
  BY DEF Claims, Ledger!Estimates
<1>4. \A i \in T : g[i] \in Nat /\ g[i] <= f[i]
  BY <1>1, <1>2, <1>3
<1>5. ClaimedOf(r)' = Total(T, g) /\ ClaimedOf(r) = Total(S, f)
  BY DEF ClaimedOf
<1> HIDE DEF S, T, f, g
<1> QED
  BY <1>1, <1>2, <1>4, <1>5, TotalMonotone

-----------------------------------------------------------------------------
(* What each kind of step takes of a limit.                                *)

(* A clock reading taken in time was, or is taken now. *)
LEMMA ReadInTime ==
  ASSUME Sane, NEW s \in Sessions, Step(s), NEW i, BeingSettled(i)'
  PROVE  \/ \E t \in Sessions : In(t, "settle", "timed") /\ Id(t) = i /\ tx[t].time < expires'[i]
         \/ now' = now /\ now < expires'[i]
<1>1. PICK t \in Sessions : /\ tx'[t].op = "settle" /\ tx'[t].stage = "timed"
                            /\ tx'[t].id = i /\ tx'[t].time < expires'[i]
  BY DEF BeingSettled, In, Id
<1>2. CASE tx'[t] = tx[t]
  BY <1>1, <1>2 DEF In, Id
<1>3. CASE tx'[t] # tx[t]
  <2> USE DEF Sane, Typed, Transactions
  <2>1. t = s
    BY <1>3, Others
  <2>2. CASE ReadClock(s)
    BY <1>1, <2>1, <2>2 DEF ReadClock, DatabaseTime, TxType
  <2>3. CASE End(s)
    BY <1>1, <2>1, <2>3 DEF End, NoTransaction, Doing
  <2>4. ASSUME NEW n \in TxType, Begin(s, n), n.stage = "look" PROVE FALSE
    BY <1>1, <2>1, <2>4 DEF Begin
  <2>5. ASSUME NEW j \in Ids, NEW q \in Requests, BeginReserve(s, j, q) PROVE FALSE
    BY <2>4, <2>5, TxTypes DEF BeginReserve, Doing
  <2>6. ASSUME NEW j \in Ids, NEW ch \in Charges, BeginSettle(s, j, ch) PROVE FALSE
    BY <2>4, <2>6, TxTypes DEF BeginSettle, Doing
  <2>7. ASSUME NEW j \in Ids, BeginRelease(s, j) \/ BeginRenew(s, j) PROVE FALSE
    BY <2>4, <2>7, TxTypes DEF BeginRelease, BeginRenew, Doing
  <2>8. CASE LookAndLock(s) \/ ReserveNew(s)
    BY <1>1, <2>1, <2>8 DEF LookAndLock, ReserveNew, TxType
  <2>9. CASE Decide(s)
    BY <1>1, <2>1, <2>9 DEF Decide, In, TxType
  <2>10. CASE Lock(s)
    BY <1>3, <2>10 DEF Lock
  <2> QED
    BY <2>2, <2>3, <2>5, <2>6, <2>7, <2>8, <2>9, <2>10
    DEF Step, Rollback, ReserveKnown, Refuse, Grant, LookInVain, Settle, Release, Renew
<1> QED
  BY <1>2, <1>3

(* Only a grant and a settlement change whose claims there are, but for    *)
(* those that end: a renewal too late for its lease gives up the claim.    *)
LEMMA QuietClaims ==
  ASSUME Sane, [Next]_vars, ~ \E s \in Sessions : Settle(s) \/ Grant(s),
         NEW r \in Rows, NEW i \in Ids, Claimed(i, r)'
  PROVE  Claimed(i, r) /\ request'[i] = request[i]
<1> USE DEF Sane, Typed, Tables
<1>1. CASE Tick \/ UNCHANGED vars
  <2>1. /\ UNCHANGED <<state, request, expires, revived, tx>> /\ now <= now'
        /\ now' \in Nat
    BY <1>1 DEF Tick, vars, tables, history
  <2>2. BeingSettled(i)' => BeingSettled(i)
    BY <2>1 DEF BeingSettled, In, Id
  <2> QED
    BY <2>1, <2>2 DEF Claimed, Ledger!On, Ledger!Details
<1>2. ASSUME NEW s \in Sessions, Step(s) PROVE Claimed(i, r) /\ request'[i] = request[i]
  <2>1. /\ state[i] = "active" /\ request'[i] = request[i] /\ now' = now
        /\ revived \subseteq revived'
        /\ \/ expires'[i] = expires[i]
           \/ expires[i] > now \/ i \in revived'
    <3>1. CASE UNCHANGED <<now, tables, history>>
      BY <3>1 DEF tables, history, Claimed
    <3>2. CASE Refuse(s)
      BY <3>2 DEF Refuse, history, Claimed
    <3>3. CASE Release(s)
      BY <3>3 DEF Release, history, Claimed
    <3>4. CASE Renew(s)
      BY <3>4 DEF Renew, Renews, Claimed
    <3> QED
      BY <1>2, <3>1, <3>2, <3>3, <3>4
      DEF Step, BeginReserve, BeginSettle, BeginRelease, BeginRenew, Begin, Lock, ReadClock,
          Rollback, ReserveKnown, ReserveNew, Decide, LookInVain, LookAndLock
  <2>2. i \notin revived /\ i \notin revived' /\ Ledger!On(i, r)
    BY <2>1 DEF Claimed, Ledger!On, Ledger!Details
  <2>3. CASE expires[i] > now
    BY <2>1, <2>2, <2>3 DEF Claimed
  <2>4. CASE ~ (expires[i] > now)
    <3>1. expires'[i] = expires[i]
      BY <2>1, <2>2, <2>4
    <3>2. r \in Windows /\ BeingSettled(i)'
      BY <2>1, <2>4, <3>1 DEF Claimed
    <3>3. BeingSettled(i)
      BY <1>2, <2>1, <2>4, <3>1, <3>2, ReadInTime DEF BeingSettled
    <3> QED
      BY <2>1, <2>2, <3>2, <3>3 DEF Claimed
  <2> QED
    BY <2>3, <2>4
<1> QED
  BY <1>1, <1>2 DEF Next

(* So no other step takes anything of a limit. *)
LEMMA QuietLoads ==
  ASSUME Sane, Sane', LedgerInv, [Next]_vars, ~ \E s \in Sessions : Settle(s) \/ Grant(s),
         NEW r \in Rows
  PROVE  Load(r)' <= Load(r)
<1>1. Quiet
  BY QuietSteps DEF LedgerInv
<1>2. CoveredOf(r)' <= CoveredOf(r)
  BY <1>1, CoveredKeeps DEF Quiet, Sane, LedgerInv
<1>3. ClaimedOf(r)' <= ClaimedOf(r)
  BY QuietClaims, ClaimsKeep DEF Sane
<1>4. /\ CoveredOf(r) \in Nat /\ ClaimedOf(r) \in Nat
      /\ CoveredOf(r)' \in Nat /\ ClaimedOf(r)' \in Nat
  BY LoadsNow, LoadsLater DEF LoadsTyped, Sane
<1> QED
  BY <1>2, <1>3, <1>4 DEF Load

(* A settlement is covered by what its own reservation claimed: if its     *)
(* lease ended before the row was taken, by nothing.                       *)
LEMMA SettleCovered ==
  ASSUME Sane, Sane', LedgerInv, NEW s \in Sessions, Settle(s), NEW r \in Rows,
         NEW i, i = Id(s)
  PROVE  CoveredOf(r)' <= CoveredOf(r)
           + (IF Claimed(i, r) THEN Ledger!Estimates(r)[i] ELSE 0)
<1> DEFINE S == SettledIn(r)
           T == SettledIn(r)'
           f == Covered(r)
           g == Covered(r)'
           e == Ledger!Estimates(r)[i]
<1>1. /\ i \in Ids /\ state[i] = "active" /\ state'[i] = "settled"
      /\ completed'[i] = tx[s].time /\ ended'[i] = now /\ now \in Nat
      /\ UNCHANGED <<now, request, expires, revived>>
      /\ \A j \in Ids \ {i} : Stands(j)
      /\ \A j, w : <<j, w>> \in events' =>
           <<j, w>> \in events \/ (j = i /\ w \in request[i].wins)
  BY SettleStep DEF Sane, Typed, Tables
<1>2. In(s, "settle", "timed") /\ tx[s].time \in Nat /\ tx[s].time <= now
  BY DEF Settle, Sane, Punctual, Typed, Transactions, TxType
<1>3. i \notin S
  BY <1>1 DEF SettledIn, Payers, Ledger!Payers, Ledger!Recent, Rows, LedgerInv, EventsSettled
<1>4. T \subseteq S \cup {i} /\ (i \in T => Ledger!On(i, r))
  <2>1. CASE r \in Keys
    BY <1>1, <2>1 DEF SettledIn, Payers, Ledger!Payers, Stands, Ledger!On, Ledger!Details
  <2>2. CASE r \notin Keys
    <3>1. r \in Windows /\ T = Ledger!Recent(r)' /\ S = Ledger!Recent(r)
      BY <2>2 DEF SettledIn, Rows
    <3>2. ASSUME NEW j \in T, j # i PROVE j \in S
      BY <1>1, <3>1, <3>2 DEF Ledger!Recent, Ledger!InWindow, Stands
    <3>3. i \in T => Ledger!On(i, r)
      BY <1>1, <1>3, <3>1
      DEF Ledger!Recent, Ledger!On, Ledger!Details, LedgerInv, EventsSettled
    <3> QED
      BY <3>2, <3>3
  <2> QED
    BY <2>1, <2>2
<1>5. S \subseteq Ids /\ IsFiniteSet(S) /\ T \subseteq Ids /\ IsFiniteSet(T)
  <2>1. Typed' => T \subseteq Ids /\ IsFiniteSet(T)
    BY <1>1, <1>4, LoadSets, FS_Subset, SessionsAssumption DEF Sane
  <2> QED
    BY <2>1, LoadSets DEF Sane
<1>6. \A j \in S : f[j] \in Nat
  BY <1>5, Splits DEF Sane
<1>7. \A j \in T \ {i} : g[j] = f[j]
  BY <1>1, <1>5, SameCover
<1>8. e \in Nat
  BY <1>1, Amounts DEF Sane
<1>9. i \in T => g[i] \in Nat /\ g[i] <= IF Claimed(i, r) THEN e ELSE 0
  <2> SUFFICES ASSUME i \in T
               PROVE  g[i] \in Nat /\ g[i] <= IF Claimed(i, r) THEN e ELSE 0
    OBVIOUS
  <2>1. /\ g[i] \in Nat
        /\ Overtook(i, r)' => g[i] = 0
        /\ ~ Overtook(i, r)' /\ completed'[i] < expires'[i] => g[i] <= Ledger!Estimates(r)'[i]
    BY <1>1, CoversLater DEF CoversTyped, Sane
  <2>2. Ledger!Estimates(r)'[i] = e
    BY <1>1 DEF Ledger!Estimates
  <2>3. ASSUME ~ Overtook(i, r)' PROVE Claimed(i, r) /\ completed'[i] < expires'[i]
    <3>1. /\ i \notin revived
          /\ r \in Keys => ~ (expires[i] <= now)
          /\ r \notin Keys => ~ (expires[i] <= tx[s].time)
      BY <1>1, <2>3 DEF Overtook
    <3>2. expires[i] \in Nat
      BY <1>1 DEF Sane, Typed, Tables
    <3>3. Ledger!On(i, r)
      BY <1>4
    <3>4. tx[s].time < expires[i]
      BY <1>1, <1>2, <3>1, <3>2
    <3>5. BeingSettled(i)
      BY <1>2, <3>4 DEF BeingSettled
    <3>6. CASE r \in Keys
      BY <1>1, <3>1, <3>2, <3>3, <3>4, <3>6 DEF Claimed
    <3>7. CASE r \notin Keys
      BY <1>1, <3>1, <3>3, <3>4, <3>5, <3>7 DEF Claimed, Rows
    <3> QED
      BY <3>6, <3>7
  <2> QED
    BY <1>8, <2>1, <2>2, <2>3
<1>10. CoveredOf(r)' = Total(T, g) /\ CoveredOf(r) = Total(S, f)
  BY DEF CoveredOf
<1>11. Total(S, f) \in Nat
  BY <1>10, LoadsNow DEF LoadsTyped, Sane
<1> DEFINE a == IF Claimed(i, r) THEN e ELSE 0
<1>12. a \in Nat
  BY <1>8
<1> DEFINE R == T \ {i}
<1>13. Total(R, g) <= Total(S, f) /\ IsFiniteSet(R) /\ \A j \in R : g[j] \in Nat
  <2>1. R \subseteq S /\ IsFiniteSet(S)
    BY <1>4, <1>5
  <2>2. \A j \in S : f[j] \in Nat
    BY <1>6
  <2>3. \A j \in R : g[j] \in Nat /\ g[j] <= f[j]
    BY <1>6, <1>7, <2>1
  <2>4. IsFiniteSet(R)
    BY <2>1, FS_Subset
  <2> HIDE DEF R, S, T, f, g
  <2>5. Total(R, g) <= Total(S, f)
    BY <2>1, <2>2, <2>3, TotalMonotone
  <2> QED
    BY <2>3, <2>4, <2>5
<1>14. Total(T, g) <= Total(S, f) + a
  <2>1. CASE i \in T
    <3>1. g[i] \in Nat /\ g[i] <= a
      BY <1>9, <2>1
    <3>2. T = R \cup {i} /\ i \notin R
      BY <2>1
    <3>3. \A j \in R : g[j] \in Nat
      BY <1>13
    <3>4. IsFiniteSet(R)
      BY <1>13
    <3>5. Total(R, g) \in Nat
      <4> HIDE DEF R, g
      <4> QED
        BY <3>3, <3>4, TotalType
    <3> HIDE DEF R, T, S, f, g, a
    <3>6. Total(R \cup {i}, g) = Total(R, g) + g[i]
      BY <3>1, <3>2, <3>3, <3>4, TotalAdd
    <3> QED
      BY <1>11, <1>12, <1>13, <3>1, <3>2, <3>5, <3>6
  <2>2. CASE i \notin T
    <3>1. T = R
      BY <2>2
    <3>2. Total(R, g) \in Nat
      <4>1. IsFiniteSet(R) /\ \A j \in R : g[j] \in Nat
        BY <1>13
      <4> HIDE DEF R, g
      <4> QED
        BY <4>1, TotalType
    <3> HIDE DEF R, T, S, f, g, a
    <3> QED
      BY <1>11, <1>12, <1>13, <3>1, <3>2
  <2> QED
    BY <2>1, <2>2
<1> HIDE DEF S, T, f, g
<1> QED
  BY <1>10, <1>14

(* And with it the claim ends. *)
LEMMA SettleClaims ==
  ASSUME Sane, Sane', NEW s \in Sessions, Settle(s), NEW r \in Rows, NEW i, i = Id(s)
  PROVE  ClaimedOf(r)' + (IF Claimed(i, r) THEN Ledger!Estimates(r)[i] ELSE 0) <= ClaimedOf(r)
<1> DEFINE S == Claims(r)
           T == Claims(r)'
           f == Ledger!Estimates(r)
<1>1. /\ i \in Ids /\ state'[i] = "settled" /\ UNCHANGED <<now, request, expires, revived>>
      /\ \A j \in Ids \ {i} : Stands(j)
  BY SettleStep
<1>2. Step(s) /\ now \in Nat
  BY DEF Step, Sane, Typed, Tables
<1>3. ASSUME NEW j \in T PROVE j \in S \ {i}
  <2>1. j \in Ids /\ j # i /\ Claimed(j, r)'
    BY <1>1, <1>3 DEF Claims, Claimed
  <2>2. BeingSettled(j)' => BeingSettled(j) \/ now < expires[j]
    BY <1>1, <1>2, <2>1, ReadInTime DEF BeingSettled
  <2>3. Claimed(j, r)
    BY <1>1, <2>1, <2>2 DEF Claimed, Stands, Ledger!On, Ledger!Details
  <2> QED
    BY <2>1, <2>3 DEF Claims
<1>4. IsFiniteSet(S) /\ \A j \in S : f[j] \in Nat
  BY LoadSets, Amounts DEF Sane
<1>5. ClaimedOf(r)' = Total(T, f) /\ ClaimedOf(r) = Total(S, f)
  <2>1. Ledger!Estimates(r)' = f
    BY <1>1 DEF Ledger!Estimates
  <2> QED
    BY <2>1 DEF ClaimedOf
<1>6. Total(T, f) \in Nat
  BY <1>5, LoadsLater DEF LoadsTyped, Sane
<1>7. i \in S <=> Claimed(i, r)
  BY <1>1 DEF Claims
<1> HIDE DEF S, T, f
<1>8. CASE i \in S
  <2> DEFINE R == S \ {i}
  <2>1. Total(S, f) = Total(R, f) + f[i]
    BY <1>4, <1>8, TotalRemove
  <2>2. T \subseteq R /\ IsFiniteSet(R) /\ \A j \in R : f[j] \in Nat
    BY <1>3, <1>4, FS_Subset
  <2>3. \A j \in T : f[j] \in Nat /\ f[j] <= f[j]
    BY <2>2
  <2> HIDE DEF R
  <2>4. Total(T, f) <= Total(R, f)
    BY <2>2, <2>3, TotalMonotone
  <2>5. Total(R, f) \in Nat /\ f[i] \in Nat
    BY <1>4, <1>8, <2>2, TotalType
  <2>6. ClaimedOf(r)' + f[i] <= ClaimedOf(r)
    BY <1>5, <1>6, <2>1, <2>4, <2>5
  <2> QED
    BY <1>7, <1>8, <2>6 DEF f
<1>9. CASE i \notin S
  <2>1. T \subseteq S /\ \A j \in T : f[j] \in Nat /\ f[j] <= f[j]
    BY <1>3, <1>4
  <2>2. Total(T, f) <= Total(S, f)
    BY <1>4, <2>1, TotalMonotone
  <2> QED
    BY <1>5, <1>6, <1>7, <1>9, <2>2
<1> QED
  BY <1>8, <1>9

LEMMA SettleLoads ==
  ASSUME Sane, Sane', LedgerInv, NEW s \in Sessions, Settle(s), NEW r \in Rows
  PROVE  Load(r)' <= Load(r)
<1>1. PICK i : i = Id(s)
  OBVIOUS
<1>2. i \in Ids
  BY <1>1, SettleStep
<1> DEFINE a == IF Claimed(i, r) THEN Ledger!Estimates(r)[i] ELSE 0
<1>3. a \in Nat
  BY <1>2, Amounts DEF Sane
<1>4. CoveredOf(r)' <= CoveredOf(r) + a
  BY <1>1, SettleCovered
<1>5. ClaimedOf(r)' + a <= ClaimedOf(r)
  BY <1>1, SettleClaims
<1>6. /\ CoveredOf(r) \in Nat /\ ClaimedOf(r) \in Nat
      /\ CoveredOf(r)' \in Nat /\ ClaimedOf(r)' \in Nat
  BY LoadsNow, LoadsLater DEF LoadsTyped, Sane
<1> HIDE DEF a
<1> QED
  BY <1>3, <1>4, <1>5, <1>6 DEF Load

(* A grant claims its estimate of each row it wants, and of no other. *)
LEMMA GrantLoads ==
  ASSUME Sane, Sane', LedgerInv, NEW s \in Sessions, Grant(s), NEW r \in Rows
  PROVE  Load(r)' <= Load(r) + (IF r \in Wants(s) THEN tx[s].q.est[MeterOf[r]] ELSE 0)
<1>1. PICK i : i = Id(s)
  OBVIOUS
<1> DEFINE S == Claims(r)
           T == Claims(r)'
           f == Ledger!Estimates(r)
           g == Ledger!Estimates(r)'
           e == tx[s].q.est[MeterOf[r]]
<1>2. /\ i \in Ids /\ state[i] = "none" /\ request'[i] = tx[s].q /\ e \in Nat
      /\ now' = now /\ revived' = revived /\ ~ Settle(s)
      /\ \A j \in Ids \ {i} : Stands(j)
  <2>1. i \in Ids /\ tx[s].op = "reserve" /\ tx[s].q \in Ledger!RequestType
    BY <1>1 DEF Grant, Decided, In, Id, Sane, Typed, Transactions, TxType
  <2>2. e \in Nat
    BY <2>1, Inputs
  <2> QED
    BY <1>1, <2>1, <2>2 DEF Grant, Settle, In, history, Stands, Sane, Typed, Tables
<1>3. Step(s)
  BY DEF Step
<1>4. i \notin S
  BY <1>2 DEF Claims, Claimed
<1>5. ASSUME NEW j \in T, j # i PROVE j \in S /\ g[j] = f[j]
  <2>1. j \in Ids /\ Claimed(j, r)'
    BY <1>5 DEF Claims
  <2>2. BeingSettled(j)' => BeingSettled(j) \/ now < expires[j]
    BY <1>2, <1>3, <1>5, <2>1, ReadInTime DEF BeingSettled, Stands
  <2>3. now \in Nat /\ expires[j] \in Nat
    BY <2>1 DEF Sane, Typed, Tables
  <2>4. Claimed(j, r)
    BY <1>2, <1>5, <2>1, <2>2, <2>3 DEF Claimed, Stands, Ledger!On, Ledger!Details
  <2> QED
    BY <1>2, <1>5, <2>1, <2>4 DEF Claims, Stands, Ledger!Estimates
<1>6. i \in T => r \in Wants(s) /\ g[i] = e
  BY <1>2 DEF Claims, Claimed, Ledger!On, Ledger!Details, Wants, Ledger!Estimates
<1>7. IsFiniteSet(S) /\ \A j \in S : f[j] \in Nat
  BY LoadSets, Amounts DEF Sane
<1>8. ClaimedOf(r)' = Total(T, g) /\ ClaimedOf(r) = Total(S, f)
  BY DEF ClaimedOf
<1>9. Total(T, g) \in Nat /\ Total(S, f) \in Nat
  BY <1>8, LoadsNow, LoadsLater DEF LoadsTyped, Sane
<1> DEFINE R == T \ {i}
<1>10. R \subseteq S /\ \A j \in R : g[j] \in Nat /\ g[j] <= f[j]
  <2> SUFFICES ASSUME NEW j \in R PROVE j \in S /\ g[j] \in Nat /\ g[j] <= f[j]
    OBVIOUS
  <2>1. j \in S /\ g[j] = f[j]
    BY <1>5
  <2>2. f[j] \in Nat
    BY <1>7, <2>1
  <2> HIDE DEF S, f, g
  <2> QED
    BY <2>1, <2>2
<1> HIDE DEF S, T, f, g, e
<1>11. Total(R, g) <= Total(S, f)
  BY <1>7, <1>10, TotalMonotone
<1>12. IsFiniteSet(R) /\ \A j \in R : g[j] \in Nat
  BY <1>7, <1>10, FS_Subset
<1>13. Total(T, g) <= Total(S, f) + (IF r \in Wants(s) THEN e ELSE 0)
  <2>1. CASE i \in T
    <3>1. T = R \cup {i} /\ i \notin R
      BY <2>1
    <3> HIDE DEF R
    <3>2. g[i] \in Nat /\ g[i] = e
      BY <1>2, <1>6, <2>1
    <3>3. Total(R \cup {i}, g) = Total(R, g) + g[i]
      BY <1>12, <3>1, <3>2, TotalAdd
    <3>4. Total(R, g) \in Nat
      BY <1>12, TotalType
    <3> QED
      BY <1>6, <1>9, <1>11, <2>1, <3>1, <3>2, <3>3, <3>4
  <2>2. CASE i \notin T
    <3>1. T = R
      BY <2>2
    <3> HIDE DEF R
    <3> QED
      BY <1>2, <1>9, <1>11, <3>1
  <2> QED
    BY <2>1, <2>2
<1>14. CoveredOf(r)' <= CoveredOf(r)
  <2>1. Quiet
    <3>1. \A t \in Sessions : ~ Settle(t)
      <4> SUFFICES ASSUME NEW t \in Sessions, Settle(t) PROVE FALSE
        OBVIOUS
      <4>1. state'[i] = "active" /\ \E j \in Ids : state[j] = "active" /\ state'[j] = "settled"
        BY <1>1, <1>2, SettleStep DEF Grant, Sane, Typed, Tables
      <4> QED
        BY <1>2, <4>1 DEF Stands
    <3> QED
      BY <1>3, <3>1, QuietSteps DEF LedgerInv, Next
  <2> QED
    BY <2>1, CoveredKeeps DEF Quiet, Sane, LedgerInv
<1>15. /\ CoveredOf(r) \in Nat /\ ClaimedOf(r) \in Nat
       /\ CoveredOf(r)' \in Nat /\ ClaimedOf(r)' \in Nat
  BY LoadsNow, LoadsLater DEF LoadsTyped, Sane
<1> QED
  BY <1>2, <1>8, <1>13, <1>14, <1>15 DEF Load, e

-----------------------------------------------------------------------------
(* The invariant, and the bounds it gives.                                 *)

HoldersAt(r, t) == {i \in Ids : LiveAt(i, t) /\ Ledger!On(i, r)}

(* What is live is at least what is claimed, if no session is settling     *)
(* with the lock of the row.                                               *)
LEMMA ClaimsAreLive ==
  ASSUME Sane, NEW s \in Sessions, tx[s].op = "reserve", NEW r \in Rows, Has(s, r)
  PROVE  ClaimedOf(r) <= HeldAt(r, now) /\ HeldAt(r, now) \in Nat
<1>1. Claims(r) \subseteq HoldersAt(r, now)
  <2> SUFFICES ASSUME NEW i \in Ids, Claimed(i, r), ~ (expires[i] > now) PROVE FALSE
    BY DEF Claims, HoldersAt, LiveAt, Claimed
  <2>1. r \in Windows /\ Ledger!On(i, r)
    BY DEF Claimed
  <2>2. PICK t \in Sessions : In(t, "settle", "timed") /\ Id(t) = i
    BY DEF Claimed, BeingSettled
  <2>3. r \in request[i].wins
    BY <2>1, Inputs, RowsAssumption DEF Ledger!On, Ledger!Details, Sane, Typed, Tables
  <2>4. Has(t, r)
    BY <2>2, <2>3 DEF Sane, LockInv, Holding, Takes, SettleHolds, In, Id
  <2>5. t = s
    BY <2>4 DEF Sane, OneHolder, Has, Resources, Rows
  <2> QED
    BY <2>2, <2>5 DEF In
<1>2. HoldersAt(r, now) \subseteq Ids
  BY DEF HoldersAt
<1>3. IsFiniteSet(HoldersAt(r, now))
  BY <1>2, SessionsAssumption, FS_Subset
<1>4. \A i \in HoldersAt(r, now) : Ledger!Estimates(r)[i] \in Nat
  BY <1>2, Amounts DEF Sane
<1>5. HeldAt(r, now) = Total(HoldersAt(r, now), Ledger!Estimates(r))
  BY DEF HeldAt, HoldersAt
<1>6. HeldAt(r, now) \in Nat
  BY <1>3, <1>4, <1>5, TotalType
<1> DEFINE S == HoldersAt(r, now)
           T == Claims(r)
           f == Ledger!Estimates(r)
<1>7. T \subseteq S /\ IsFiniteSet(S) /\ \A i \in S : f[i] \in Nat
  BY <1>1, <1>3, <1>4
<1>8. \A i \in T : f[i] \in Nat /\ f[i] <= f[i]
  BY <1>7
<1>9. ClaimedOf(r) = Total(T, f)
  BY DEF ClaimedOf
<1> HIDE DEF S, T, f
<1>10. Total(T, f) <= Total(S, f)
  BY <1>7, <1>8, TotalMonotone
<1> QED
  BY <1>5, <1>6, <1>9, <1>10 DEF S, f

(* What was covered is no more than what was paid. *)
LEMMA CoveredIsPaid ==
  ASSUME Typed, NEW r \in Rows
  PROVE  /\ Total(SettledIn(r), Bills(r)) = CoveredOf(r) + Total(SettledIn(r), Beyond(r))
         /\ Total(SettledIn(r), Bills(r)) \in Nat
         /\ Total(SettledIn(r), Beyond(r)) \in Nat
<1> DEFINE S == SettledIn(r)
           b == Bills(r)
           c == Covered(r)
           x == Beyond(r)
<1>1. IsFiniteSet(S) /\ S \subseteq Ids
  BY LoadSets
<1>2. \A i \in S : c[i] \in Nat /\ x[i] \in Nat /\ b[i] = c[i] + x[i]
  BY <1>1, Splits
<1>3. CoveredOf(r) = Total(S, c)
  BY DEF CoveredOf
<1> HIDE DEF S, b, c, x
<1>4. \A i \in S : b[i] \in Nat
  BY <1>2
<1>5. Total(S, b) = Total(S, c) + Total(S, x)
  BY <1>1, <1>2, TotalSplit
<1>6. Total(S, b) \in Nat
  BY <1>1, <1>4, TotalType
<1>7. Total(S, x) \in Nat
  BY <1>1, <1>2, TotalType
<1> QED
  BY <1>3, <1>5, <1>6, <1>7 DEF S, b, x

(* A reserve that decides to grant finds room in all its rows at once. *)
LEMMA DecisionFits ==
  ASSUME Sane, Sane', LedgerInv, NEW s \in Sessions, Decide(s), tx'[s].verdict = "grant",
         NEW r \in Wants(s)
  PROVE  Load(r) + tx[s].q.est[MeterOf[r]] <= Limit[r]
<1> DEFINE q == tx[s].q
           e == q.est[MeterOf[r]]
<1>1. /\ tx[s].op = "reserve" /\ q \in Ledger!RequestType
      /\ Verdict(q, now) = "grant"
  BY DEF Decide, In, DatabaseTime, Sane, Typed, Transactions, TxType
<1>2. r \in Rows /\ (r \in q.keys => r \in Keys) /\ (r \in q.wins => r \in Windows)
  BY <1>1, Inputs DEF Wants, Rows
<1>3. e \in Nat /\ Limit[r] \in Nat
  BY <1>1, <1>2, Inputs
<1>4. Has(s, r)
  <2>1. Step(s) /\ Wants(s)' = Wants(s) /\ tx'[s].op = "reserve" /\ tx'[s].stage = "timed"
        /\ owner' = owner
    BY DEF Decide, In, Step, Wants, Sane, Typed, Transactions, TxType
  <2>2. Has(s, r)'
    BY <2>1 DEF Sane, LockInv, Holding, ReserveHolds
  <2> QED
    BY <2>1, <2>2 DEF Has
<1>5. ClaimedOf(r) <= HeldAt(r, now) /\ HeldAt(r, now) \in Nat
  BY <1>1, <1>2, <1>4, ClaimsAreLive
<1>6. CoveredOf(r) \in Nat /\ ClaimedOf(r) \in Nat
  BY <1>2, LoadsNow DEF LoadsTyped, Sane
<1>7. Overdrawn(q, now) = {} /\ Crowded(q, now) = {}
  BY <1>1 DEF Verdict
<1>8. CoveredOf(r) <= Total(SettledIn(r), Bills(r)) /\ Total(SettledIn(r), Bills(r)) \in Nat
  BY <1>2, <1>6, CoveredIsPaid DEF Sane
<1>9. CASE r \in q.keys
  <2>1. r \in Keys /\ e <= Limit[r] - Synced(q, r) - HeldAt(r, now)
    BY <1>2, <1>7, <1>9 DEF Overdrawn, Fits
  <2>2. Total(SettledIn(r), Bills(r)) = PaidInto(r) /\ PaidInto(r) <= budget[r]
    BY <2>1 DEF SettledIn, PaidInto, LedgerInv
  <2>3. budget[r] \in Nat /\ q.base[r] \in Nat
    BY <1>1, <2>1, Inputs DEF Sane, Typed, Tables
  <2>4. budget[r] <= Synced(q, r) /\ Synced(q, r) \in Nat
    BY <2>1, <2>3 DEF Synced, Ledger!Synced, Ledger!Larger, LedgerInv, Stored
  <2> HIDE DEF q, e
  <2> QED
    BY <1>3, <1>5, <1>6, <1>8, <2>1, <2>2, <2>3, <2>4 DEF Load, e, q
<1>10. CASE r \notin q.keys
  <2>1. r \in q.wins /\ r \in Windows /\ r \notin Keys
    BY <1>2, <1>10, RowsAssumption DEF Wants
  <2>2. e <= Limit[r] - Total(RecentAt(r, now), Ledger!Bills(r)) - HeldAt(r, now)
    BY <1>7, <2>1 DEF Crowded, FitsWindow
  <2>3. RecentAt(r, now) = SettledIn(r)
    BY <2>1 DEF RecentAt, SettledIn, Ledger!Recent, Ledger!InWindow
  <2>4. Total(RecentAt(r, now), Ledger!Bills(r)) = Total(SettledIn(r), Bills(r))
    BY <2>3 DEF Bills
  <2> HIDE DEF q, e
  <2> QED
    BY <1>3, <1>5, <1>6, <1>8, <2>2, <2>4 DEF Load, e, q
<1> QED
  BY <1>9, <1>10

CapacityInv == WithinLimit /\ PendingFits

LEMMA CapacityStarts == Init => CapacityInv
<1> SUFFICES ASSUME Init PROVE CapacityInv
  OBVIOUS
<1>1. ASSUME NEW r \in Rows PROVE Load(r) <= Limit[r]
  <2>1. SettledIn(r) = {} /\ Claims(r) = {}
    BY DEF Init, Ledger!Init, SettledIn, Payers, Ledger!Payers, Ledger!Recent, Claims, Claimed
  <2>2. CoveredOf(r) = 0 /\ ClaimedOf(r) = 0
    BY <2>1, TotalEmpty DEF CoveredOf, ClaimedOf
  <2> QED
    BY <2>2, Inputs DEF Load
<1>2. PendingFits
  BY TxTypes DEF PendingFits, Decided, In, Init, NoTransaction, Doing
<1> QED
  BY <1>1, <1>2 DEF CapacityInv, WithinLimit

(* What a step adds to the load of a row: only a grant adds anything, and  *)
(* only to the rows it has locked.                                         *)
LEMMA LoadSteps ==
  ASSUME Sane, Sane', LedgerInv, [Next]_vars, NEW r \in Rows
  PROVE  \/ Load(r)' <= Load(r)
         \/ \E s \in Sessions :
              /\ Grant(s) /\ r \in Wants(s) /\ Has(s, r)
              /\ Load(r)' <= Load(r) + tx[s].q.est[MeterOf[r]]
<1>1. CASE \E s \in Sessions : Settle(s)
  BY <1>1, SettleLoads
<1>2. ASSUME NEW s \in Sessions, Grant(s)
      PROVE  \/ Load(r)' <= Load(r)
             \/ /\ r \in Wants(s) /\ Has(s, r)
                /\ Load(r)' <= Load(r) + tx[s].q.est[MeterOf[r]]
  <2>1. Load(r)' <= Load(r) + (IF r \in Wants(s) THEN tx[s].q.est[MeterOf[r]] ELSE 0)
    BY <1>2, GrantLoads
  <2>2. Load(r) \in Nat
    BY LoadsNow DEF LoadsTyped, Sane
  <2>3. r \in Wants(s) => Has(s, r)
    BY <1>2 DEF Grant, Decided, In, Sane, LockInv, Holding, ReserveHolds
  <2> QED
    BY <2>1, <2>2, <2>3
<1>3. CASE ~ \E s \in Sessions : Settle(s) \/ Grant(s)
  BY <1>3, QuietLoads
<1> QED
  BY <1>1, <1>2, <1>3

(* A decision is new, or it stands and its session holds its rows. *)
LEMMA Decisions ==
  ASSUME Sane, [Next]_vars, NEW t \in Sessions, Decided(t, "grant")'
  PROVE  \/ tx'[t] = tx[t] /\ Decided(t, "grant") /\ ~ Grant(t)
         \/ /\ Decide(t) /\ tx'[t].q = tx[t].q
            /\ ~ \E s \in Sessions : Grant(s)
<1> USE DEF Sane, Typed, Transactions
<1>1. tx'[t].op = "reserve" /\ tx'[t].stage = "timed" /\ tx'[t].verdict = "grant"
  BY DEF Decided, In
<1>2. ASSUME End(t) PROVE FALSE
  BY <1>1, <1>2 DEF End, NoTransaction, Doing
<1>3. CASE tx'[t] = tx[t]
  BY <1>1, <1>2, <1>3 DEF Decided, In, Grant
<1>4. CASE tx'[t] # tx[t]
  <2>1. PICK s \in Sessions : Step(s)
    BY <1>4 DEF Next, Tick, vars
  <2>2. s = t
    BY <1>4, <2>1, Others
  <2>3. ASSUME NEW n \in TxType, Begin(t, n), n.stage = "look" PROVE FALSE
    BY <1>1, <2>3 DEF Begin
  <2>4. ASSUME NEW j \in Ids, NEW q \in Requests, BeginReserve(t, j, q) PROVE FALSE
    BY <2>3, <2>4, TxTypes DEF BeginReserve, Doing
  <2>5. ASSUME NEW j \in Ids, NEW ch \in Charges, BeginSettle(t, j, ch) PROVE FALSE
    BY <2>3, <2>5, TxTypes DEF BeginSettle, Doing
  <2>6. ASSUME NEW j \in Ids, BeginRelease(t, j) \/ BeginRenew(t, j) PROVE FALSE
    BY <2>3, <2>6, TxTypes DEF BeginRelease, BeginRenew, Doing
  <2>7. ASSUME LookAndLock(t) \/ ReserveNew(t) PROVE FALSE
    BY <1>1, <2>7 DEF LookAndLock, ReserveNew, TxType
  <2>8. ASSUME ReadClock(t) PROVE FALSE
    BY <1>1, <2>8 DEF ReadClock, TxType
  <2>9. ASSUME Lock(t) PROVE FALSE
    BY <1>4, <2>9 DEF Lock
  <2>10. Decide(t)
    BY <1>2, <2>1, <2>2, <2>4, <2>5, <2>6, <2>7, <2>8, <2>9
    DEF Step, Rollback, ReserveKnown, Refuse, Grant, LookInVain, Settle, Release, Renew
  <2>11. tx'[t].q = tx[t].q
    BY <2>10 DEF Decide, TxType
  <2>12. ASSUME NEW u \in Sessions, Grant(u) PROVE FALSE
    BY <2>10, <2>12 DEF Decide, Grant, tables, Tables
  <2> QED
    BY <2>10, <2>11, <2>12
<1> QED
  BY <1>3, <1>4

LEMMA CapacityNext ==
  ASSUME Sane, Sane', LedgerInv, CapacityInv, [Next]_vars
  PROVE  CapacityInv'
<1>1. ASSUME NEW r \in Rows PROVE Load(r)' <= Limit[r]
  <2>1. Load(r) \in Nat /\ Load(r)' \in Nat /\ Limit[r] \in Nat /\ Load(r) <= Limit[r]
    BY LoadsNow, LoadsLater, Inputs DEF LoadsTyped, Sane, CapacityInv, WithinLimit
  <2>2. ASSUME NEW s \in Sessions, Grant(s), r \in Wants(s)
        PROVE  /\ Load(r) + tx[s].q.est[MeterOf[r]] <= Limit[r]
               /\ tx[s].q.est[MeterOf[r]] \in Nat
    BY <2>2, Inputs
    DEF Grant, CapacityInv, PendingFits, Sane, Typed, Transactions, TxType
  <2> QED
    BY <2>1, <2>2, LoadSteps
<1>2. ASSUME NEW t \in Sessions, Decided(t, "grant")', NEW r \in Wants(t)'
      PROVE  Load(r)' + tx'[t].q.est[MeterOf[r]] <= Limit[r]
  <2>1. tx[t].q = tx'[t].q /\ r \in Wants(t)
    BY <1>2, Decisions DEF Wants
  <2> DEFINE e == tx[t].q.est[MeterOf[r]]
  <2>2. r \in Rows /\ e \in Nat /\ Limit[r] \in Nat
    BY <2>1, Inputs DEF Wants, Rows, Sane, Typed, Transactions, TxType
  <2>3. Load(r) \in Nat /\ Load(r)' \in Nat
    BY <2>2, LoadsNow, LoadsLater DEF LoadsTyped, Sane
  <2>4. Load(r) + e <= Limit[r]
    <3>1. CASE Decided(t, "grant")
      BY <2>1, <3>1 DEF CapacityInv, PendingFits
    <3>2. CASE Decide(t)
      BY <1>2, <2>1, <3>2, DecisionFits DEF Decided
    <3> QED
      BY <1>2, <3>1, <3>2, Decisions
  <2>5. Load(r)' <= Load(r)
    <3>1. ASSUME NEW s \in Sessions, Grant(s), Has(s, r) PROVE FALSE
      <4>1. Decided(t, "grant") /\ ~ Grant(t)
        BY <1>2, <3>1, Decisions
      <4>2. Has(t, r)
        BY <2>1, <4>1 DEF Decided, In, Sane, LockInv, Holding, ReserveHolds
      <4>3. s = t
        BY <2>2, <3>1, <4>2 DEF Sane, OneHolder, Has, Resources, Rows
      <4> QED
        BY <3>1, <4>1, <4>3
    <3> QED
      BY <2>2, <3>1, LoadSteps
  <2> HIDE DEF e
  <2>6. Load(r)' + e <= Limit[r]
    BY <2>2, <2>3, <2>4, <2>5
  <2> QED
    BY <2>1, <2>6 DEF e
<1> QED
  BY <1>1, <1>2 DEF CapacityInv, WithinLimit, PendingFits

LEMMA CapacityAlways == Spec => []CapacityInv
<1>1. Sane /\ Sane' /\ LedgerInv /\ CapacityInv /\ [Next]_vars => CapacityInv'
  BY CapacityNext
<1> QED
  BY <1>1, CapacityStarts, SaneAlways, LedgerAlways, PTL DEF Spec

(* What is held is claimed. *)
LEMMA HeldIsClaimed ==
  ASSUME Typed, NEW r \in Rows
  PROVE  Held(r) <= ClaimedOf(r) /\ Held(r) \in Nat
<1> DEFINE T == {i \in Ids \ revived : LiveAt(i, now) /\ Ledger!On(i, r)}
           S == Claims(r)
           f == Ledger!Estimates(r)
<1>1. T \subseteq S
  BY DEF Claims, Claimed, LiveAt
<1>2. IsFiniteSet(S) /\ \A i \in S : f[i] \in Nat
  BY LoadSets, Amounts
<1>3. Held(r) = Total(T, f) /\ ClaimedOf(r) = Total(S, f)
  BY DEF Held, ClaimedOf
<1> HIDE DEF S, T, f
<1>4. \A i \in T : f[i] \in Nat /\ f[i] <= f[i]
  BY <1>1, <1>2
<1>5. Total(T, f) <= Total(S, f)
  BY <1>1, <1>2, <1>4, TotalMonotone
<1>6. IsFiniteSet(T)
  BY <1>1, <1>2, FS_Subset
<1>7. Total(T, f) \in Nat
  BY <1>4, <1>6, TotalType
<1> QED
  BY <1>3, <1>5, <1>7

LEMMA Bounds ==
  ASSUME Sane, CapacityInv
  PROVE  CapacityBound /\ WindowBound
<1>1. ASSUME NEW r \in Rows
      PROVE  Total(SettledIn(r), Bills(r)) + Held(r) <= Limit[r] + Total(SettledIn(r), Beyond(r))
  <2>1. /\ Total(SettledIn(r), Bills(r)) = CoveredOf(r) + Total(SettledIn(r), Beyond(r))
        /\ Total(SettledIn(r), Bills(r)) \in Nat
        /\ Total(SettledIn(r), Beyond(r)) \in Nat
    BY CoveredIsPaid DEF Sane
  <2>2. Held(r) <= ClaimedOf(r) /\ Held(r) \in Nat
    BY HeldIsClaimed DEF Sane
  <2>3. CoveredOf(r) \in Nat /\ ClaimedOf(r) \in Nat /\ Limit[r] \in Nat
        /\ CoveredOf(r) + ClaimedOf(r) <= Limit[r]
    BY LoadsNow, Inputs DEF LoadsTyped, Sane, CapacityInv, WithinLimit, Load
  <2> QED
    BY <2>1, <2>2, <2>3
<1>2. ASSUME NEW k \in Keys
      PROVE  Ledger!Paid(k) + Held(k) <= Limit[k] + Total(Payers(k), Beyond(k))
  BY <1>1, SameSums DEF SettledIn, PaidInto, Rows
<1>3. ASSUME NEW w \in Windows
      PROVE  Ledger!WindowSettled(w) + Held(w) <= Limit[w] + Total(Ledger!Recent(w), Beyond(w))
  <2>1. w \notin Keys
    BY RowsAssumption
  <2> QED
    BY <1>1, <2>1, SameSums DEF SettledIn, SpentIn, Rows
<1> QED
  BY <1>2, <1>3 DEF CapacityBound, WindowBound

(* However the transactions are interleaved, what is settled and held in a *)
(* budget row stays within its limit but for the excess of settled calls   *)
(* and for what a lease that ended while a transaction waited takes twice. *)
THEOREM NeverOverGranted == Spec => []CapacityBound
<1>1. Sane /\ CapacityInv => CapacityBound
  BY Bounds
<1> QED
  BY <1>1, SaneAlways, CapacityAlways, PTL

(* The same for a window, which a settlement locks before it reads the     *)
(* clock.                                                                  *)
THEOREM WindowNeverOverGranted == Spec => []WindowBound
<1>1. Sane /\ CapacityInv => WindowBound
  BY Bounds
<1> QED
  BY <1>1, SaneAlways, CapacityAlways, PTL

-----------------------------------------------------------------------------
(* The order of locking.                                                   *)

(* The rows a transaction is to lock. *)
Goal(s) ==
  CASE tx[s].op = "reserve" -> Wants(s)
    [] tx[s].op = "settle" -> Ledger!Details(Id(s))
    [] OTHER -> {}

(* A reserve locks the rows it inserts, then the other budget rows, then   *)
(* the windows; a settlement the windows, then the budget rows.            *)
Level(op, r) ==
  IF op = "reserve" THEN (IF r \in Windows THEN 2 ELSE IF r \in present THEN 1 ELSE 0)
                    ELSE (IF r \in Windows THEN 0 ELSE 1)
Earlier(op, o, r) ==
  \/ Level(op, o) < Level(op, r)
  \/ Level(op, o) = Level(op, r) /\ o < r

(* Whoever holds a row holds all that come earlier. *)
InOrder(s) ==
  \A r, o \in Goal(s) : Has(s, r) /\ Earlier(tx[s].op, o, r) => Has(s, o)
LockOrder == \A s \in Sessions : InOrder(s)

LEMMA GoalRows ==
  ASSUME Sane, NEW s \in Sessions
  PROVE  Goal(s) \subseteq Rows /\ Goal(s) \subseteq Resources /\ Goal(s) \subseteq Nat
<1>1. Wants(s) \subseteq Rows
  BY Inputs DEF Wants, Rows, Sane, Typed, Transactions, TxType
<1>2. tx[s].op = "settle" => Ledger!Details(Id(s)) \subseteq Rows
  BY Inputs DEF Ledger!Details, Id, Rows, Sane, Typed, Transactions, Tables
<1> QED
  BY <1>1, <1>2, RowsAssumption DEF Goal, Rows, Resources

GoalsTyped == \A s \in Sessions : Goal(s) \subseteq Rows /\ Goal(s) \subseteq Resources
LEMMA GoalsNow == Sane => GoalsTyped
BY GoalRows DEF GoalsTyped
LEMMA GoalsLater == Sane' => GoalsTyped'
BY GoalsNow, PTL

(* The order is strict and total. *)
LEMMA Ordered ==
  ASSUME NEW op, NEW a \in Nat, NEW b \in Nat, NEW c \in Nat
  PROVE  /\ ~ Earlier(op, a, a)
         /\ Earlier(op, a, b) \/ Earlier(op, b, a) \/ a = b
         /\ Earlier(op, a, b) /\ Earlier(op, b, c) => Earlier(op, a, c)
<1>1. Level(op, a) \in Nat /\ Level(op, b) \in Nat /\ Level(op, c) \in Nat
  BY DEF Level
<1> QED
  BY <1>1 DEF Earlier

LEMMA Orders ==
  ASSUME NEW o \in Nat, NEW r \in Nat
  PROVE  /\ Earlier("reserve", o, r) <=>
              IF r \in Windows THEN o \notin Windows \/ o < r
              ELSE o \notin Windows /\ (IF o \in present THEN r \in present /\ o < r
                                                      ELSE r \in present \/ o < r)
         /\ Earlier("settle", o, r) <=>
              IF r \in Windows THEN o \in Windows /\ o < r
                               ELSE o \in Windows \/ o < r
<1> USE DEF Earlier, Level
<1>1. CASE r \in Windows /\ o \in Windows
  BY <1>1
<1>2. CASE r \in Windows /\ o \notin Windows
  BY <1>2
<1>3. CASE r \notin Windows /\ o \in Windows
  BY <1>3
<1>4. CASE r \notin Windows /\ o \notin Windows
  <2>1. CASE r \in present /\ o \in present
    BY <1>4, <2>1
  <2>2. CASE r \in present /\ o \notin present
    BY <1>4, <2>2
  <2>3. CASE r \notin present /\ o \in present
    BY <1>4, <2>3
  <2>4. CASE r \notin present /\ o \notin present
    BY <1>4, <2>4
  <2> QED
    BY <2>1, <2>2, <2>3, <2>4
<1> QED
  BY <1>1, <1>2, <1>3, <1>4

(* What a session needs is the first of its rows that it does not hold. *)
LEMMA NeedsFirst ==
  ASSUME Sane, NEW s \in Sessions, NEW r \in Needs(s)
  PROVE  /\ tx[s].op \in {"reserve", "settle"} /\ tx[s].stage # "look"
         /\ r \in Goal(s) /\ ~ Has(s, r)
         /\ \A o \in Goal(s) : Earlier(tx[s].op, o, r) => Has(s, o)
<1>1. ASSUME NEW o \in Resources PROVE Has(s, o) <=> o \in Owned(s)
  BY DEF Sane, OneHolder, Has, Owned, Typed, Locks
<1>2. CASE tx[s].op = "reserve"
  <2> DEFINE keys == tx[s].q.keys
             wins == tx[s].q.wins
  <2>1. /\ keys \subseteq Keys /\ wins \subseteq Windows /\ Goal(s) = keys \cup wins
        /\ Keys \cap Windows = {} /\ Keys \subseteq Nat /\ Windows \subseteq Nat
    BY <1>2, Inputs, RowsAssumption DEF Goal, Wants, Sane, Typed, Transactions, TxType
  <2>2. /\ tx[s].stage = "locking"
        /\ r \in FirstOf(Unlocked(s, keys \ present),
                         FirstOf(Unlocked(s, keys), Unlocked(s, wins)))
    BY <1>2 DEF Needs, ReserveNeeds
  <2> HIDE DEF keys, wins
  <2>3. \A S \in SUBSET Rows : Unlocked(s, S) = {} => \A o \in S : Has(s, o)
    BY <1>1, AllLocked DEF Rows, Resources
  <2>4. /\ Goal(s) \subseteq Resources /\ keys \in SUBSET Rows
        /\ keys \ present \in SUBSET Rows /\ wins \in SUBSET Rows
    BY <2>1 DEF Rows, Resources
  <2>5. CASE Unlocked(s, keys \ present) # {}
    <3>1. /\ r \in (keys \ present) \ Owned(s)
          /\ \A o \in (keys \ present) \ Owned(s) : r <= o
      BY <2>2, <2>5 DEF FirstOf, Unlocked
    <3>2. ASSUME NEW o \in Goal(s), Earlier(tx[s].op, o, r) PROVE Has(s, o)
      <4>1. o \in keys \ present /\ o < r
        <5>1. o \in Nat /\ r \in Nat /\ Earlier("reserve", o, r) /\ o \in keys \cup wins
          BY <1>2, <2>1, <3>1, <3>2
        <5>2. r \notin Windows /\ r \notin present
          BY <2>1, <3>1
        <5>3. o \notin Windows /\ o \notin present /\ o < r
          BY <5>1, <5>2, Orders
        <5> QED
          BY <2>1, <5>1, <5>3
      <4>2. o \in Nat /\ r \in Nat /\ o \in Resources
        BY <2>1, <2>4, <3>1, <3>2, <4>1
      <4>3. o \in Owned(s)
        BY <3>1, <4>1, <4>2
      <4> QED
        BY <1>1, <4>2, <4>3
    <3> QED
      BY <1>1, <1>2, <2>1, <2>2, <2>4, <3>1, <3>2
  <2>6. CASE Unlocked(s, keys \ present) = {} /\ Unlocked(s, keys) # {}
    <3>1. r \in keys \ Owned(s) /\ \A o \in keys \ Owned(s) : r <= o
      BY <2>2, <2>6 DEF FirstOf, Unlocked
    <3>2. \A o \in keys \ present : Has(s, o)
      BY <2>3, <2>4, <2>6
    <3>3. ASSUME NEW o \in Goal(s), Earlier(tx[s].op, o, r) PROVE Has(s, o)
      <4>1. r \in present
        BY <1>1, <2>1, <2>4, <3>1, <3>2
      <4>2. o \in keys \ present \/ (o \in keys /\ o < r)
        <5>1. o \in Nat /\ r \in Nat /\ Earlier("reserve", o, r) /\ o \in keys \cup wins
          BY <1>2, <2>1, <3>1, <3>3
        <5>2. r \notin Windows
          BY <2>1, <3>1
        <5>3. o \notin Windows /\ (o \in present => o < r)
          BY <5>1, <5>2, <4>1, Orders
        <5> QED
          BY <2>1, <5>1, <5>3
      <4>3. o \in Nat /\ r \in Nat /\ o \in Resources
        BY <2>1, <2>4, <3>1, <3>3, <4>2
      <4>4. o \in keys \ present \/ o \in Owned(s)
        BY <3>1, <4>2, <4>3
      <4> QED
        BY <1>1, <3>2, <4>3, <4>4
    <3> QED
      BY <1>1, <1>2, <2>1, <2>2, <2>4, <3>1, <3>3
  <2>7. CASE Unlocked(s, keys \ present) = {} /\ Unlocked(s, keys) = {}
    <3>1. r \in wins \ Owned(s) /\ \A o \in wins \ Owned(s) : r <= o
      BY <2>2, <2>7 DEF FirstOf, Unlocked
    <3>2. \A o \in keys : Has(s, o)
      BY <2>3, <2>4, <2>7
    <3>3. ASSUME NEW o \in Goal(s), Earlier(tx[s].op, o, r) PROVE Has(s, o)
      <4>1. o \in keys \/ (o \in wins /\ o < r)
        <5>1. o \in Nat /\ r \in Nat /\ Earlier("reserve", o, r) /\ o \in keys \cup wins
          BY <1>2, <2>1, <3>1, <3>3
        <5>2. r \in Windows
          BY <2>1, <3>1
        <5>3. o \notin Windows \/ o < r
          BY <5>1, <5>2, Orders
        <5> QED
          BY <2>1, <5>1, <5>3
      <4>2. o \in Nat /\ r \in Nat /\ o \in Resources
        BY <2>1, <2>4, <3>1, <3>3, <4>1
      <4>3. o \in keys \/ o \in Owned(s)
        BY <3>1, <4>1, <4>2
      <4> QED
        BY <1>1, <3>2, <4>2, <4>3
    <3> QED
      BY <1>1, <1>2, <2>1, <2>2, <2>4, <3>1, <3>3
  <2> QED
    BY <2>5, <2>6, <2>7
<1>3. CASE tx[s].op = "settle"
  <2> DEFINE keys == request[Id(s)].keys
             wins == request[Id(s)].wins
  <2>1. /\ keys \subseteq Keys /\ wins \subseteq Windows /\ Goal(s) = keys \cup wins
        /\ Keys \cap Windows = {} /\ Keys \subseteq Nat /\ Windows \subseteq Nat
    BY <1>3, Inputs, RowsAssumption
    DEF Goal, Ledger!Details, Id, Sane, Typed, Transactions, Tables
  <2>2. /\ tx[s].stage \in {"locking", "timed"}
        /\ tx[s].stage = "locking" => r \in Unlocked(s, wins)
        /\ tx[s].stage = "timed" => r \in Unlocked(s, keys)
    BY <1>3 DEF Needs, SettleNeeds
  <2>3. tx[s].stage = "timed" => \A w \in wins : Has(s, w)
    BY <1>3 DEF Sane, LockInv, Holding, Takes, SettleHolds
  <2> HIDE DEF keys, wins
  <2>4. Goal(s) \subseteq Resources
    BY <2>1 DEF Resources
  <2>5. CASE tx[s].stage = "locking"
    <3>1. r \in wins \ Owned(s) /\ \A o \in wins \ Owned(s) : r <= o
      BY <2>2, <2>5 DEF Unlocked
    <3>2. ASSUME NEW o \in Goal(s), Earlier(tx[s].op, o, r) PROVE Has(s, o)
      <4>1. o \in wins /\ o < r
        <5>1. o \in Nat /\ r \in Nat /\ Earlier("settle", o, r) /\ o \in keys \cup wins
          BY <1>3, <2>1, <3>1, <3>2
        <5>2. r \in Windows
          BY <2>1, <3>1
        <5>3. o \in Windows /\ o < r
          BY <5>1, <5>2, Orders
        <5> QED
          BY <2>1, <5>1, <5>3
      <4>2. o \in Nat /\ r \in Nat /\ o \in Resources
        BY <2>1, <2>4, <3>1, <3>2, <4>1
      <4>3. o \in Owned(s)
        BY <3>1, <4>1, <4>2
      <4> QED
        BY <1>1, <4>2, <4>3
    <3> QED
      BY <1>1, <1>3, <2>1, <2>4, <2>5, <3>1, <3>2
  <2>6. CASE tx[s].stage = "timed"
    <3>1. r \in keys \ Owned(s) /\ \A o \in keys \ Owned(s) : r <= o
      BY <2>2, <2>6 DEF Unlocked
    <3>2. ASSUME NEW o \in Goal(s), Earlier(tx[s].op, o, r) PROVE Has(s, o)
      <4>1. o \in wins \/ (o \in keys /\ o < r)
        <5>1. o \in Nat /\ r \in Nat /\ Earlier("settle", o, r) /\ o \in keys \cup wins
          BY <1>3, <2>1, <3>1, <3>2
        <5>2. r \notin Windows
          BY <2>1, <3>1
        <5>3. o \in Windows \/ o < r
          BY <5>1, <5>2, Orders
        <5> QED
          BY <2>1, <5>1, <5>3
      <4>2. o \in Nat /\ r \in Nat /\ o \in Resources
        BY <2>1, <2>4, <3>1, <3>2, <4>1
      <4>3. o \in wins \/ o \in Owned(s)
        BY <3>1, <4>1, <4>2
      <4> QED
        BY <1>1, <2>3, <2>6, <4>2, <4>3
    <3> QED
      BY <1>1, <1>3, <2>1, <2>4, <2>6, <3>1, <3>2
  <2> QED
    BY <2>2, <2>5, <2>6
<1>4. tx[s].op \in {"reserve", "settle"}
  BY DEF Needs
<1> QED
  BY <1>2, <1>3, <1>4

(* A reserve stores only rows whose locks it holds.                        *)
LEMMA Inserted ==
  ASSUME Sane, NEW s \in Sessions, Step(s)
  PROVE  present \subseteq present' /\ \A k \in present' \ present : Has(s, k)
<1>1. ASSUME Refuse(s) \/ Grant(s) PROVE present' = present \cup tx[s].q.keys
  BY <1>1 DEF Refuse, Grant, SyncRows
<1>2. ASSUME Refuse(s) \/ Grant(s) PROVE \A k \in tx[s].q.keys : Has(s, k)
  BY <1>2 DEF Refuse, Grant, Decided, In, Sane, LockInv, Holding, ReserveHolds, Wants
<1>3. CASE UNCHANGED present
  BY <1>3
<1> QED
  BY <1>1, <1>2, <1>3
  DEF Step, BeginReserve, BeginSettle, BeginRelease, BeginRenew, Begin, Lock, ReadClock,
      Rollback, ReserveKnown, ReserveNew, Decide, LookInVain, LookAndLock, Settle, Release,
      Renew, tables

(* A row only moves back in the order, and none moves before a row that    *)
(* was stored.                                                             *)
LEMMA LaterStill ==
  ASSUME NEW op, NEW o \in Nat, NEW r \in Nat,
         present \subseteq present', r \in present' => r \in present, Earlier(op, o, r)'
  PROVE  Earlier(op, o, r)
<1> USE DEF Earlier, Level
<1>1. CASE op # "reserve"
  BY <1>1
<1>2. CASE op = "reserve" /\ (r \in Windows \/ o \in Windows)
  BY <1>2
<1>3. CASE op = "reserve" /\ r \notin Windows /\ o \notin Windows
  <2>1. CASE r \in present /\ o \in present
    BY <1>3, <2>1
  <2>2. CASE r \in present /\ o \notin present
    BY <1>3, <2>2
  <2>3. CASE r \notin present /\ o \in present
    BY <1>3, <2>3
  <2>4. CASE r \notin present /\ o \notin present
    BY <1>3, <2>4
  <2> QED
    BY <2>1, <2>2, <2>3, <2>4
<1> QED
  BY <1>1, <1>2, <1>3

(* The order holds on while a session keeps its locks and its goal.        *)
LEMMA OrderKept ==
  ASSUME Sane, NEW t \in Sessions, InOrder(t), tx'[t].op = tx[t].op, Goal(t)' = Goal(t),
         \A r \in Resources : Has(t, r)' <=> Has(t, r),
         present \subseteq present', \A k \in present' \ present : ~ Has(t, k)
  PROVE  InOrder(t)'
<1>1. Goal(t) \subseteq Resources /\ Goal(t) \subseteq Nat
  BY GoalRows
<1> SUFFICES ASSUME NEW r \in Goal(t), NEW o \in Goal(t), Has(t, r)',
                    Earlier(tx[t].op, o, r)'
             PROVE  Has(t, o)'
  BY DEF InOrder
<1>2. Has(t, r) /\ (r \in present' => r \in present)
  BY <1>1
<1>3. Earlier(tx[t].op, o, r)
  <2>1. PICK p : p = tx[t].op
    OBVIOUS
  <2>2. Earlier(p, o, r)'
    BY <2>1
  <2>3. Earlier(p, o, r)
    BY <1>1, <1>2, <2>2, LaterStill
  <2> QED
    BY <2>1, <2>3
<1> QED
  BY <1>1, <1>2, <1>3 DEF InOrder

LEMMA OthersOrder ==
  ASSUME Sane, Sane', NEW s \in Sessions, Step(s), NEW t \in Sessions \ {s}, InOrder(t)
  PROVE  InOrder(t)'
<1>1. tx'[t] = tx[t] /\ \A r \in Resources : Has(t, r)' <=> Has(t, r)
  BY Others DEF Sane
<1>2. CASE tx[t].stage = "look"
  <2>1. HoldsNothing(t)'
    BY <1>1, <1>2 DEF Sane, LockInv, Holding
  <2>2. Goal(t)' \subseteq Resources
    BY GoalsLater DEF GoalsTyped
  <2> QED
    BY <2>1, <2>2 DEF InOrder, HoldsNothing
<1>3. CASE tx[t].stage # "look"
  <2>1. ASSUME tx[t].op = "settle"
        PROVE  Id(t)' = Id(t) /\ request'[Id(t)] = request[Id(t)]
    <3>1. /\ Id(t) \in Ids /\ Has(t, Id(t)) /\ state[Id(t)] = "active"
      BY <1>3, <2>1 DEF Sane, LockInv, Holding, Takes, TakerHolds, Typed, Transactions, Id
    <3>2. ~ Has(s, Id(t))
      BY <3>1 DEF Sane, OneHolder, Has, Resources
    <3> QED
      BY <1>1, <3>1, <3>2, Untouched DEF Sane, LockInv, Stands, Id
  <2>2. Goal(t)' = Goal(t)
    BY <1>1, <2>1 DEF Goal, Wants, Ledger!Details
  <2>3. present \subseteq present' /\ \A k \in present' \ present : Has(s, k)
    BY Inserted
  <2>4. present' \subseteq Resources
    BY DEF Sane, Typed, Tables, Resources
  <2>5. \A k \in present' \ present : ~ Has(t, k)
    BY <2>3, <2>4 DEF Sane, OneHolder, Has
  <2> QED
    BY <1>1, <2>2, <2>3, <2>5, OrderKept
<1> QED
  BY <1>2, <1>3

LEMMA LockOrders ==
  ASSUME Sane, NEW s \in Sessions, Lock(s), InOrder(s)
  PROVE  InOrder(s)'
<1>1. PICK r \in Needs(s) : owner' = [owner EXCEPT ![r] = {s}]
  BY DEF Lock
<1>2. tx' = tx /\ present' = present /\ Goal(s)' = Goal(s)
  BY DEF Lock, tables, Goal, Wants, Ledger!Details, Id
<1>3. \A o \in Goal(s) : /\ Has(s, o) => Has(s, o)'
                         /\ Has(s, o)' => Has(s, o) \/ o = r
  BY <1>1, GoalRows DEF Has, Sane, Typed, Locks
<1>4. \A o \in Goal(s) : Earlier(tx[s].op, o, r) => Has(s, o)
  BY NeedsFirst
<1>5. \A o, q : Earlier(tx[s].op, o, q)' <=> Earlier(tx[s].op, o, q)
  BY <1>2 DEF Earlier, Level
<1> QED
  BY <1>2, <1>3, <1>4, <1>5 DEF InOrder

LEMMA OwnOrder ==
  ASSUME Sane, Sane', NEW s \in Sessions, Step(s), InOrder(s)
  PROVE  InOrder(s)'
<1>1. Goal(s)' \subseteq Rows /\ Goal(s)' \subseteq Resources
  BY GoalsLater DEF GoalsTyped
<1>2. ASSUME HoldsNothing(s)' PROVE InOrder(s)'
  BY <1>1, <1>2 DEF HoldsNothing, InOrder
<1>3. CASE ReserveNew(s)
  <2>1. HoldsNothing(s)'
    BY <1>3 DEF ReserveNew, In, Sane, LockInv, Holding, HoldsNothing, Has
  <2> QED
    BY <1>2, <2>1
<1>4. CASE LookAndLock(s)
  <2>1. HoldsNothing(s) /\ owner' = [owner EXCEPT ![Id(s)] = {s}] /\ Id(s) \in Ids
    BY <1>4 DEF LookAndLock, Sane, LockInv, Holding, Typed, Transactions, Id
  <2>2. \A r \in Rows : ~ Has(s, r)'
    BY <2>1, RowsAssumption
    DEF HoldsNothing, Has, Rows, Resources, Sane, Typed, Locks
  <2> QED
    BY <1>1, <2>2 DEF InOrder
<1>5. CASE ReadClock(s) \/ Decide(s)
  <2>1. /\ tx'[s].op = tx[s].op /\ tx'[s].q = tx[s].q /\ tx'[s].id = tx[s].id
        /\ owner' = owner /\ UNCHANGED tables
    BY <1>5 DEF ReadClock, Decide, Sane, Typed, Transactions, TxType
  <2>2. Goal(s)' = Goal(s)
    BY <2>1 DEF Goal, Wants, Ledger!Details, Id, tables
  <2> QED
    BY <2>1, <2>2, OrderKept DEF Has, tables
<1> QED
  BY <1>2, <1>3, <1>4, <1>5, LockOrders, StartsEmpty
  DEF Step, Rollback, ReserveKnown, Refuse, Grant, LookInVain, Settle, Release, Renew,
      Sane, LockInv

LEMMA OrderAlways == Spec => []LockOrder
<1>1. Init => LockOrder
  BY DEF Init, LockOrder, InOrder, Goal, NoTransaction, Doing
<1>2. Sane /\ Sane' /\ LockOrder /\ [Next]_vars => LockOrder'
  <2> SUFFICES ASSUME Sane, Sane', LockOrder, [Next]_vars, NEW t \in Sessions
               PROVE  InOrder(t)'
    BY DEF LockOrder
  <2>1. ASSUME NEW s \in Sessions, Step(s) PROVE InOrder(t)'
    BY <2>1, OthersOrder, OwnOrder DEF LockOrder
  <2>2. CASE Tick \/ UNCHANGED vars
    <3>1. UNCHANGED <<tx, owner, request, present>>
      BY <2>2 DEF Tick, vars, tables
    <3>2. Goal(t)' = Goal(t)
      BY <3>1 DEF Goal, Wants, Ledger!Details, Id
    <3> QED
      BY <3>1, <3>2, OrderKept DEF Has, LockOrder
  <2> QED
    BY <2>1, <2>2 DEF Next
<1> QED
  BY <1>1, <1>2, SaneAlways, PTL DEF Spec

(* Of finitely many sessions, one waits for a row that is the last of      *)
(* those waited for.                                                       *)
LEMMA LastNeeded ==
  ASSUME NEW op, NEW S \in SUBSET Sessions, S # {}, NEW next \in [S -> Nat]
  PROVE  \E s \in S : \A t \in S : ~ Earlier(op, next[s], next[t])
<1> DEFINE Later(s) == {t \in S : Earlier(op, next[s], next[t])}
           Sizes == {Cardinality(Later(s)) : s \in S}
<1>1. IsFiniteSet(S)
  BY SessionsAssumption, FS_Subset
<1>2. ASSUME NEW s \in S PROVE IsFiniteSet(Later(s)) /\ Cardinality(Later(s)) \in Nat
  <2>1. IsFiniteSet(Later(s))
    BY <1>1, FS_Subset
  <2> QED
    BY <2>1, FS_CardinalityType
<1>3. \A s, t \in S : t \in Later(s) <=> Earlier(op, next[s], next[t])
  OBVIOUS
<1>4. Sizes \in SUBSET Nat /\ Sizes # {}
  BY <1>2
<1>5. \A s \in S : Cardinality(Later(s)) \in Sizes
  OBVIOUS
<1>6. PICK n \in Sizes : \A m \in Sizes : n <= m
  BY <1>4, LeastOf
<1>7. PICK s \in S : n = Cardinality(Later(s))
  BY <1>6
<1>8. ASSUME NEW t \in S, Earlier(op, next[s], next[t]) PROVE FALSE
  <2>1. Later(t) \subseteq Later(s)
    BY <1>8, Ordered
  <2>2. t \in Later(s) /\ t \notin Later(t)
    BY <1>8, Ordered
  <2> HIDE DEF Later, Sizes
  <2>3. /\ Cardinality(Later(t)) <= Cardinality(Later(s))
        /\ Cardinality(Later(t)) = Cardinality(Later(s)) => Later(t) = Later(s)
    BY <1>2, <2>1, FS_Subset
  <2>4. Cardinality(Later(s)) <= Cardinality(Later(t))
    BY <1>5, <1>6, <1>7
  <2> QED
    BY <1>2, <2>2, <2>3, <2>4
<1> QED
  BY <1>7, <1>8

(* A session that waits holds, besides the row of its id, rows of its goal.*)
LEMMA HoldsGoals ==
  ASSUME Sane, NEW s \in Sessions, Needs(s) # {}, NEW r \in Rows, Has(s, r)
  PROVE  r \in Goal(s)
<1>1. tx[s].op \in {"reserve", "settle"} /\ tx[s].stage # "look" /\ r \in Resources
  BY NeedsFirst DEF Rows, Resources
<1>2. CASE tx[s].op = "reserve"
  BY <1>1, <1>2 DEF Sane, LockInv, Holding, ReserveHolds, Goal
<1>3. CASE tx[s].op = "settle"
  <2>1. r # Id(s)
    BY <1>1, <1>3, RowsAssumption DEF Rows, Id, Sane, Typed, Transactions
  <2> QED
    BY <1>1, <1>3, <2>1
    DEF Sane, LockInv, Holding, Takes, SettleHolds, Goal, Ledger!On, Ledger!Details
<1> QED
  BY <1>1, <1>2, <1>3

LEMMA OneKindMoves ==
  ASSUME Sane, LockOrder, NEW S \in SUBSET Sessions, Deadlocked(S),
         NEW op, \A s \in S : tx[s].op = op
  PROVE  FALSE
<1> DEFINE next == [s \in S |-> CHOOSE r \in Needs(s) : TRUE]
<1>1. \A s \in S : next[s] \in Needs(s)
  BY DEF Deadlocked, Blocked
<1> HIDE DEF next
<1>2. ASSUME NEW s \in S
      PROVE  /\ next[s] \in Goal(s) /\ next[s] \in Rows /\ next[s] \in Nat
             /\ ~ Has(s, next[s])
             /\ \E u \in S : Has(u, next[s])
  <2>1. next[s] \in Needs(s)
    BY <1>1
  <2>2. next[s] \in Goal(s) /\ ~ Has(s, next[s])
    BY <2>1, NeedsFirst
  <2>3. owner[next[s]] # {} /\ owner[next[s]] \subseteq S
    BY <2>1 DEF Deadlocked, Blocked
  <2> QED
    BY <2>2, <2>3, GoalRows DEF Has
<1>3. S # {} /\ next \in [S -> Nat]
  BY <1>2 DEF Deadlocked, next
<1>4. PICK s \in S : \A t \in S : ~ Earlier(op, next[s], next[t])
  BY <1>3, LastNeeded
<1>5. PICK u \in S : Has(u, next[s])
  BY <1>2
<1>6. next[s] \in Goal(u)
  BY <1>1, <1>2, <1>5, HoldsGoals
<1>7. ~ Earlier(op, next[u], next[s])
  BY <1>2, <1>5, <1>6 DEF LockOrder, InOrder
<1>8. next[u] # next[s]
  BY <1>2, <1>5
<1> QED
  BY <1>2, <1>4, <1>7, <1>8, Ordered

(* Sessions that wait only for one another include a reserve and a         *)
(* settlement: sorted locking excludes any other deadlock, whatever the    *)
(* number of sessions and rows, and whichever rows are still to be         *)
(* inserted.                                                               *)
THEOREM OneKindNeverDeadlocks == Spec => []DeadlocksMix
<1>1. Sane /\ LockOrder => DeadlocksMix
  <2> SUFFICES ASSUME Sane, LockOrder, NEW S \in SUBSET Sessions, Deadlocked(S)
               PROVE  {"reserve", "settle"} \subseteq {tx[s].op : s \in S}
    BY DEF DeadlocksMix
  <2>1. \A s \in S : tx[s].op \in {"reserve", "settle"}
    BY NeedsFirst DEF Deadlocked, Blocked
  <2>2. ~ (\A s \in S : tx[s].op = "settle") /\ ~ (\A s \in S : tx[s].op = "reserve")
    BY OneKindMoves
  <2> QED
    BY <2>1, <2>2
<1> QED
  BY <1>1, SaneAlways, OrderAlways, PTL

=============================================================================
