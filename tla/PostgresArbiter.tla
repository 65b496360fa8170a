--------------------------- MODULE PostgresArbiter ---------------------------
(***************************************************************************)
(* The exact arbiter of PostgresStore, one SQL statement after another.    *)
(* Its transactions are not serialized: they run READ COMMITTED and rely   *)
(* on row locks, taken with FOR UPDATE, by INSERT ... ON CONFLICT and by   *)
(* UPDATE, and held until the transaction ends.  A plain SELECT takes no   *)
(* lock and sees what has been committed when it runs.                     *)
(*                                                                         *)
(* A session is a connection in the server: it outlives a client that has  *)
(* lost it, so a client's second try may run beside its first.  As in      *)
(* KVArbiter the clients are arbitrary.                                    *)
(*                                                                         *)
(* Detail rows (pollard_reservations) are only written under the lock of   *)
(* their pollard_reservation_state row and in the same transaction, so     *)
(* the two are one here: details exist while the state is "active".  The   *)
(* writes of a transaction are applied when it commits; until then they    *)
(* are to rows that no one else may read or that are locked.  A reserve    *)
(* reads the rows it decides on at the instant it reads the clock: what    *)
(* commits between these reads could as well have committed before them.   *)
(***************************************************************************)
EXTENDS Totals

CONSTANTS
  Sessions,    \* connections
  NoId,        \* the id of an idle session
  Ids, Meters, Keys, Windows, MeterOf, Limit, Span, Lease, MaxTime, Requests, Charges

(* As in KVArbiter, but that windows are numbered too: ledger keys are     *)
(* locked in sorted order.                                                 *)
ASSUME RowsAssumption ==
  /\ Keys \cup Windows \subseteq Nat
  /\ Keys \cap Windows = {}
  /\ Ids \cap (Keys \cup Windows) = {}
  /\ MeterOf \in [Keys \cup Windows -> Meters]
  /\ Limit \in [Keys \cup Windows -> Nat]
  /\ Span \in [Windows -> Nat \ {0}]
ASSUME LeaseAssumption == Lease \in Nat \ {0}
ASSUME SessionsAssumption ==
  /\ IsFiniteSet(Sessions) /\ IsFiniteSet(Ids)
  /\ NoId \notin Ids
  /\ Requests \subseteq [keys : SUBSET Keys, wins : SUBSET Windows,
                         est : [Meters -> Nat], base : [Keys -> Nat]]
  /\ Charges \subseteq [Meters -> Nat]

VARIABLES
  now, state, request, expires, paid, completed, budget, present, events,
           \* the tables of KVArbiter, as committed
  tx,      \* session -> the transaction it is in
  owner,   \* row -> the sessions that hold its lock: none or one
  ended,   \* history: when a settlement committed
  revived  \* history: the reservations a renewal reached after their expiry

(* The same tables; what is read of them and promised about them. *)
Ledger == INSTANCE KVArbiter

tables == <<state, request, expires, paid, completed, budget, present, events>>
history == <<ended, revived>>
vars == <<now, tables, tx, owner, history>>

Resources == Ids \cup Keys \cup Windows
Operations == {"none", "reserve", "settle", "release", "renew"}
Stages == {"look", "locking", "timed"}
Verdicts == {"none", "grant", "budget", "window"}

Doing(op, i) == [op |-> op, id |-> i, q |-> Ledger!NoRequest, ch |-> Ledger!NoCharge,
                 stage |-> "look", time |-> 0, verdict |-> "none", reach |-> {}]
NoTransaction == Doing("none", NoId)

TypeOK ==
  /\ Ledger!TypeOK
  /\ tx \in [Sessions -> [op : Operations, id : Ids \cup {NoId}, q : Ledger!RequestType,
                          ch : Ledger!ChargeType, stage : Stages, time : Nat,
                          verdict : Verdicts, reach : SUBSET (Keys \cup Windows)]]
  /\ owner \in [Resources -> SUBSET Sessions]
  /\ ended \in [Ids -> Nat]
  /\ revived \subseteq Ids
  /\ \A r \in Resources : Cardinality(owner[r]) <= 1
  /\ \A s \in Sessions : tx[s].time <= now

Init ==
  /\ Ledger!Init
  /\ tx = [s \in Sessions |-> NoTransaction]
  /\ owner = [r \in Resources |-> {}]
  /\ ended = [i \in Ids |-> 0]
  /\ revived = {}

-----------------------------------------------------------------------------
(* Transactions and locks.                                                 *)

In(s, op, stage) == tx[s].op = op /\ tx[s].stage = stage
Id(s) == tx[s].id
Free(s, r) == owner[r] \subseteq {s}
Owned(s) == {r \in Resources : owner[r] = {s}}

(* Commit or roll back: the locks are given up. *)
End(s) ==
  /\ tx' = [tx EXCEPT ![s] = NoTransaction]
  /\ owner' = [r \in Resources |-> owner[r] \ {s}]

Begin(s, t) ==
  /\ tx[s].op = "none"
  /\ tx' = [tx EXCEPT ![s] = t]
  /\ UNCHANGED <<now, tables, owner, history>>

BeginReserve(s, i, q) == Begin(s, [Doing("reserve", i) EXCEPT !.q = q])
BeginSettle(s, i, ch) == Begin(s, [Doing("settle", i) EXCEPT !.ch = ch])
BeginRelease(s, i) == Begin(s, Doing("release", i))
BeginRenew(s, i) == Begin(s, Doing("renew", i))

(* A connection fails, a constraint is violated or a deadlock is broken:   *)
(* nothing was written.                                                    *)
Rollback(s) ==
  /\ tx[s].op # "none"
  /\ End(s)
  /\ UNCHANGED <<now, tables, history>>

Unordered(s, S) == S \ Owned(s)
(* The rows of S are locked one after another in the order the code sorts. *)
Unlocked(s, S) == {r \in S \ Owned(s) : \A o \in S \ Owned(s) : r <= o}
FirstOf(S, T) == IF S # {} THEN S ELSE T

ReserveSkipsBudgets(s) ==
  IF tx[s].stage = "locking" THEN Unlocked(s, tx[s].q.wins) ELSE {}
(* A reserve inserts the budget rows that are missing, locks all of them,  *)
(* then the windows.  An inserted row is locked until the insert commits.  *)
ReserveNeeds(s) ==
  LET keys == tx[s].q.keys
  IN  IF tx[s].stage # "locking" THEN {}
      ELSE FirstOf(Unlocked(s, keys \ present),
             FirstOf(Unlocked(s, keys), Unlocked(s, tx[s].q.wins)))

SettleSkipsWindows(s) ==
  IF tx[s].stage = "timed" THEN Unlocked(s, request[Id(s)].keys) ELSE {}
(* A settle locks its windows, reads the clock, and only then locks, by    *)
(* updating them, its budget rows.                                         *)
SettleNeeds(s) ==
  CASE tx[s].stage = "locking" -> Unlocked(s, request[Id(s)].wins)
    [] tx[s].stage = "timed" -> Unlocked(s, request[Id(s)].keys)
    [] OTHER -> {}

(* The rows the session is about to lock. *)
Needs(s) ==
  CASE tx[s].op = "reserve" -> ReserveNeeds(s)
    [] tx[s].op = "settle" -> SettleNeeds(s)
    [] OTHER -> {}

Lock(s) ==
  \E r \in Needs(s) :
    /\ Free(s, r)
    /\ owner' = [owner EXCEPT ![r] = {s}]
    /\ UNCHANGED <<now, tables, tx, history>>

DatabaseTime == now

(* The clock is read once the locks of the stage are held. *)
ReadClock(s) ==
  /\ tx[s].op \in {"settle", "release", "renew"}
  /\ tx[s].stage = "locking"
  /\ Needs(s) = {}
  /\ tx' = [tx EXCEPT ![s].stage = "timed", ![s].time = DatabaseTime]
  /\ UNCHANGED <<now, tables, owner, history>>

-----------------------------------------------------------------------------
(* _pollard_reserve_once.                                                  *)

(* A known id: once its row is unlocked, reply; nothing is written. *)
ReserveKnown(s) ==
  /\ In(s, "reserve", "look")
  /\ state[Id(s)] # "none"
  /\ Free(s, Id(s))
  /\ End(s)
  /\ UNCHANGED <<now, tables, history>>

(* There is no row to lock, even if another session is about to insert it. *)
ReserveNew(s) ==
  /\ In(s, "reserve", "look")
  /\ state[Id(s)] = "none"
  /\ tx' = [tx EXCEPT ![s].stage = "locking"]
  /\ UNCHANGED <<now, tables, owner, history>>

SyncedToBaseline(q, k) == q.base[k]
(* A missing row was inserted with the baseline. *)
Synced(q, k) == IF k \in present THEN Ledger!Synced(q, k) ELSE q.base[k]

LiveAt(i, t) == state[i] = "active" /\ expires[i] > t
HeldAt(r, t) == Total({i \in Ids : LiveAt(i, t) /\ Ledger!On(i, r)}, Ledger!Estimates(r))
RecentAt(w, t) == {i \in Ids : <<i, w>> \in events /\ completed[i] > t - Span[w]}

Fits(q, t, k) == q.est[MeterOf[k]] <= Limit[k] - Synced(q, k) - HeldAt(k, t)
FitsWindow(q, t, w) ==
  q.est[MeterOf[w]] <= Limit[w] - Total(RecentAt(w, t), Ledger!Bills(w)) - HeldAt(w, t)

Overdrawn(q, t) == {k \in q.keys : ~ Fits(q, t, k)}
Crowded(q, t) == {w \in q.wins : ~ FitsWindow(q, t, w)}

Verdict(q, t) == IF Overdrawn(q, t) # {} THEN "budget"
                 ELSE IF Crowded(q, t) # {} THEN "window"
                 ELSE "grant"

(* The rows the loops reach: up to the first that refuses. *)
Reach(q, t) ==
  {k \in q.keys : \A j \in Overdrawn(q, t) : k <= j}
    \cup {w \in q.wins : Overdrawn(q, t) = {} /\ \A v \in Crowded(q, t) : w <= v}

Decide(s) ==
  LET q == tx[s].q
      t == DatabaseTime
  IN  /\ In(s, "reserve", "locking")
      /\ Needs(s) = {}
      /\ tx' = [tx EXCEPT ![s].stage = "timed", ![s].time = t,
                          ![s].verdict = Verdict(q, t), ![s].reach = Reach(q, t)]
      /\ UNCHANGED <<now, tables, owner, history>>

Decided(s, verdict) == In(s, "reserve", "timed") /\ tx[s].verdict = verdict

(* The rows reached are raised to the baseline, and the missing ones were  *)
(* inserted with it.  The old events of the windows reached are deleted.   *)
SyncRows(s) ==
  LET q == tx[s].q
  IN  /\ budget' = [k \in Keys |-> IF k \in tx[s].reach \cup (q.keys \ present)
                                   THEN Synced(q, k) ELSE budget[k]]
      /\ present' = present \cup q.keys
Purged(s) ==
  {e \in events : e[2] \in tx[s].reach => completed[e[1]] > tx[s].time - Span[e[2]]}

Refuse(s) ==
  /\ Decided(s, "budget") \/ Decided(s, "window")
  /\ SyncRows(s)
  /\ events' = Purged(s)
  /\ End(s)
  /\ UNCHANGED <<now, state, request, expires, paid, completed, history>>

(* The id must still be new: its insert violates the primary key if not,   *)
(* and the transaction rolls back.                                         *)
Grant(s) ==
  LET i == Id(s)
  IN  /\ Decided(s, "grant")
      /\ state[i] = "none"
      /\ SyncRows(s)
      /\ events' = Purged(s)
      /\ state' = [state EXCEPT ![i] = "active"]
      /\ request' = [request EXCEPT ![i] = tx[s].q]
      /\ expires' = [expires EXCEPT ![i] = tx[s].time + Lease]
      /\ End(s)
      /\ UNCHANGED <<now, paid, completed, history>>

-----------------------------------------------------------------------------
(* _pollard_settle_once, _pollard_release_once and _pollard_renew begin by *)
(* locking the row of the id.                                              *)

ActiveOrSettled(i) == state[i] \in {"active", "settled"}
(* What a settle, a release and a renewal need to go on. *)
Active(i) == state[i] = "active"

(* An unknown or ended reservation: a reply or an error, nothing written. *)
LookInVain(s) ==
  /\ tx[s].op \in {"settle", "release", "renew"}
  /\ tx[s].stage = "look"
  /\ Free(s, Id(s))
  /\ ~ Active(Id(s)) \/ (tx[s].op = "settle" /\ Ledger!Details(Id(s)) = {})
  /\ End(s)
  /\ UNCHANGED <<now, tables, history>>

LookAndLock(s) ==
  /\ tx[s].op \in {"settle", "release", "renew"}
  /\ tx[s].stage = "look"
  /\ Free(s, Id(s))
  /\ Active(Id(s))
  /\ tx[s].op = "settle" => Ledger!Details(Id(s)) # {}
  /\ owner' = [owner EXCEPT ![Id(s)] = {s}]
  /\ tx' = [tx EXCEPT ![s].stage = "locking"]
  /\ UNCHANGED <<now, tables, history>>

Settle(s) ==
  LET i == Id(s)
      ch == tx[s].ch
  IN  /\ In(s, "settle", "timed")
      /\ Needs(s) = {}
      /\ budget' = Ledger!SettledBudget(i, ch)
      /\ events' = Ledger!SettledEvents(i, ch)
      /\ state' = [state EXCEPT ![i] = "settled"]
      /\ paid' = [paid EXCEPT ![i] = ch]
      /\ completed' = [completed EXCEPT ![i] = tx[s].time]
      /\ ended' = [ended EXCEPT ![i] = now]
      /\ End(s)
      /\ UNCHANGED <<now, request, expires, present, revived>>

Release(s) ==
  /\ In(s, "release", "timed")
  /\ state' = [state EXCEPT ![Id(s)] = "released"]
  /\ completed' = [completed EXCEPT ![Id(s)] = tx[s].time]
  /\ End(s)
  /\ UNCHANGED <<now, request, expires, paid, budget, present, events, history>>

(* The expiry is compared with the clock read under the row's own lock. *)
Renews(i, t) == expires[i] > t

Renew(s) ==
  LET i == Id(s)
      t == tx[s].time
  IN  /\ In(s, "renew", "timed")
      /\ expires' = IF Renews(i, t) THEN [expires EXCEPT ![i] = t + Lease] ELSE expires
      /\ revived' = IF Renews(i, t) /\ expires[i] <= now THEN revived \cup {i} ELSE revived
      /\ End(s)
      /\ UNCHANGED <<now, state, request, paid, completed, budget, present, events, ended>>

Tick ==
  /\ now < MaxTime
  /\ now' = now + 1
  /\ UNCHANGED <<tables, tx, owner, history>>

Step(s) ==
  \/ \E i \in Ids, q \in Requests : BeginReserve(s, i, q)
  \/ \E i \in Ids, ch \in Charges : BeginSettle(s, i, ch)
  \/ \E i \in Ids : BeginRelease(s, i) \/ BeginRenew(s, i)
  \/ Lock(s) \/ ReadClock(s) \/ Rollback(s)
  \/ ReserveKnown(s) \/ ReserveNew(s)
  \/ Decide(s) \/ Refuse(s) \/ Grant(s)
  \/ LookInVain(s) \/ LookAndLock(s)
  \/ Settle(s) \/ Release(s) \/ Renew(s)

Next == Tick \/ \E s \in Sessions : Step(s)

Spec == Init /\ [][Next]_vars

-----------------------------------------------------------------------------
(* Properties.                                                             *)

Payers(k) == Ledger!Payers(k)
(* A settlement took a row after the reservation's lease on it had ended:  *)
(* by the time it committed, or because a renewal came too late.           *)
Overtook(i, r) ==
  \/ i \in revived
  \/ IF r \in Keys THEN expires[i] <= ended[i] ELSE expires[i] <= completed[i]
Beyond(r) ==
  [i \in Ids |-> IF Overtook(i, r) THEN paid[i][MeterOf[r]] ELSE Ledger!Excess(i, r)]
Held(r) == Total({i \in Ids \ revived : LiveAt(i, now) /\ Ledger!On(i, r)},
                 Ledger!Estimates(r))

(* With transactions interleaved lock by lock, what is settled and held    *)
(* stays within the limit up to overshoot, but for what a lease that ended *)
(* while a transaction waited takes twice: locks alone exclude the rest.   *)
CapacityBound ==
  \A k \in Keys : Ledger!Paid(k) + Held(k) <= Limit[k] + Total(Payers(k), Beyond(k))

(* A window is locked before the settlement reads the clock, so its bound  *)
(* needs no such excuse for a settlement, only for a late renewal.         *)
WindowBound ==
  \A w \in Windows :
    Ledger!WindowSettled(w) + Held(w) <= Limit[w] + Total(Ledger!Recent(w), Beyond(w))

(* Concurrent settlements and baseline syncs of one row lose no charge and *)
(* count none twice, whichever transaction waits for whom.                 *)
ChargedExactlyOnce == Ledger!ChargedExactlyOnce
LedgerCoversCharges == Ledger!LedgerCoversCharges

(* A settled or released reservation stays so: a second transaction for    *)
(* the same id, of a client that lost the first, changes nothing.          *)
TombstonesPermanent ==
  [][\A i \in Ids : state[i] \in {"settled", "released"} =>
       /\ state'[i] = state[i]
       /\ paid'[i] = paid[i]
       /\ completed'[i] = completed[i]]_vars

(* Sessions that wait only for one another: a deadlock the server breaks.  *)
Blocked(s, S) ==
  Needs(s) # {} /\ \A r \in Needs(s) : owner[r] # {} /\ owner[r] \subseteq S \ {s}
Deadlocked(S) == S # {} /\ \A s \in S : Blocked(s, S)

(* Sorted locking keeps reserves from deadlocking with reserves, and       *)
(* settlements with settlements; only the two kinds together can, since    *)
(* one locks budgets before windows and the other after.                   *)
DeadlocksMix ==
  \A S \in SUBSET Sessions : Deadlocked(S) =>
    {"reserve", "settle"} \subseteq {tx[s].op : s \in S}

(* docs/scale-out.md:122: settled spend is bounded by the budget plus the  *)
(* overshoot, at least where every settlement is stamped before the expiry *)
(* of its lease.                                                           *)
StampedInTime(k) == {i \in Payers(k) : completed[i] < expires[i]}
OnTimeSpendBounded ==
  \A k \in Keys : Total(StampedInTime(k), Ledger!Bills(k))
                    <= Limit[k] + Total(StampedInTime(k), Ledger!Excesses(k))

(* docs/postgres-operations.md:126: "Repeating the same reserve request    *)
(* returns the existing active reservation", here that it is not refused.  *)
RepeatReturnsGrant ==
  \A s \in Sessions :
    (Decided(s, "budget") \/ Decided(s, "window"))
      => ~ (LiveAt(Id(s), tx[s].time) /\ request[Id(s)] = tx[s].q)
=============================================================================
