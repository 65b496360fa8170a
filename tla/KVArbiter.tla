------------------------------ MODULE KVArbiter ------------------------------
(***************************************************************************)
(* The exact arbiter of the transactional key/value stores (Redis,         *)
(* MongoDB, Neo4j): reserve, settle, release and renew, each of which is   *)
(* one serialized write transaction that reads the server's clock.         *)
(*                                                                         *)
(* The clients are arbitrary: any operation may be called with any         *)
(* reservation id, request or charges in any order.  That covers every     *)
(* retry after a lost acknowledgement, every duplicate and every late or   *)
(* reordered call, whatever the runtime does between them.                 *)
(*                                                                         *)
(* A row is a budget row (scope, meter) or a window ledger.  Amounts are   *)
(* natural numbers of the row's smallest unit.                             *)
(***************************************************************************)
EXTENDS Totals

CONSTANTS
  Ids,         \* reservation ids: one uuid per governed call
  Meters,      \* meter names; "depth" is never reserved
  Keys,        \* budget rows, numbered in the order the code sorts them
  Windows,     \* window ledger keys
  MeterOf,     \* the meter a row counts
  Limit,       \* the limit of a row
  Span,        \* window_seconds of a window
  Lease,       \* lease_seconds of every request
  MaxTime,     \* bound: the server clock stops here
  Requests,    \* the requests clients make
  Charges      \* the charges clients settle

Rows == Keys \cup Windows

(* budgets and windows of one _pollard_reserve call, with its estimates    *)
(* and the baseline its caller read from the tree.                         *)
RequestType == [keys : SUBSET Keys, wins : SUBSET Windows,
                est : [Meters -> Nat], base : [Keys -> Nat]]
ChargeType == [Meters -> Nat]

ASSUME RowsAssumption ==
  /\ Keys \subseteq Nat
  /\ Keys \cap Windows = {}
  /\ MeterOf \in [Rows -> Meters]
  /\ Limit \in [Rows -> Nat]
  /\ Span \in [Windows -> Nat \ {0}]
ASSUME LeaseAssumption == Lease \in Nat \ {0}
ASSUME ClientsAssumption ==
  /\ IsFiniteSet(Ids)
  /\ Requests \subseteq RequestType
  /\ Charges \subseteq ChargeType

VARIABLES
  now,         \* server time
  state,       \* reservation id -> "none", or the state stored with it
  request,     \* its request: what its details and request digest record
  expires,     \* its expires_at
  paid,        \* the charges it was settled with
  completed,   \* its completed_at
  budget,      \* budget row -> the settled amount stored for it
  present,     \* the budget rows that are stored
  events       \* window events: <<id, window>>, stamped completed[id]

reservations == <<state, request, expires, paid, completed>>
ledger == <<budget, present>>
vars == <<now, reservations, ledger, events>>

States == {"none", "active", "settled", "released"}
NoCharge == [m \in Meters |-> 0]
NoRequest == [keys |-> {}, wins |-> {}, est |-> NoCharge, base |-> [k \in Keys |-> 0]]

TypeOK ==
  /\ now \in Nat
  /\ state \in [Ids -> States]
  /\ request \in [Ids -> RequestType]
  /\ expires \in [Ids -> Nat]
  /\ paid \in [Ids -> ChargeType]
  /\ completed \in [Ids -> Nat]
  /\ budget \in [Keys -> Nat]
  /\ present \in SUBSET Keys
  /\ events \in SUBSET (Ids \X Windows)

Init ==
  /\ now = 0
  /\ state = [i \in Ids |-> "none"]
  /\ request = [i \in Ids |-> NoRequest]
  /\ expires = [i \in Ids |-> 0]
  /\ paid = [i \in Ids |-> NoCharge]
  /\ completed = [i \in Ids |-> 0]
  /\ budget = [k \in Keys |-> 0]
  /\ present = {}
  /\ events = {}

-----------------------------------------------------------------------------
(* What the transactions read.                                             *)

(* The rows its details name. *)
Details(i) == request[i].keys \cup request[i].wins
On(i, r) == r \in Details(i)

LiveWhileActive(i) == state[i] = "active"
(* A reservation holds capacity while it is active and unexpired. *)
Live(i) == state[i] = "active" /\ expires[i] > now

(* What the live reservations hold of a row. *)
Holders(r) == {i \in Ids : Live(i) /\ On(i, r)}
Estimates(r) == [i \in Ids |-> request[i].est[MeterOf[r]]]
Held(r) == Total(Holders(r), Estimates(r))

Bills(r) == [i \in Ids |-> paid[i][MeterOf[r]]]

(* A settlement counts against a window until it is Span old. *)
InWindow(i, w) == completed[i] > now - Span[w]
Recent(w) == {i \in Ids : <<i, w>> \in events /\ InWindow(i, w)}
WindowSettled(w) == Total(Recent(w), Bills(w))

Larger(a, b) == IF a > b THEN a ELSE b

(* The stored amount of a row, raised to the caller's tree baseline. *)
Synced(q, k) == Larger(budget[k], q.base[k])

FitsAlone(q, k) == q.est[MeterOf[k]] <= Limit[k] - Synced(q, k)
FitsWindowAlone(q, w) == q.est[MeterOf[w]] <= Limit[w] - WindowSettled(w)
Fits(q, k) == q.est[MeterOf[k]] <= Limit[k] - Synced(q, k) - Held(k)
FitsWindow(q, w) == q.est[MeterOf[w]] <= Limit[w] - WindowSettled(w) - Held(w)

Overdrawn(q) == {k \in q.keys : ~ Fits(q, k)}
Crowded(q) == {w \in q.wins : ~ FitsWindow(q, w)}

PurgedEarly == {e \in events : completed[e[1]] > now - Span[e[2]] + 1}
(* The events a reserve keeps; the others are deleted. *)
Purged == {e \in events : InWindow(e[1], e[2])}

-----------------------------------------------------------------------------
(* _reserve_once.                                                          *)

(* The rows the loop reaches: all of them, or those up to the first that   *)
(* refuses.  Each is created or raised to the baseline, refused or not.    *)
Visited(q) == {k \in q.keys : \A j \in Overdrawn(q) : k <= j}
SyncRows(q) ==
  /\ budget' = [k \in Keys |-> IF k \in Visited(q) THEN Synced(q, k) ELSE budget[k]]
  /\ present' = present \cup Visited(q)

RefuseByBudget(i, q) ==
  /\ state[i] = "none"
  /\ Overdrawn(q) # {}
  /\ SyncRows(q)
  /\ UNCHANGED <<now, reservations, events>>

RefuseByWindow(i, q) ==
  /\ state[i] = "none"
  /\ Overdrawn(q) = {}
  /\ Crowded(q) # {}
  /\ SyncRows(q)
  /\ events' = Purged
  /\ UNCHANGED <<now, reservations>>

Expiry == now + Lease

Grant(i, q) ==
  /\ state[i] = "none"
  /\ Overdrawn(q) = {}
  /\ Crowded(q) = {}
  /\ SyncRows(q)
  /\ events' = Purged
  /\ state' = [state EXCEPT ![i] = "active"]
  /\ request' = [request EXCEPT ![i] = q]
  /\ expires' = [expires EXCEPT ![i] = Expiry]
  /\ UNCHANGED <<now, paid, completed>>

(* A known id changes nothing: the reply says whether the grant stands. *)
RetryReserve(i, q) == state[i] # "none" /\ UNCHANGED vars

ReplyByCapacity(i, q) ==
  IF Overdrawn(q) # {} THEN "budget" ELSE IF Crowded(q) # {} THEN "window" ELSE "ok"
ReserveReply(i, q) ==
  IF state[i] = "none" THEN ReplyByCapacity(i, q)
  ELSE IF request[i] = q /\ Live(i) THEN "ok" ELSE "IntegrityError"

Reserve(i, q) ==
  RetryReserve(i, q) \/ RefuseByBudget(i, q) \/ RefuseByWindow(i, q) \/ Grant(i, q)

-----------------------------------------------------------------------------
(* _settle_once: an expired reservation still settles, since the provider  *)
(* has been paid.                                                          *)

CanSettleAgain(i) == state[i] \in {"active", "settled"} /\ request[i].keys \subseteq present
CanSettle(i) ==
  /\ state[i] = "active"
  /\ Details(i) # {}
  /\ request[i].keys \subseteq present

SettledOnFirstRow(i, ch) ==
  [k \in Keys |-> IF k \in request[i].keys /\ \A j \in request[i].keys : k <= j
                  THEN budget[k] + ch[MeterOf[k]] ELSE budget[k]]
SettledByReplacing(i, ch) ==
  [k \in Keys |-> IF k \in request[i].keys THEN ch[MeterOf[k]] ELSE budget[k]]
SettledBudget(i, ch) ==
  [k \in Keys |-> IF k \in request[i].keys THEN budget[k] + ch[MeterOf[k]]
                                           ELSE budget[k]]
SettledEvents(i, ch) ==
  events \cup {<<i, w>> : w \in {v \in request[i].wins : ch[MeterOf[v]] # 0}}

SettleActive(i, ch) ==
  /\ CanSettle(i)
  /\ budget' = SettledBudget(i, ch)
  /\ events' = SettledEvents(i, ch)
  /\ state' = [state EXCEPT ![i] = "settled"]
  /\ paid' = [paid EXCEPT ![i] = ch]
  /\ completed' = [completed EXCEPT ![i] = now]
  /\ UNCHANGED <<now, present, request, expires>>

RetrySettle(i, ch) == ~ CanSettle(i) /\ UNCHANGED vars

SettleReply(i, ch) ==
  IF CanSettle(i) \/ (state[i] = "settled" /\ paid[i] = ch) THEN "ok" ELSE "IntegrityError"

Settle(i, ch) == SettleActive(i, ch) \/ RetrySettle(i, ch)

-----------------------------------------------------------------------------
(* _release_once and _pollard_renew.                                       *)

CanReleaseSettled(i) == state[i] \in {"active", "settled"}
CanRelease(i) == state[i] = "active"

Release(i) ==
  \/ /\ CanRelease(i)
     /\ state' = [state EXCEPT ![i] = "released"]
     /\ completed' = [completed EXCEPT ![i] = now]
     /\ UNCHANGED <<now, request, expires, paid, ledger, events>>
  \/ /\ ~ CanRelease(i)
     /\ UNCHANGED vars

CanRenewExpired(i) == state[i] = "active"
CanRenew(i) == Live(i)

Renew(i) ==
  \/ /\ CanRenew(i)
     /\ expires' = [expires EXCEPT ![i] = Expiry]
     /\ UNCHANGED <<now, state, request, paid, completed, ledger, events>>
  \/ /\ ~ CanRenew(i)
     /\ UNCHANGED vars

Tick ==
  /\ now < MaxTime
  /\ now' = now + 1
  /\ UNCHANGED <<reservations, ledger, events>>

-----------------------------------------------------------------------------
Next ==
  \/ \E i \in Ids, q \in Requests : Reserve(i, q)
  \/ \E i \in Ids, ch \in Charges : Settle(i, ch)
  \/ \E i \in Ids : Release(i) \/ Renew(i)
  \/ Tick

Spec == Init /\ [][Next]_vars

-----------------------------------------------------------------------------
(* Properties.                                                             *)

(* Settled late: after its capacity was given back to the others. *)
Late(i) == expires[i] <= completed[i]
(* What a settlement may take beyond what was still held for it: actual    *)
(* minus estimate, or everything once the lease had expired.               *)
Excess(i, r) ==
  LET actual == paid[i][MeterOf[r]]
      estimate == request[i].est[MeterOf[r]]
  IN  IF Late(i) THEN actual ELSE Larger(0, actual - estimate)
Excesses(r) == [i \in Ids |-> Excess(i, r)]

Payers(k) == {i \in Ids : state[i] = "settled" /\ k \in request[i].keys}
Paid(k) == Total(Payers(k), Bills(k))

(* The abstract promise, with expiry as the lapse of a call. *)
Status(i) == IF state[i] # "active" THEN state[i] ELSE IF Live(i) THEN "held" ELSE "lapsed"
Promise == INSTANCE SharedAllowance WITH
  status <- [i \in Ids |-> Status(i)], claim <- request, bill <- paid, spent <- budget

(* The arbiter keeps the promise: through retries, expiry and late         *)
(* settlement each call is granted, paid and ended as SharedAllowance      *)
(* says, and every grant leaves room in all its rows at once.              *)
KeepsPromise == Promise!Spec

(* Every settled charge is in the ledger of every scope it was made in.    *)
(* A retried settle after a lost acknowledgement (_settle_once, state      *)
(* "settled") or a baseline sync must never lose one.                      *)
LedgerCoversCharges == \A k \in Keys : Paid(k) <= budget[k]

(* The converse: where no caller brings a baseline from the tree, the      *)
(* stored amount is exactly the sum of the settled charges, each counted   *)
(* once however often its settlement is retried.                           *)
ChargedExactlyOnce ==
  \A k \in Keys : (\A q \in Requests : q.base[k] = 0) => budget[k] = Paid(k)

(* Concurrent callers share one limit: what is settled and what is held    *)
(* stay within it except for overshoot (docs/scale-out.md:122) and for     *)
(* what was settled on an expired lease, which the code lets through.      *)
CapacityBound ==
  \A k \in Keys : Paid(k) + Held(k) <= Limit[k] + Total(Payers(k), Excesses(k))

(* The same for a sliding window at every instant: what was settled in the *)
(* last Span seconds and what is held stay within the window's limit.      *)
WindowBound ==
  \A w \in Windows :
    WindowSettled(w) + Held(w) <= Limit[w] + Total(Recent(w), Excesses(w))

(* Deleting old window events on a reserve never forgets one that still    *)
(* counts, or the window would admit a call too many.                      *)
NoRecentEventLost ==
  \A i \in Ids, w \in Windows :
    (state[i] = "settled" /\ w \in request[i].wins /\ Bills(w)[i] # 0 /\ InWindow(i, w))
      => <<i, w>> \in events

(* A settled or released reservation is a permanent tombstone: no retry,   *)
(* release or renewal, however late, changes its outcome or its charges.   *)
TombstonesPermanent ==
  [][\A i \in Ids : state[i] \in {"settled", "released"} =>
       /\ state'[i] = state[i]
       /\ paid'[i] = paid[i]
       /\ completed'[i] = completed[i]
       /\ request'[i] = request[i]]_vars

(* Capacity given back on expiry is never taken again by the expired       *)
(* reservation: neither a renewal nor a reserve retry revives it.          *)
ExpiryIsFinal ==
  [][\A i \in Ids : (state[i] = "active" /\ ~ Live(i)) => ~ Live(i)']_vars
=============================================================================
