---------------------------- MODULE SQLiteArbiter ----------------------------
(***************************************************************************)
(* The arbiter of the SQLite store.  Every operation is one BEGIN          *)
(* IMMEDIATE transaction that reads the clock once it holds the lock.      *)
(*                                                                         *)
(* There are no tombstones: a reservation is its rows, which settling and  *)
(* releasing delete, and which garbage collection deletes once they have   *)
(* expired.  So nothing in the file tells a settled reservation from one   *)
(* that was swept or never granted.  A call's process may do anything any  *)
(* number of times while it lives.                                         *)
(***************************************************************************)
EXTENDS Totals

CONSTANTS
  Ids,         \* reservation ids: one uuid per governed call
  Meters,      \* meter names
  Keys,        \* budget rows (scope, meter), numbered in the order they are sorted
  Windows,     \* window ledger keys, numbered in the order they are sorted
  MeterOf,     \* the meter a row counts
  Limit,       \* the limit of a row
  Span,        \* window_seconds of a window
  Lease,       \* lease_seconds
  MaxTime,     \* bound: the clock stops here
  Requests,    \* the requests processes make
  Charges      \* the charges they settle

RequestType == [keys : SUBSET Keys, wins : SUBSET Windows,
                est : [Meters -> Nat], base : [Keys -> Nat]]

ASSUME RowsAssumption ==
  /\ Keys \cup Windows \subseteq Nat
  /\ Keys \cap Windows = {}
  /\ MeterOf \in [Keys \cup Windows -> Meters]
  /\ Limit \in [Keys \cup Windows -> Nat]
  /\ Span \in [Windows -> Nat \ {0}]
ASSUME TimeAssumption == Lease \in Nat \ {0} /\ MaxTime \in Nat
ASSUME ProcessesAssumption ==
  /\ IsFiniteSet(Ids)
  /\ Requests \subseteq RequestType
  /\ Charges \subseteq [Meters -> Nat]

VARIABLES
  now,         \* the clock
  rows,        \* the ids with rows in the reservations table
  request,     \* id -> the budgets and windows its rows are for
  expires,     \* id -> their expires_at
  budget,      \* budget row -> settled, or 0 while there is no row
  events,      \* window_events: id, window, amount, settled_at
  alive,       \* the ids whose process still runs
  outcome,     \* id -> what has become of its reservation (history)
  paid         \* id -> what was charged for it (history)

history == <<outcome, paid>>
vars == <<now, rows, request, expires, budget, events, alive, history>>

NoCharge == [m \in Meters |-> 0]
NoRequest == [keys |-> {}, wins |-> {}, est |-> NoCharge, base |-> [k \in Keys |-> 0]]
Events == [id : Ids, win : Windows, amount : Nat, at : 0 .. MaxTime]

TypeOK ==
  /\ now \in 0 .. MaxTime
  /\ rows \subseteq Ids
  /\ request \in [Ids -> Requests \cup {NoRequest}]
  /\ expires \in [Ids -> Nat]
  /\ budget \in [Keys -> Nat]
  /\ events \subseteq Events
  /\ alive \subseteq Ids
  /\ outcome \in [Ids -> {"none", "granted", "settled", "released", "swept"}]
  /\ paid \in [Ids -> [Meters -> Nat]]

Init ==
  /\ now = 0
  /\ rows = {} /\ events = {}
  /\ request = [i \in Ids |-> NoRequest]
  /\ expires = [i \in Ids |-> 0]
  /\ budget = [k \in Keys |-> 0]
  /\ alive = Ids
  /\ outcome = [i \in Ids |-> "none"]
  /\ paid = [i \in Ids |-> NoCharge]

-----------------------------------------------------------------------------
(* _pollard_reserve.                                                       *)
On(i) == request[i].keys \cup request[i].wins
Larger(a, b) == IF a > b THEN a ELSE b
Synced(q, k) == Larger(budget[k], q.base[k])

(* A mutant: only reservations of this very second count.                  *)
RowsJustRenewed(r) == {i \in rows : r \in On(i) /\ expires[i] = now + Lease}

Active(r) == {i \in rows : r \in On(i) /\ expires[i] > now}
Held(r) == Total(Active(r), [i \in Ids |-> request[i].est[MeterOf[r]]])

Counts(e) == e.at > now - Span[e.win]
WindowSettled(w) == Total({e \in events : e.win = w /\ Counts(e)}, [e \in events |-> e.amount])

Refusing(q) == {k \in q.keys : q.est[MeterOf[k]] > Limit[k] - Synced(q, k) - Held(k)}
RefusingWindows(q) ==
  {w \in q.wins : q.est[MeterOf[w]] > Limit[w] - WindowSettled(w) - Held(w)}
UpTo(S, refusing) == {r \in S : \A x \in refusing : r <= x}

(* What the loops leave behind, refused or not: the budget rows they reach *)
(* are there and raised to the baseline, and the windows they reach are    *)
(* rid of old events.  Budgets come first.                                 *)
RaisedRows(q) ==
  [k \in Keys |-> IF k \in UpTo(q.keys, Refusing(q)) THEN Synced(q, k) ELSE budget[k]]
SweptWindows(q) == IF Refusing(q) # {} THEN {} ELSE UpTo(q.wins, RefusingWindows(q))

Forgotten(q) == {e \in events : e.win \in SweptWindows(q) /\ ~Counts(e)}

Purged(q) == events \ Forgotten(q)

(* A mutant: expired reservations go with them.                            *)
KeptUnexpired(i) == {j \in rows : expires[j] > now} \cup {i}

KeptRows(i) == rows \cup {i}

Reserve(i, q) ==
  /\ i \in alive /\ outcome[i] = "none"
  /\ budget' = RaisedRows(q)
  /\ events' = Purged(q)
  /\ IF Refusing(q) = {} /\ RefusingWindows(q) = {}
     THEN /\ rows' = KeptRows(i)
          /\ request' = [request EXCEPT ![i] = q]
          /\ expires' = [expires EXCEPT ![i] = now + Lease]
          /\ outcome' = [outcome EXCEPT ![i] = "granted"]
     ELSE UNCHANGED <<rows, request, expires, outcome>>
  /\ UNCHANGED <<now, alive, paid>>

-----------------------------------------------------------------------------
(* _pollard_settle: whatever rows there are, expired or not, are charged   *)
(* and deleted; without rows nothing happens, and nothing is reported.     *)

Charged(i, ch) ==
  [k \in Keys |-> IF k \in request[i].keys THEN budget[k] + ch[MeterOf[k]] ELSE budget[k]]
Recorded(i, ch) ==
  {[id |-> i, win |-> w, amount |-> ch[MeterOf[w]], at |-> now] :
     w \in {v \in request[i].wins : ch[MeterOf[v]] # 0}}

RowsAfter(i) == rows \ {i}

Settle(i, ch) ==
  /\ i \in alive
  /\ IF i \in rows
     THEN /\ budget' = Charged(i, ch)
          /\ events' = events \cup Recorded(i, ch)
          /\ rows' = RowsAfter(i)
          /\ outcome' = [outcome EXCEPT ![i] = "settled"]
          /\ paid' = [paid EXCEPT ![i] = ch]
     ELSE UNCHANGED <<budget, events, rows, history>>
  /\ UNCHANGED <<now, request, expires, alive>>

Release(i) ==
  /\ i \in alive
  /\ rows' = rows \ {i}
  /\ outcome' = [outcome EXCEPT ![i] = IF i \in rows THEN "released" ELSE @]
  /\ UNCHANGED <<now, request, expires, budget, events, alive, paid>>

(* A mutant: an expired lease is renewed.                                  *)
RenewableRows(i) == i \in rows

Renewable(i) == i \in rows /\ expires[i] > now

(* _pollard_renew, on the heartbeat's own connection.                      *)
Renew(i) ==
  /\ i \in alive /\ Renewable(i)
  /\ expires' = [expires EXCEPT ![i] = now + Lease]
  /\ UNCHANGED <<now, rows, request, budget, events, alive, history>>

(* _pollard_compact is offline by contract: no process is at work.         *)
Compact ==
  /\ \A i \in alive : outcome[i] # "granted"
  /\ LET expired == {i \in rows : expires[i] <= now} IN
     /\ rows' = rows \ expired
     /\ outcome' = [i \in Ids |-> IF i \in expired THEN "swept" ELSE outcome[i]]
  /\ UNCHANGED <<now, request, expires, budget, events, alive, paid>>

(* A process dies, or gives its call up without settling it.               *)
Crash(i) ==
  /\ i \in alive
  /\ alive' = alive \ {i}
  /\ UNCHANGED <<now, rows, request, expires, budget, events, history>>

Tick ==
  /\ now < MaxTime /\ now' = now + 1
  /\ UNCHANGED <<rows, request, expires, budget, events, alive, history>>

Next ==
  \/ \E i \in Ids, q \in Requests : Reserve(i, q)
  \/ \E i \in Ids, ch \in Charges : Settle(i, ch)
  \/ \E i \in Ids : Release(i) \/ Renew(i) \/ Crash(i)
  \/ Compact \/ Tick

Spec == Init /\ [][Next]_vars

-----------------------------------------------------------------------------
Payers(k) == {i \in Ids : outcome[i] = "settled" /\ k \in request[i].keys}
Paid(r) == [i \in Ids |-> paid[i][MeterOf[r]]]

(* What a settlement takes beyond what was still held for it.              *)
Late(e) == e.at >= expires[e.id]
Excess(e) ==
  IF Late(e) THEN e.amount ELSE Larger(0, e.amount - request[e.id].est[MeterOf[e.win]])

(* A charge settled by a living process is never dropped without a word,   *)
(* however late it comes: its rows are still there, because no other       *)
(* reservation and no lawful collection takes them (_pollard_settle has    *)
(* no other record of the call).                                           *)
LateSettlementCharges ==
  \A i \in alive : outcome[i] # "swept" /\ (outcome[i] = "granted" => i \in rows)

(* Without tombstones, too, a settlement that is repeated, comes after a   *)
(* release or with an id nobody was granted charges nothing: where no      *)
(* baseline is brought in, a budget row is the sum of the settled charges. *)
ChargedExactlyOnce ==
  \A k \in Keys : (\A q \in Requests : q.base[k] = 0) =>
    budget[k] = Total(Payers(k), Paid(k))

(* A window admits no more than its limit at any instant, but for what     *)
(* settlements took beyond what was held for them (WindowMeter).           *)
WindowBound ==
  \A w \in Windows :
    LET recent == {e \in events : e.win = w /\ Counts(e)} IN
    WindowSettled(w) + Held(w) <= Limit[w] + Total(recent, [e \in events |-> Excess(e)])

(* No reserve, granted or refused half-way, forgets an event that still    *)
(* counts.                                                                 *)
NoRecentEventLost ==
  [][\A e \in events : e.at > now' - Span[e.win] => e \in events']_vars

(* The arbiter keeps the promise of SharedAllowance: what is granted fits, *)
(* what has lapsed or ended never holds again, and each call pays once.    *)
Status(i) ==
  IF outcome[i] = "swept" THEN "lapsed"
  ELSE IF outcome[i] # "granted" THEN outcome[i]
  ELSE IF expires[i] > now THEN "held" ELSE "lapsed"
Promise == INSTANCE SharedAllowance WITH
  status <- [i \in Ids |-> Status(i)], claim <- request, bill <- paid, spent <- budget
KeepsPromise == Promise!Spec
-----------------------------------------------------------------------------
(* Proofs, for any finite number of calls.                                 *)
(*                                                                         *)
(* Without tombstones everything rests on one fact: the ids with rows are  *)
(* exactly those whose reservation is granted and not yet settled,         *)
(* released or swept (RowsGranted).  So a settlement that finds rows is    *)
(* the first, and one that finds none has nothing to charge.               *)
(*                                                                         *)
(* A window's bound counts by reservation (WindowInv): every event is of a *)
(* settled one, and what recent events took of their holds, with the holds *)
(* that stand, fits the limit.                                             *)
RowsGranted == rows = {i \in Ids : outcome[i] = "granted"}
NoneSweptAlive == \A i \in alive : outcome[i] # "swept"
IInv == TypeOK /\ RowsGranted /\ NoneSweptAlive

-----------------------------------------------------------------------------
(* Requests, and the rows' new amounts, are well-formed.                   *)
LEMMA Typed ==
  ASSUME TypeOK
  PROVE  /\ \A i \in Ids : request[i] \in RequestType
         /\ \A q \in Requests : RaisedRows(q) \in [Keys -> Nat]
         /\ \A i \in Ids, ch \in Charges : Charged(i, ch) \in [Keys -> Nat]
<1>1. NoRequest \in RequestType
  BY DEF NoRequest, NoCharge, RequestType
<1>2. \A i \in Ids : request[i] \in RequestType
  BY <1>1, ProcessesAssumption DEF TypeOK
<1>3. ASSUME NEW q \in Requests PROVE RaisedRows(q) \in [Keys -> Nat]
  <2>1. \A k \in Keys : budget[k] \in Nat /\ q.base[k] \in Nat
    BY ProcessesAssumption DEF TypeOK, RequestType
  <2>2. \A k \in Keys : Synced(q, k) \in Nat
    BY <2>1 DEF Synced, Larger
  <2> QED
    BY <2>1, <2>2 DEF RaisedRows
<1>4. ASSUME NEW i \in Ids, NEW ch \in Charges PROVE Charged(i, ch) \in [Keys -> Nat]
  <2>1. \A k \in Keys : budget[k] \in Nat /\ ch[MeterOf[k]] \in Nat
    BY ProcessesAssumption, RowsAssumption DEF TypeOK
  <2> QED
    BY <2>1 DEF Charged
<1> QED
  BY <1>2, <1>3, <1>4

LEMMA InitHolds == Init => IInv
<1> SUFFICES ASSUME Init PROVE IInv
  OBVIOUS
<1>1. paid \in [Ids -> [Meters -> Nat]] /\ budget \in [Keys -> Nat]
  BY DEF Init, NoCharge
<1>2. now \in 0 .. MaxTime /\ expires \in [Ids -> Nat] /\ rows \subseteq Ids /\ alive \subseteq Ids
  BY TimeAssumption DEF Init
<1>3. request \in [Ids -> Requests \cup {NoRequest}] /\ events \subseteq Events
  BY DEF Init
<1>4. outcome \in [Ids -> {"none", "granted", "settled", "released", "swept"}]
  BY DEF Init
<1>5. RowsGranted /\ NoneSweptAlive
  BY DEF Init, RowsGranted, NoneSweptAlive
<1> QED
  BY <1>1, <1>2, <1>3, <1>4, <1>5 DEF IInv, TypeOK

(* Each transaction keeps the types, and rows and outcomes in step.        *)
LEMMA StepKeeps == IInv /\ [Next]_vars => IInv'
<1> SUFFICES ASSUME IInv, [Next]_vars PROVE IInv'
  OBVIOUS
<1> USE DEF IInv, TypeOK, RowsGranted, NoneSweptAlive, history
<1>1. ASSUME NEW i \in Ids, NEW q \in Requests, Reserve(i, q) PROVE IInv'
  <2>1. budget' \in [Keys -> Nat]
    BY <1>1, Typed DEF Reserve
  <2>2. events' \subseteq Events
    BY <1>1 DEF Reserve, Purged
  <2>3. now + Lease \in Nat
    BY TimeAssumption
  <2>4. CASE UNCHANGED <<rows, request, expires, outcome>>
    BY <1>1, <2>1, <2>2, <2>4 DEF Reserve
  <2>5. CASE /\ rows' = rows \cup {i}
             /\ request' = [request EXCEPT ![i] = q]
             /\ expires' = [expires EXCEPT ![i] = now + Lease]
             /\ outcome' = [outcome EXCEPT ![i] = "granted"]
    BY <1>1, <2>1, <2>2, <2>3, <2>5 DEF Reserve
  <2> QED
    BY <1>1, <2>4, <2>5 DEF Reserve, KeptRows
<1>2. ASSUME NEW i \in Ids, NEW ch \in Charges, Settle(i, ch) PROVE IInv'
  <2>1. CASE i \in rows
    <3>1. budget' \in [Keys -> Nat]
      BY <1>2, <2>1, Typed DEF Settle
    <3>2. Recorded(i, ch) \subseteq Events
      <4>1. \A w \in request[i].wins : w \in Windows /\ ch[MeterOf[w]] \in Nat
        BY Typed, RowsAssumption, ProcessesAssumption DEF RequestType
      <4> QED
        BY <4>1 DEF Recorded, Events
    <3>3. paid' \in [Ids -> [Meters -> Nat]]
      BY <1>2, <2>1, ProcessesAssumption DEF Settle
    <3>4. /\ rows' = rows \ {i} /\ outcome' = [outcome EXCEPT ![i] = "settled"]
          /\ events' = events \cup Recorded(i, ch)
          /\ UNCHANGED <<now, request, expires, alive>>
      BY <1>2, <2>1 DEF Settle, RowsAfter
    <3> QED
      BY <3>1, <3>2, <3>3, <3>4
  <2>2. CASE i \notin rows
    BY <1>2, <2>2 DEF Settle
  <2> QED
    BY <2>1, <2>2
<1>3. ASSUME NEW i \in Ids, Release(i) PROVE IInv'
  BY <1>3 DEF Release
<1>4. ASSUME NEW i \in Ids, Renew(i) PROVE IInv'
  BY <1>4, TimeAssumption DEF Renew
<1>5. ASSUME NEW i \in Ids, Crash(i) PROVE IInv'
  BY <1>5 DEF Crash
<1>6. CASE Compact
  <2> DEFINE expired == {i \in rows : expires[i] <= now}
  <2>1. rows' = rows \ expired
        /\ outcome' = [i \in Ids |-> IF i \in expired THEN "swept" ELSE outcome[i]]
        /\ UNCHANGED <<now, request, expires, budget, events, alive, paid>>
    BY <1>6 DEF Compact
  <2>2. \A i \in alive : i \notin expired
    BY <1>6 DEF Compact
  <2> QED
    BY <2>1, <2>2
<1>7. CASE Tick
  BY <1>7, TimeAssumption DEF Tick
<1>8. CASE UNCHANGED vars
  BY <1>8 DEF vars
<1> QED
  BY <1>1, <1>2, <1>3, <1>4, <1>5, <1>6, <1>7, <1>8 DEF Next

LEMMA Inductive == Spec => []IInv
  BY InitHolds, StepKeeps, PTL DEF Spec

(* The tables and the history keep their types.                            *)
THEOREM SQLiteTypes == Spec => []TypeOK
  BY Inductive, PTL DEF IInv

(* A living process finds the rows of its reservation when it settles, no  *)
(* matter how late (_pollard_settle, _pollard_compact).                    *)
THEOREM LateSettlements == Spec => []LateSettlementCharges
<1>1. IInv => LateSettlementCharges
  BY DEF IInv, TypeOK, RowsGranted, NoneSweptAlive, LateSettlementCharges
<1> QED
  BY <1>1, Inductive, PTL

(* No transaction deletes a window event that still counts                 *)
(* (_pollard_reserve).                                                     *)
THEOREM EventsStay == Spec => NoRecentEventLost
<1> DEFINE Stays == \A e \in events : e.at > now' - Span[e.win] => e \in events'
<1>1. [Next]_vars => [Stays]_vars
  <2> SUFFICES ASSUME Next PROVE Stays
    OBVIOUS
  <2>1. ASSUME NEW i \in Ids, NEW q \in Requests, Reserve(i, q) PROVE Stays
    BY <2>1 DEF Reserve, Purged, Forgotten, Counts
  <2>2. ASSUME NEW i \in Ids, NEW ch \in Charges, Settle(i, ch) PROVE Stays
    BY <2>2 DEF Settle
  <2>3. ASSUME NEW i \in Ids, Release(i) \/ Renew(i) \/ Crash(i) PROVE Stays
    BY <2>3 DEF Release, Renew, Crash
  <2>4. CASE Compact \/ Tick
    BY <2>4 DEF Compact, Tick
  <2> QED
    BY <2>1, <2>2, <2>3, <2>4 DEF Next
<1> QED
  BY <1>1, PTL DEF Spec, NoRecentEventLost

-----------------------------------------------------------------------------
(* What is charged.                                                        *)
Settled(i) == outcome[i] = "settled"

(* The settled calls are the same and stand as they were.                  *)
SettledStand ==
  \A i \in Ids : /\ Settled(i)' <=> Settled(i)
                 /\ Settled(i) => request'[i] = request[i] /\ paid'[i] = paid[i]

LEMMA SumStands ==
  ASSUME SettledStand, NEW k \in Keys
  PROVE  Total(Payers(k), Paid(k))' = Total(Payers(k), Paid(k))
<1>1. Payers(k)' = Payers(k)
  BY DEF SettledStand, Settled, Payers
<1>2. \A i \in Payers(k) : Paid(k)[i] = Paid(k)'[i]
  BY DEF SettledStand, Settled, Payers, Paid
<1>3. Total(Payers(k), Paid(k)) = Total(Payers(k), Paid(k)')
  BY <1>2, TotalAgree
<1> QED
  BY <1>1, <1>3

(* A settlement that finds its rows adds its charge to each of them.       *)
LEMMA SumGrows ==
  ASSUME IInv, NEW i \in rows, NEW ch \in Charges, Settle(i, ch), NEW k \in Keys
  PROVE  Total(Payers(k), Paid(k))' =
           Total(Payers(k), Paid(k)) + (IF k \in request[i].keys THEN ch[MeterOf[k]] ELSE 0)
<1> DEFINE S == Payers(k)
           f == Paid(k)
           g == Paid(k)'
<1>1. /\ i \in Ids /\ outcome[i] = "granted"
      /\ outcome' = [outcome EXCEPT ![i] = "settled"]
      /\ paid' = [paid EXCEPT ![i] = ch] /\ request' = request
  BY DEF Settle, IInv, TypeOK, RowsGranted
<1>2. i \notin S /\ S \subseteq Ids /\ IsFiniteSet(S)
  BY <1>1, ProcessesAssumption, FS_Subset DEF Payers
<1>3. Payers(k)' = IF k \in request[i].keys THEN S \cup {i} ELSE S
  BY <1>1 DEF Payers, IInv, TypeOK
<1>4. g[i] = ch[MeterOf[k]] /\ g[i] \in Nat
  BY <1>1, RowsAssumption, ProcessesAssumption DEF Paid, IInv, TypeOK
<1>5. \A j \in S : f[j] \in Nat /\ g[j] = f[j]
  BY <1>1, <1>2, RowsAssumption DEF Paid, IInv, TypeOK
<1>6. Total(S, f) \in Nat
  <2> HIDE DEF S, f
  <2> QED
    BY <1>2, <1>5, TotalType
<1>7. Total(S \cup {i}, g) = Total(S, f) + g[i]
  <2>1. \A j \in S : g[j] \in Nat
    BY <1>5
  <2>2. \A j \in S : g[j] = f[j]
    BY <1>5
  <2>3. i \notin S /\ IsFiniteSet(S) /\ g[i] \in Nat
    BY <1>2, <1>4
  <2> HIDE DEF S, f, g
  <2> QED
    BY <2>1, <2>2, <2>3, TotalGains
<1>8. Total(S, g) = Total(S, f)
  <2>1. \A j \in S : g[j] = f[j]
    BY <1>5
  <2> HIDE DEF S, f, g
  <2> QED
    BY <2>1, TotalAgree
<1> QED
  BY <1>3, <1>4, <1>6, <1>7, <1>8

(* Any other step settles nothing, and leaves rows without a baseline.     *)
LEMMA RowStands ==
  ASSUME IInv, [Next]_vars, NEW k \in Keys, \A q \in Requests : q.base[k] = 0,
         ~ \E i \in rows, ch \in Charges : Settle(i, ch)
  PROVE  SettledStand /\ budget'[k] = budget[k]
<1> USE DEF IInv, TypeOK, RowsGranted, SettledStand, Settled, history
<1>1. ASSUME NEW i \in Ids, NEW q \in Requests, Reserve(i, q)
      PROVE  SettledStand /\ budget'[k] = budget[k]
  <2>1. budget'[k] = budget[k]
    BY <1>1 DEF Reserve, RaisedRows, Synced, Larger
  <2> QED
    BY <1>1, <2>1 DEF Reserve
<1>2. ASSUME NEW i \in Ids, NEW ch \in Charges, Settle(i, ch)
      PROVE  SettledStand /\ budget'[k] = budget[k]
  BY <1>2 DEF Settle
<1>3. ASSUME NEW i \in Ids, Release(i) \/ Renew(i) \/ Crash(i)
      PROVE  SettledStand /\ budget'[k] = budget[k]
  BY <1>3 DEF Release, Renew, Crash
<1>4. CASE Compact
  BY <1>4 DEF Compact
<1>5. CASE Tick \/ UNCHANGED vars
  BY <1>5 DEF Tick, vars
<1> QED
  BY <1>1, <1>2, <1>3, <1>4, <1>5 DEF Next

(* A budget row without a baseline is the sum of the charges settled in    *)
(* it, each counted once, though no tombstone tells a repeated settlement  *)
(* from a first one (_pollard_settle).                                     *)
THEOREM SettledOnce == Spec => []ChargedExactlyOnce
<1>1. Init => ChargedExactlyOnce
  <2> SUFFICES ASSUME Init, NEW k \in Keys PROVE budget[k] = Total(Payers(k), Paid(k))
    BY DEF ChargedExactlyOnce
  <2>1. Payers(k) = {}
    BY DEF Init, Payers
  <2> QED
    BY <2>1, TotalEmpty DEF Init
<1>2. IInv /\ ChargedExactlyOnce /\ [Next]_vars => ChargedExactlyOnce'
  <2> SUFFICES ASSUME IInv, ChargedExactlyOnce, [Next]_vars, NEW k \in Keys,
                      \A q \in Requests : q.base[k] = 0
               PROVE  budget'[k] = Total(Payers(k), Paid(k))'
    BY DEF ChargedExactlyOnce
  <2>1. budget[k] = Total(Payers(k), Paid(k)) /\ budget[k] \in Nat
    BY DEF ChargedExactlyOnce, IInv, TypeOK
  <2>2. ASSUME NEW i \in rows, NEW ch \in Charges, Settle(i, ch)
        PROVE  budget'[k] = Total(Payers(k), Paid(k))'
    <3>1. budget'[k] = IF k \in request[i].keys THEN budget[k] + ch[MeterOf[k]] ELSE budget[k]
      BY <2>2 DEF Settle, Charged
    <3> QED
      BY <2>1, <2>2, <3>1, SumGrows
  <2>3. CASE ~ \E i \in rows, ch \in Charges : Settle(i, ch)
    <3>1. SettledStand /\ budget'[k] = budget[k]
      BY <2>3, RowStands
    <3> QED
      BY <2>1, <3>1, SumStands
  <2> QED
    BY <2>2, <2>3
<1> QED
  BY <1>1, <1>2, Inductive, PTL DEF Spec

-----------------------------------------------------------------------------
(* The refinement.                                                         *)
Estimates(r) == [i \in Ids |-> request[i].est[MeterOf[r]]]

LEMMA HeldTyped ==
  ASSUME IInv, NEW k \in Keys \cup Windows
  PROVE  /\ Active(k) \subseteq Ids /\ IsFiniteSet(Active(k))
         /\ \A i \in Ids : Estimates(k)[i] \in Nat
         /\ Held(k) = Total(Active(k), Estimates(k)) /\ Held(k) \in Nat
<1>1. Active(k) \subseteq Ids /\ IsFiniteSet(Active(k))
  <2>1. Active(k) \subseteq Ids
    BY DEF Active, IInv, TypeOK
  <2> QED
    BY <2>1, ProcessesAssumption, FS_Subset
<1>2. \A i \in Ids : Estimates(k)[i] \in Nat
  BY Typed, RowsAssumption DEF Estimates, RequestType, IInv
<1>3. Held(k) = Total(Active(k), Estimates(k))
  BY DEF Held, Estimates
<1>4. Total(Active(k), Estimates(k)) \in Nat
  <2> DEFINE S == Active(k)
             f == Estimates(k)
  <2>1. IsFiniteSet(S) /\ \A i \in S : f[i] \in Nat
    BY <1>1, <1>2
  <2> HIDE DEF S, f
  <2>2. Total(S, f) \in Nat
    BY <2>1, TotalType
  <2> QED
    BY <2>2 DEF S, f
<1> QED
  BY <1>1, <1>2, <1>3, <1>4

(* A reservation holds capacity in the promise while its rows are there    *)
(* and unexpired.                                                          *)
SameHeld == \A k \in Keys : Promise!HeldOf(k) = Held(k)

LEMMA HeldNow == IInv => SameHeld
<1> SUFFICES ASSUME IInv, NEW k \in Keys PROVE Promise!HeldOf(k) = Held(k)
  BY DEF SameHeld
<1> DEFINE status == [i \in Ids |-> Status(i)]
<1>1. \A i \in Ids : (status[i] = "held") <=> (i \in rows /\ expires[i] > now)
  BY DEF Status, IInv, TypeOK, RowsGranted
<1>2. \A i \in Ids : k \in On(i) <=> k \in request[i].keys \/ k \in request[i].wins
  BY DEF On
<1>3. {i \in Ids : status[i] = "held" /\ k \in request[i].keys} = Active(k)
  <2>1. \A i \in Ids : k \notin request[i].wins
    BY Typed, RowsAssumption DEF IInv, RequestType
  <2> HIDE DEF status
  <2> QED
    BY <1>1, <1>2, <2>1 DEF Active, IInv, TypeOK
<1> HIDE DEF status
<1>4. Promise!HeldOf(k) = Total({i \in Ids : status[i] = "held" /\ k \in request[i].keys},
                                Estimates(k))
  BY DEF status, Promise!HeldOf, Promise!Total, Promise!Units, Promise!Cardinality,
         Total, Units, Cardinality, Estimates
<1> QED
  BY <1>3, <1>4, HeldTyped

LEMMA HeldLater == IInv' => SameHeld'
BY HeldNow, PTL

(* A grant adds its estimate to what is held of each of its rows.          *)
LEMMA GrantHolds ==
  ASSUME IInv, NEW i \in Ids, NEW q \in Requests, Reserve(i, q),
         Refusing(q) = {}, RefusingWindows(q) = {},
         NEW k \in q.keys \cup q.wins, k \in Keys \cup Windows
  PROVE  Held(k)' = Held(k) + q.est[MeterOf[k]]
<1> DEFINE S == Active(k)
           f == Estimates(k)
           g == Estimates(k)'
<1>1. /\ outcome[i] = "none" /\ now' = now /\ rows' = rows \cup {i}
      /\ request' = [request EXCEPT ![i] = q] /\ expires' = [expires EXCEPT ![i] = now + Lease]
  BY DEF Reserve, KeptRows
<1>2. i \notin S
  BY <1>1 DEF Active, IInv, RowsGranted
<1>3. Active(k)' = S \cup {i}
  <2>1. i \in Active(k)'
    BY <1>1, TimeAssumption DEF Active, On, IInv, TypeOK
  <2>2. \A j \in rows \ {i} : (j \in Active(k)') <=> (j \in S)
    BY <1>1 DEF Active, On, IInv, TypeOK
  <2>3. Active(k)' \subseteq rows \cup {i} /\ S \subseteq rows
    BY <1>1 DEF Active
  <2> QED
    BY <1>2, <2>1, <2>2, <2>3
<1>4. g[i] = q.est[MeterOf[k]] /\ g[i] \in Nat
  BY <1>1, RowsAssumption, ProcessesAssumption DEF Estimates, RequestType, IInv, TypeOK
<1>5. \A j \in S : g[j] = f[j]
  BY <1>1, <1>2, HeldTyped DEF Estimates, IInv, TypeOK
<1>6. \A j \in S : g[j] \in Nat
  BY <1>5, HeldTyped
<1>7. IsFiniteSet(S) /\ Held(k) = Total(S, f)
  BY HeldTyped
<1>8. Total(S \cup {i}, g) = Total(S, f) + g[i]
  <2>1. IsFiniteSet(S) /\ i \notin S /\ g[i] \in Nat
    BY <1>2, <1>4, <1>7
  <2>2. \A j \in S : g[j] = f[j]
    BY <1>5
  <2>3. \A j \in S : g[j] \in Nat
    BY <1>6
  <2> HIDE DEF S, f, g
  <2>4. Total(S \cup {i}, g) = Total(S, g) + g[i]
    BY <2>1, <2>3, TotalAdd
  <2>5. Total(S, g) = Total(S, f)
    BY <2>2, TotalAgree
  <2> QED
    BY <2>4, <2>5
<1>9. Held(k)' = Total(S \cup {i}, g)
  BY <1>3 DEF Held, Estimates
<1> QED
  BY <1>4, <1>7, <1>8, <1>9

(* A reserve, granted or not, only raises rows; a grant reaches them all.  *)
LEMMA ReserveRaises ==
  ASSUME IInv, NEW i \in Ids, NEW q \in Requests, Reserve(i, q)
  PROVE  /\ Promise!Rise
         /\ Refusing(q) = {} => \A k \in q.keys : budget'[k] = Synced(q, k)
<1>1. q.keys \subseteq Keys /\ \A k \in Keys : budget[k] \in Nat /\ q.base[k] \in Nat
  BY ProcessesAssumption DEF RequestType, IInv, TypeOK
<1>2. \A k \in Keys : budget'[k] = IF k \in UpTo(q.keys, Refusing(q)) THEN Synced(q, k) ELSE budget[k]
  BY DEF Reserve, RaisedRows
<1>3. Promise!Rise
  BY <1>1, <1>2 DEF Promise!Rise, Synced, Larger
<1>4. Refusing(q) = {} => UpTo(q.keys, Refusing(q)) = q.keys
  BY DEF UpTo
<1> QED
  BY <1>1, <1>2, <1>3, <1>4

LEMMA ReservePromised ==
  ASSUME IInv, IInv', NEW i \in Ids, NEW q \in Requests, Reserve(i, q)
  PROVE  [Promise!Next]_(Promise!vars)
<1> DEFINE status == [j \in Ids |-> Status(j)]
<1> USE DEF IInv, TypeOK
<1>1. CASE Refusing(q) = {} /\ RefusingWindows(q) = {}
  <2>1. /\ outcome[i] = "none" /\ outcome' = [outcome EXCEPT ![i] = "granted"]
        /\ request' = [request EXCEPT ![i] = q] /\ expires' = [expires EXCEPT ![i] = now + Lease]
        /\ UNCHANGED <<now, paid>>
    BY <1>1 DEF Reserve
  <2>2. status' = [status EXCEPT ![i] = "held"] /\ status[i] = "none"
    <3>1. Status(i)' = "held" /\ Status(i) = "none"
      BY <2>1, TimeAssumption DEF Status
    <3>2. \A j \in Ids \ {i} : Status(j)' = Status(j)
      BY <2>1 DEF Status
    <3> QED
      BY <3>1, <3>2
  <2>3. request'[i] = q /\ request' = [request EXCEPT ![i] = request'[i]]
    BY <2>1
  <2>4. ASSUME NEW k \in q.keys PROVE budget'[k] + Promise!HeldOf(k)' <= Limit[k]
    <3>1. k \in Keys /\ Limit[k] \in Nat /\ q.est[MeterOf[k]] \in Nat /\ q.base[k] \in Nat
      BY RowsAssumption, ProcessesAssumption DEF RequestType
    <3>2. Promise!HeldOf(k)' = Held(k)'
      BY <3>1, HeldLater DEF SameHeld
    <3>3. Held(k)' = Held(k) + q.est[MeterOf[k]] /\ Held(k) \in Nat
      BY <1>1, <3>1, GrantHolds, HeldTyped
    <3>4. budget'[k] = Synced(q, k) /\ Synced(q, k) \in Nat
      BY <1>1, <3>1, ReserveRaises DEF Synced, Larger
    <3>5. q.est[MeterOf[k]] <= Limit[k] - Synced(q, k) - Held(k)
      BY <1>1, <3>1, <3>3, <3>4 DEF Refusing
    <3> QED
      BY <3>1, <3>2, <3>3, <3>4, <3>5
  <2>5. Promise!Rise
    BY ReserveRaises
  <2> HIDE DEF status
  <2>6. Promise!Grant(i)
    BY <2>1, <2>2, <2>3, <2>4, <2>5 DEF status, Promise!Grant
  <2> QED
    BY <2>6 DEF Promise!Next
<1>2. CASE ~ (Refusing(q) = {} /\ RefusingWindows(q) = {})
  <2>1. UNCHANGED <<now, request, expires, outcome, paid>>
    BY <1>2 DEF Reserve
  <2>2. status' = status
    BY <2>1 DEF Status
  <2>3. Promise!Learn
    BY <2>1, <2>2, ReserveRaises DEF Promise!Learn
  <2> QED
    BY <2>3 DEF Promise!Next
<1> QED
  BY <1>1, <1>2

(* A settlement pays if it finds rows; a release gives back if it does.    *)
LEMMA EndPromised ==
  ASSUME IInv, NEW i \in Ids, (\E ch \in Charges : Settle(i, ch)) \/ Release(i)
  PROVE  [Promise!Next]_(Promise!vars)
<1> DEFINE status == [j \in Ids |-> Status(j)]
<1> USE DEF IInv, TypeOK, RowsGranted, history
<1>1. CASE i \notin rows
  <2>1. UNCHANGED <<now, request, expires, budget, outcome, paid>>
    BY <1>1 DEF Settle, Release
  <2>2. status' = status
    BY <2>1 DEF Status
  <2> QED
    BY <2>1, <2>2 DEF Promise!vars
<1>2. CASE i \in rows
  <2>1. outcome[i] = "granted" /\ status[i] \in {"held", "lapsed"}
    BY <1>2 DEF Status
  <2>2. ASSUME NEW s \in {"settled", "released"}, outcome' = [outcome EXCEPT ![i] = s],
               UNCHANGED <<now, expires>>
        PROVE  status' = [status EXCEPT ![i] = s]
    <3>1. Status(i)' = s
      BY <2>2 DEF Status
    <3>2. \A j \in Ids \ {i} : Status(j)' = Status(j)
      BY <2>2 DEF Status
    <3> QED
      BY <3>1, <3>2
  <2>3. ASSUME NEW ch \in Charges, Settle(i, ch) PROVE Promise!Pay(i)
    <3>1. /\ outcome' = [outcome EXCEPT ![i] = "settled"] /\ UNCHANGED <<now, request, expires>>
          /\ paid' = [paid EXCEPT ![i] = ch] /\ budget' = Charged(i, ch)
      BY <1>2, <2>3 DEF Settle
    <3>2. paid'[i] = ch /\ paid' = [paid EXCEPT ![i] = paid'[i]]
      BY <3>1
    <3>3. budget' = [k \in Keys |-> IF k \in request[i].keys
                                    THEN budget[k] + paid'[i][MeterOf[k]] ELSE budget[k]]
      BY <3>1, <3>2 DEF Charged
    <3>4. status' = [status EXCEPT ![i] = "settled"]
      BY <2>2, <3>1
    <3> QED
      BY <2>1, <3>1, <3>2, <3>3, <3>4 DEF Promise!Pay
  <2>4. ASSUME Release(i) PROVE Promise!GiveBack(i)
    <3>1. outcome' = [outcome EXCEPT ![i] = "released"]
          /\ UNCHANGED <<now, request, expires, budget, paid>>
      BY <1>2, <2>4 DEF Release
    <3>2. status' = [status EXCEPT ![i] = "released"]
      BY <2>2, <3>1
    <3> QED
      BY <2>1, <3>1, <3>2 DEF Promise!GiveBack
  <2> QED
    BY <2>3, <2>4 DEF Promise!Next
<1> QED
  BY <1>1, <1>2

(* A renewal, a death and a collection are invisible; time lapses leases.  *)
LEMMA OthersPromised ==
  ASSUME IInv, (\E i \in Ids : Renew(i) \/ Crash(i)) \/ Compact \/ Tick \/ UNCHANGED vars
  PROVE  [Promise!Next]_(Promise!vars)
<1> DEFINE status == [j \in Ids |-> Status(j)]
<1> USE DEF IInv, TypeOK, RowsGranted, history
<1>1. UNCHANGED <<request, budget, paid>>
  BY DEF Renew, Crash, Compact, Tick, vars
<1>2. ASSUME NEW i \in Ids, Renew(i) PROVE status' = status
  <2>1. UNCHANGED <<now, outcome>> /\ expires' = [expires EXCEPT ![i] = now + Lease]
        /\ expires[i] > now
    BY <1>2 DEF Renew, Renewable
  <2>2. \A j \in Ids : (expires'[j] > now) <=> (expires[j] > now)
    BY <2>1, TimeAssumption
  <2> QED
    BY <2>1, <2>2 DEF Status
<1>3. ASSUME NEW i \in Ids, Crash(i) PROVE status' = status
  BY <1>3 DEF Crash, Status
<1>4. CASE Compact
  <2>1. /\ UNCHANGED <<now, expires>>
        /\ \A j \in Ids : \/ outcome'[j] = outcome[j]
                          \/ outcome[j] = "granted" /\ expires[j] <= now /\ outcome'[j] = "swept"
    BY <1>4 DEF Compact
  <2>2. \A j \in Ids : Status(j)' = Status(j)
    BY <2>1 DEF Status
  <2> QED
    BY <1>1, <2>2 DEF Promise!vars
<1>5. CASE Tick
  <2>1. now' = now + 1 /\ UNCHANGED <<outcome, expires>>
    BY <1>5 DEF Tick
  <2>2. ASSUME NEW j \in Ids, status'[j] # status[j]
        PROVE  status[j] = "held" /\ status'[j] = "lapsed"
    <3>1. Status(j)' # Status(j)
      BY <2>2
    <3>2. Status(j) = "held" /\ Status(j)' = "lapsed"
      BY <2>1, <3>1 DEF Status
    <3> QED
      BY <3>2
  <2>3. Promise!Lapse
    BY <1>1, <2>2 DEF Promise!Lapse
  <2> QED
    BY <2>3 DEF Promise!Next
<1>6. CASE UNCHANGED vars
  BY <1>6 DEF vars, Status, Promise!vars
<1> QED
  BY <1>1, <1>2, <1>3, <1>4, <1>5, <1>6 DEF Promise!vars

(* The arbiter without tombstones implements the shared allowance          *)
(* (_pollard_reserve, _pollard_settle, _pollard_release, _pollard_renew,   *)
(* _pollard_compact).                                                      *)
THEOREM SQLiteImplements == Spec => KeepsPromise
<1>1. Init => Promise!Init
  BY DEF Init, Promise!Init, Status
<1>2. IInv /\ IInv' /\ [Next]_vars => [Promise!Next]_(Promise!vars)
  BY ReservePromised, EndPromised, OthersPromised DEF Next
<1> QED
  BY <1>1, <1>2, Inductive, PTL DEF Spec, KeepsPromise, Promise!Spec
-----------------------------------------------------------------------------
(* The windows.  Of an event, what was held for it is covered; the rest is *)
(* the excess WindowBound allows for, and all of it once the lease had     *)
(* lapsed.  What is held and what recent events cover fit the limit        *)
(* together: a settlement turns one into the other.                        *)
Recent(w) == {e \in events : e.win = w /\ Counts(e)}
Cover(e) == e.amount - Excess(e)
Covers == [e \in events |-> Cover(e)]
Excesses == [e \in events |-> Excess(e)]

EventsSettled == \A e \in events : outcome[e.id] = "settled"
FiniteWindows == \A w \in Windows : IsFiniteSet({e \in events : e.win = w})
WindowsFit == \A w \in Windows : Total(Recent(w), Covers) + Held(w) <= Limit[w]
WindowInv == EventsSettled /\ FiniteWindows /\ WindowsFit

(* An event covers no more than was held for it, and nothing if it is late. *)
LEMMA CoverTyped ==
  ASSUME IInv, NEW e \in events
  PROVE  /\ e.id \in Ids /\ e.win \in Windows /\ e.amount \in Nat /\ e.at \in 0 .. MaxTime
         /\ Cover(e) \in Nat /\ Excess(e) \in Nat /\ e.amount = Cover(e) + Excess(e)
         /\ Cover(e) <= request[e.id].est[MeterOf[e.win]]
         /\ Late(e) => Cover(e) = 0
<1>1. e.id \in Ids /\ e.win \in Windows /\ e.amount \in Nat /\ e.at \in 0 .. MaxTime
  BY DEF IInv, TypeOK, Events
<1>2. request[e.id].est[MeterOf[e.win]] \in Nat
  BY <1>1, Typed, RowsAssumption DEF IInv, RequestType
<1>3. CASE Late(e)
  BY <1>1, <1>2, <1>3 DEF Cover, Excess
<1>4. CASE ~Late(e)
  BY <1>1, <1>2, <1>4 DEF Cover, Excess, Larger
<1> QED
  BY <1>1, <1>3, <1>4

CoversTyped ==
  \A e \in events :
    /\ Cover(e) \in Nat /\ Cover(e) <= request[e.id].est[MeterOf[e.win]]
    /\ Late(e) => Cover(e) = 0
LEMMA CoversNow == IInv => CoversTyped
BY CoverTyped DEF CoversTyped

LEMMA CoversLater == IInv' => CoversTyped'
BY CoversNow, PTL

SumsTyped ==
  \A w \in Windows :
    /\ IsFiniteSet(Recent(w)) /\ Held(w) \in Nat
    /\ Total(Recent(w), Covers) \in Nat /\ Total(Recent(w), Excesses) \in Nat
    /\ WindowSettled(w) = Total(Recent(w), Covers) + Total(Recent(w), Excesses)

LEMMA SumsNow == IInv /\ FiniteWindows => SumsTyped
<1> SUFFICES ASSUME IInv, FiniteWindows, NEW w \in Windows
             PROVE  /\ IsFiniteSet(Recent(w)) /\ Held(w) \in Nat
                    /\ Total(Recent(w), Covers) \in Nat /\ Total(Recent(w), Excesses) \in Nat
                    /\ WindowSettled(w) = Total(Recent(w), Covers) + Total(Recent(w), Excesses)
  BY DEF SumsTyped
<1> DEFINE S == Recent(w)
           f == Covers
           g == Excesses
           h == [e \in events |-> e.amount]
<1>1. IsFiniteSet(S)
  <2>1. S \subseteq {e \in events : e.win = w}
    BY DEF Recent
  <2> QED
    BY <2>1, FS_Subset DEF FiniteWindows
<1>2. \A e \in S : f[e] \in Nat /\ g[e] \in Nat /\ h[e] = f[e] + g[e]
  <2>1. S \subseteq events
    BY DEF Recent
  <2> QED
    BY <2>1, CoverTyped DEF Covers, Excesses
<1>3. WindowSettled(w) = Total(S, h)
  BY DEF WindowSettled, Recent
<1>4. Held(w) \in Nat
  BY HeldTyped
<1>5. Total(S, f) \in Nat /\ Total(S, g) \in Nat /\ Total(S, h) = Total(S, f) + Total(S, g)
  <2> HIDE DEF S, f, g, h
  <2> QED
    BY <1>1, <1>2, TotalType, TotalSplit
<1> QED
  BY <1>1, <1>3, <1>4, <1>5

LEMMA SumsLater == IInv' /\ FiniteWindows' => SumsTyped'
BY SumsNow, PTL

(* Settled calls keep their estimates and leases, and time does not run    *)
(* back.                                                                   *)
PastStands ==
  /\ now' >= now
  /\ \A i \in Ids : outcome[i] = "settled" =>
       outcome'[i] = "settled" /\ request'[i] = request[i] /\ expires'[i] = expires[i]

LEMMA SameCover ==
  ASSUME IInv, EventsSettled, PastStands, NEW e \in events
  PROVE  Cover(e)' = Cover(e)
<1>1. e.id \in Ids
  BY CoverTyped
<1>2. request'[e.id] = request[e.id] /\ expires'[e.id] = expires[e.id]
  BY <1>1 DEF EventsSettled, PastStands
<1> QED
  BY <1>2 DEF Cover, Excess, Late, Larger

(* While no event is added, what recent events cover only shrinks.         *)
LEMMA WindowAges ==
  ASSUME IInv, IInv', EventsSettled, FiniteWindows, PastStands, events' \subseteq events,
         NEW w \in Windows
  PROVE  Total(Recent(w), Covers)' <= Total(Recent(w), Covers)
<1> DEFINE S == Recent(w)
           T == Recent(w)'
           f == Covers
           g == Covers'
<1>1. T \subseteq S
  BY CoverTyped, RowsAssumption DEF Recent, Counts, PastStands, IInv, TypeOK
<1>2. IsFiniteSet(S)
  BY SumsNow DEF SumsTyped
<1>3. \A e \in S : f[e] \in Nat
  BY CoverTyped DEF Recent, Covers
<1>4. \A e \in T : g[e] \in Nat /\ g[e] <= f[e]
  <2>1. T \subseteq events' /\ S \subseteq events
    BY DEF Recent
  <2>2. \A e \in T : g[e] = Cover(e)' /\ f[e] = Cover(e)
    BY <1>1, <2>1 DEF Covers
  <2>3. \A e \in T : Cover(e)' = Cover(e) /\ Cover(e) \in Nat
    BY <1>1, <2>1, SameCover, CoverTyped
  <2> QED
    BY <2>2, <2>3
<1>5. Total(T, g) <= Total(S, f)
  <2> HIDE DEF S, T, f, g
  <2> QED
    BY <1>1, <1>2, <1>3, <1>4, TotalMonotone
<1> QED
  BY <1>5

(* So does what is held, while no reservation comes to hold.               *)
LEMMA HeldShrinks ==
  ASSUME IInv, NEW w \in Windows, Active(w)' \subseteq Active(w),
         \A i \in Active(w)' : request'[i] = request[i]
  PROVE  Held(w)' <= Held(w)
<1> DEFINE S == Active(w)
           T == Active(w)'
           f == Estimates(w)
           g == Estimates(w)'
<1>1. IsFiniteSet(S) /\ S \subseteq Ids /\ \A i \in S : f[i] \in Nat
  BY HeldTyped
<1>2. \A i \in T : g[i] = f[i]
  BY <1>1 DEF Estimates
<1>3. Total(T, g) <= Total(S, f)
  <2>1. T \subseteq S /\ \A i \in T : g[i] \in Nat /\ g[i] <= f[i]
    BY <1>1, <1>2
  <2> HIDE DEF S, T, f, g
  <2> QED
    BY <1>1, <2>1, TotalMonotone
<1> QED
  BY <1>3 DEF Held, Estimates

(* A step that adds neither events nor holders keeps the windows.          *)
LEMMA QuietWindows ==
  ASSUME IInv, IInv', WindowInv, PastStands, events' \subseteq events,
         \A w \in Windows : /\ Active(w)' \subseteq Active(w)
                            /\ \A i \in Active(w)' : request'[i] = request[i]
  PROVE  WindowInv'
<1> USE DEF WindowInv
<1>1. EventsSettled'
  BY CoverTyped DEF EventsSettled, PastStands
<1>2. FiniteWindows'
  <2> SUFFICES ASSUME NEW w \in Windows PROVE IsFiniteSet({e \in events' : e.win = w})
    BY DEF FiniteWindows
  <2>1. {e \in events' : e.win = w} \subseteq {e \in events : e.win = w}
    OBVIOUS
  <2> QED
    BY <2>1, FS_Subset DEF FiniteWindows
<1>3. WindowsFit'
  <2> SUFFICES ASSUME NEW w \in Windows
               PROVE  Total(Recent(w), Covers)' + Held(w)' <= Limit[w]
    BY DEF WindowsFit
  <2>1. Total(Recent(w), Covers)' <= Total(Recent(w), Covers) /\ Held(w)' <= Held(w)
    BY WindowAges, HeldShrinks
  <2>2. Total(Recent(w), Covers) + Held(w) <= Limit[w] /\ Limit[w] \in Nat
    BY RowsAssumption DEF WindowsFit
  <2>3. SumsTyped /\ SumsTyped'
    BY <1>2, SumsNow, SumsLater
  <2> QED
    BY <2>1, <2>2, <2>3 DEF SumsTyped
<1> QED
  BY <1>1, <1>2, <1>3

(* A grant fits what recent events and the holders leave of each window.   *)
LEMMA GrantFits ==
  ASSUME IInv, IInv', WindowInv, NEW i \in Ids, NEW q \in Requests, Reserve(i, q),
         Refusing(q) = {}, RefusingWindows(q) = {}
  PROVE  WindowInv'
<1> USE DEF WindowInv
<1>1. /\ outcome[i] = "none" /\ now' = now /\ rows' = rows \cup {i} /\ events' \subseteq events
      /\ request' = [request EXCEPT ![i] = q] /\ expires' = [expires EXCEPT ![i] = now + Lease]
      /\ outcome' = [outcome EXCEPT ![i] = "granted"]
  BY DEF Reserve, KeptRows, Purged
<1>2. PastStands
  BY <1>1 DEF PastStands, IInv, TypeOK
<1>3. EventsSettled'
  BY <1>1, <1>2, CoverTyped DEF EventsSettled, PastStands
<1>4. FiniteWindows'
  <2> SUFFICES ASSUME NEW w \in Windows PROVE IsFiniteSet({e \in events' : e.win = w})
    BY DEF FiniteWindows
  <2>1. {e \in events' : e.win = w} \subseteq {e \in events : e.win = w}
    BY <1>1
  <2> QED
    BY <2>1, FS_Subset DEF FiniteWindows
<1>5. SumsTyped /\ SumsTyped'
  BY <1>4, SumsNow, SumsLater
<1>6. WindowsFit'
  <2> SUFFICES ASSUME NEW w \in Windows
               PROVE  Total(Recent(w), Covers)' + Held(w)' <= Limit[w]
    BY DEF WindowsFit
  <2>1. Total(Recent(w), Covers)' <= Total(Recent(w), Covers)
    BY <1>1, <1>2, WindowAges
  <2>2. Total(Recent(w), Covers) + Held(w) <= Limit[w] /\ Limit[w] \in Nat
    BY RowsAssumption DEF WindowsFit
  <2>3. CASE w \in q.wins
    <3>1. Held(w)' = Held(w) + q.est[MeterOf[w]] /\ q.est[MeterOf[w]] \in Nat
      BY <2>3, GrantHolds, RowsAssumption, ProcessesAssumption DEF RequestType
    <3>2. ~(q.est[MeterOf[w]] > Limit[w] - WindowSettled(w) - Held(w))
      BY <2>3 DEF RefusingWindows
    <3> QED
      BY <1>5, <2>1, <2>2, <3>1, <3>2 DEF SumsTyped
  <2>4. CASE w \notin q.wins
    <3>1. w \notin q.keys
      BY RowsAssumption, ProcessesAssumption DEF RequestType
    <3>2. request'[i] = q /\ i \notin rows
      BY <1>1 DEF IInv, TypeOK, RowsGranted
    <3>3. \A j \in Ids \ {i} : request'[j] = request[j] /\ expires'[j] = expires[j]
      BY <1>1 DEF IInv, TypeOK
    <3>4. i \notin Active(w)'
      BY <2>4, <3>1, <3>2 DEF Active, On
    <3>5. Active(w)' \subseteq rows /\ rows \subseteq Ids
      BY <1>1, <3>4 DEF Active, IInv, TypeOK
    <3>6. \A j \in Active(w)' : j \in Active(w) /\ request'[j] = request[j]
      BY <1>1, <3>2, <3>3, <3>5 DEF Active, On
    <3>7. Held(w)' <= Held(w)
      BY <3>6, HeldShrinks
    <3> QED
      BY <1>5, <2>1, <2>2, <3>7 DEF SumsTyped
  <2> QED
    BY <2>3, <2>4
<1> QED
  BY <1>3, <1>4, <1>6

(* A settlement gives back what was held, unless that had lapsed.          *)
Returned(i, w) ==
  IF w \in request[i].wins /\ expires[i] > now THEN request[i].est[MeterOf[w]] ELSE 0

LEMMA SettleReturns ==
  ASSUME IInv, NEW i \in rows, NEW ch \in Charges, Settle(i, ch), NEW w \in Windows
  PROVE  Held(w) = Held(w)' + Returned(i, w) /\ Returned(i, w) \in Nat
<1> DEFINE S == Active(w)
           f == Estimates(w)
<1>1. rows' = rows \ {i} /\ UNCHANGED <<now, request, expires>>
  BY DEF Settle, RowsAfter
<1>2. i \in Ids /\ w \notin request[i].keys
  BY Typed, RowsAssumption DEF RequestType, IInv, TypeOK
<1>3. Active(w)' = S \ {i} /\ Estimates(w)' = f
  BY <1>1 DEF Active, On, Estimates
<1>4. i \in S <=> w \in request[i].wins /\ expires[i] > now
  BY <1>2 DEF Active, On
<1>5. IsFiniteSet(S) /\ (\A j \in Ids : f[j] \in Nat) /\ S \subseteq Ids
      /\ Held(w) = Total(S, f) /\ Held(w) \in Nat
  BY HeldTyped
<1>6. f[i] = request[i].est[MeterOf[w]]
  BY <1>2 DEF Estimates
<1>7. Held(w)' = Total(S \ {i}, f)
  BY <1>3 DEF Held, Estimates
<1>8. IsFiniteSet(S \ {i}) /\ \A j \in S : f[j] \in Nat
  BY <1>5, FS_RemoveElement
<1>9. Total(S \ {i}, f) \in Nat
  <2> HIDE DEF S, f
  <2> QED
    BY <1>8, TotalType
<1>10. CASE i \in S
  <2>1. Total(S, f) = Total(S \ {i}, f) + f[i]
    <3> HIDE DEF S, f
    <3> QED
      BY <1>5, <1>8, <1>10, TotalRemove
  <2> QED
    BY <1>2, <1>4, <1>5, <1>6, <1>7, <1>10, <2>1 DEF Returned
<1>11. CASE i \notin S
  <2>1. Total(S \ {i}, f) = Total(S, f)
    <3>1. S \ {i} = S
      BY <1>11
    <3> HIDE DEF S, f
    <3> QED
      BY <3>1
  <2>2. Returned(i, w) = 0
    BY <1>4, <1>11 DEF Returned
  <2> QED
    BY <1>5, <1>7, <2>1, <2>2
<1> QED
  BY <1>10, <1>11

(* What its event covers is no more than that.                             *)
LEMMA SettleCovers ==
  ASSUME IInv, IInv', WindowInv, FiniteWindows',
         NEW i \in rows, NEW ch \in Charges, Settle(i, ch), NEW w \in Windows
  PROVE  Total(Recent(w), Covers)' <= Total(Recent(w), Covers) + Returned(i, w)
<1>0. PICK new : new = [id |-> i, win |-> w, amount |-> ch[MeterOf[w]], at |-> now]
  OBVIOUS
<1> DEFINE S == Recent(w)
           f == Covers
           g == Covers'
<1> USE DEF WindowInv
<1>1. /\ events' = events \cup Recorded(i, ch) /\ outcome[i] = "granted" /\ i \in Ids
      /\ outcome' = [outcome EXCEPT ![i] = "settled"] /\ UNCHANGED <<now, request, expires>>
  BY DEF Settle, IInv, TypeOK, RowsGranted
<1>2. PastStands
  BY <1>1 DEF PastStands, IInv, TypeOK
<1>3. S \subseteq events /\ new \notin S
  BY <1>0, <1>1 DEF Recent, EventsSettled
<1>4. \A e \in Recorded(i, ch) : e.win = w => e = new
  BY <1>0 DEF Recorded
<1>5. new \in Recorded(i, ch) => w \in request[i].wins
  BY <1>0 DEF Recorded
<1>6. Recent(w)' \subseteq S \cup {new} /\ S \subseteq Recent(w)'
  BY <1>1, <1>4 DEF Recent, Counts
<1>7. \A e \in S : g[e] = f[e] /\ g[e] \in Nat
  <2>1. \A e \in S : Cover(e)' = Cover(e) /\ Cover(e) \in Nat
    BY <1>2, <1>3, SameCover, CoverTyped
  <2> QED
    BY <1>1, <1>3, <2>1 DEF Covers
<1>8. IsFiniteSet(S) /\ Total(S, f) \in Nat
  BY SumsNow DEF SumsTyped
<1>9. Returned(i, w) \in Nat
  BY SettleReturns
<1>10. CASE new \in Recent(w)'
  <2>1. Recent(w)' = S \cup {new} /\ new \in events'
    BY <1>6, <1>10 DEF Recent
  <2>2. w \in request[i].wins
    BY <1>0, <1>1, <1>3, <1>5, <1>10, <2>1 DEF EventsSettled
  <2>3. /\ Cover(new)' \in Nat /\ Cover(new)' <= request[i].est[MeterOf[w]]
        /\ Late(new) => Cover(new)' = 0
    <3>1. \A e \in events' : /\ Cover(e)' \in Nat
                             /\ Cover(e)' <= request'[e.id].est[MeterOf[e.win]]
                             /\ Late(e)' => Cover(e)' = 0
      BY CoversLater DEF CoversTyped
    <3>2. Late(new)' <=> Late(new)
      BY <1>1 DEF Late
    <3> QED
      BY <1>0, <1>1, <2>1, <3>1, <3>2
  <2>4. g[new] = Cover(new)'
    BY <2>1 DEF Covers
  <2>5. g[new] \in Nat /\ g[new] <= Returned(i, w)
    BY <1>0, <1>1, <2>2, <2>3, <2>4 DEF Returned, Late, IInv, TypeOK
  <2>6. Total(S \cup {new}, g) = Total(S, f) + g[new]
    <3> HIDE DEF S, f, g
    <3> QED
      BY <1>3, <1>7, <1>8, <2>5, TotalGains
  <2>7. Total(Recent(w), Covers)' = Total(S \cup {new}, g)
    BY <2>1
  <2> QED
    BY <1>8, <1>9, <2>5, <2>6, <2>7
<1>11. CASE new \notin Recent(w)'
  <2>1. Recent(w)' = S
    BY <1>6, <1>11
  <2>2. Total(S, g) = Total(S, f)
    <3> HIDE DEF S, f, g
    <3> QED
      BY <1>7, TotalAgree
  <2> QED
    BY <1>8, <1>9, <2>1, <2>2
<1> QED
  BY <1>10, <1>11

LEMMA SettleFits ==
  ASSUME IInv, IInv', WindowInv, NEW i \in rows, NEW ch \in Charges, Settle(i, ch)
  PROVE  WindowInv'
<1> USE DEF WindowInv
<1>1. /\ events' = events \cup Recorded(i, ch) /\ i \in Ids
      /\ outcome' = [outcome EXCEPT ![i] = "settled"]
  BY DEF Settle, IInv, TypeOK
<1>2. EventsSettled'
  <2>1. \A e \in Recorded(i, ch) : e.id = i
    BY DEF Recorded
  <2> QED
    BY <1>1, <2>1, CoverTyped DEF EventsSettled, IInv, TypeOK
<1>3. FiniteWindows'
  <2> SUFFICES ASSUME NEW w \in Windows PROVE IsFiniteSet({e \in events' : e.win = w})
    BY DEF FiniteWindows
  <2> DEFINE S == {e \in events : e.win = w}
             new == [id |-> i, win |-> w, amount |-> ch[MeterOf[w]], at |-> now]
  <2>1. IsFiniteSet(S \cup {new})
    BY FS_AddElement DEF FiniteWindows
  <2>2. {e \in events' : e.win = w} \subseteq S \cup {new}
    BY <1>1 DEF Recorded
  <2> QED
    BY <2>1, <2>2, FS_Subset
<1>4. WindowsFit'
  <2> SUFFICES ASSUME NEW w \in Windows
               PROVE  Total(Recent(w), Covers)' + Held(w)' <= Limit[w]
    BY DEF WindowsFit
  <2>1. Total(Recent(w), Covers)' <= Total(Recent(w), Covers) + Returned(i, w)
    BY <1>3, SettleCovers
  <2>2. Held(w) = Held(w)' + Returned(i, w) /\ Returned(i, w) \in Nat
    BY SettleReturns
  <2>3. Total(Recent(w), Covers) + Held(w) <= Limit[w] /\ Limit[w] \in Nat
    BY RowsAssumption DEF WindowsFit
  <2>4. SumsTyped /\ SumsTyped'
    BY <1>3, SumsNow, SumsLater
  <2> QED
    BY <2>1, <2>2, <2>3, <2>4 DEF SumsTyped
<1> QED
  BY <1>2, <1>3, <1>4

(* Each transaction keeps the windows.                                     *)
LEMMA WindowsKeep == IInv /\ IInv' /\ WindowInv /\ [Next]_vars => WindowInv'
<1> SUFFICES ASSUME IInv, IInv', WindowInv, [Next]_vars PROVE WindowInv'
  OBVIOUS
<1> USE DEF history
<1>1. ASSUME NEW i \in Ids, NEW q \in Requests, Reserve(i, q) PROVE WindowInv'
  <2>1. CASE Refusing(q) = {} /\ RefusingWindows(q) = {}
    BY <1>1, <2>1, GrantFits
  <2>2. CASE ~(Refusing(q) = {} /\ RefusingWindows(q) = {})
    <3>1. UNCHANGED <<now, rows, request, expires, outcome>> /\ events' \subseteq events
      BY <1>1, <2>2 DEF Reserve, Purged
    <3> QED
      BY <3>1, QuietWindows DEF PastStands, Active, On, IInv, TypeOK
  <2> QED
    BY <2>1, <2>2
<1>2. ASSUME NEW i \in Ids, NEW ch \in Charges, Settle(i, ch) PROVE WindowInv'
  <2>1. CASE i \in rows
    BY <1>2, <2>1, SettleFits
  <2>2. CASE i \notin rows
    <3>1. UNCHANGED <<now, rows, request, expires, outcome, events>>
      BY <1>2, <2>2 DEF Settle
    <3> QED
      BY <3>1, QuietWindows DEF PastStands, Active, On, IInv, TypeOK
  <2> QED
    BY <2>1, <2>2
<1>3. ASSUME NEW i \in Ids, Release(i) PROVE WindowInv'
  <2>1. rows' = rows \ {i} /\ UNCHANGED <<now, request, expires, events>>
        /\ outcome' = [outcome EXCEPT ![i] = IF i \in rows THEN "released" ELSE @]
    BY <1>3 DEF Release
  <2>2. PastStands
    BY <2>1 DEF PastStands, IInv, TypeOK, RowsGranted
  <2> QED
    BY <2>1, <2>2, QuietWindows DEF Active, On
<1>4. ASSUME NEW i \in Ids, Renew(i) PROVE WindowInv'
  <2>1. /\ UNCHANGED <<now, rows, request, events, outcome>> /\ i \in rows /\ expires[i] > now
        /\ expires' = [expires EXCEPT ![i] = now + Lease]
    BY <1>4 DEF Renew, Renewable
  <2>2. PastStands
    BY <2>1 DEF PastStands, IInv, TypeOK, RowsGranted
  <2>3. \A j \in Ids \ {i} : expires'[j] = expires[j]
    BY <2>1 DEF IInv, TypeOK
  <2>4. \A w \in Windows : Active(w)' \subseteq Active(w)
    BY <2>1, <2>3 DEF Active, On, IInv, TypeOK
  <2> QED
    BY <2>1, <2>2, <2>4, QuietWindows
<1>5. ASSUME NEW i \in Ids, Crash(i) PROVE WindowInv'
  BY <1>5, QuietWindows DEF Crash, PastStands, Active, On, IInv, TypeOK
<1>6. CASE Compact
  <2>1. /\ rows' \subseteq rows /\ UNCHANGED <<now, request, expires, events>>
        /\ \A j \in Ids : outcome'[j] = IF j \in rows /\ expires[j] <= now THEN "swept" ELSE outcome[j]
    BY <1>6 DEF Compact
  <2>2. PastStands
    BY <2>1 DEF PastStands, IInv, TypeOK, RowsGranted
  <2> QED
    BY <2>1, <2>2, QuietWindows DEF Active, On
<1>7. CASE Tick
  <2>1. now' = now + 1 /\ UNCHANGED <<rows, request, expires, events, outcome>>
    BY <1>7 DEF Tick
  <2>2. PastStands /\ \A w \in Windows : Active(w)' \subseteq Active(w)
    BY <2>1 DEF PastStands, Active, On, IInv, TypeOK
  <2> QED
    BY <2>1, <2>2, QuietWindows
<1>8. CASE UNCHANGED vars
  BY <1>8, QuietWindows DEF vars, PastStands, Active, On, IInv, TypeOK
<1> QED
  BY <1>1, <1>2, <1>3, <1>4, <1>5, <1>6, <1>7, <1>8 DEF Next

LEMMA WindowsStart == Init => WindowInv
<1> SUFFICES ASSUME Init PROVE WindowInv
  OBVIOUS
<1>1. events = {} /\ rows = {}
  BY DEF Init
<1>2. EventsSettled
  BY <1>1 DEF EventsSettled
<1>3. FiniteWindows
  BY <1>1, FS_EmptySet DEF FiniteWindows
<1>4. WindowsFit
  <2> SUFFICES ASSUME NEW w \in Windows
               PROVE  Total(Recent(w), Covers) + Held(w) <= Limit[w]
    BY DEF WindowsFit
  <2>1. Recent(w) = {} /\ Active(w) = {}
    BY <1>1 DEF Recent, Active
  <2>2. Total(Recent(w), Covers) = 0 /\ Held(w) = 0
    BY <2>1, TotalEmpty DEF Held
  <2> QED
    BY <2>2, RowsAssumption
<1> QED
  BY <1>2, <1>3, <1>4 DEF WindowInv

(* What a window's recent events and its holders take never exceeds its    *)
(* limit by more than settlements took beyond what was held for them       *)
(* (_pollard_reserve, _pollard_settle, WindowMeter).                       *)
THEOREM WindowNeverOverGranted == Spec => []WindowBound
<1>1. IInv /\ WindowInv => WindowBound
  <2> SUFFICES ASSUME IInv, WindowInv, NEW w \in Windows
               PROVE  WindowSettled(w) + Held(w) <= Limit[w] + Total(Recent(w), Excesses)
    BY DEF WindowBound, Recent, Excesses
  <2>1. SumsTyped
    BY SumsNow DEF WindowInv
  <2> QED
    BY <2>1, RowsAssumption DEF SumsTyped, WindowInv, WindowsFit
<1> QED
  BY <1>1, WindowsStart, WindowsKeep, Inductive, PTL DEF Spec
=============================================================================
