--------------------------- MODULE KVArbiterProofs ---------------------------
(***************************************************************************)
(* Proofs about KVArbiter for any number of reservations, rows, windows,   *)
(* limits, requests and charges, and a clock without bound.                *)
(***************************************************************************)
EXTENDS KVArbiter

(* Every field keeps its type: in particular no stored amount, charge or   *)
(* expiry becomes negative or undefined.                                   *)
THEOREM TypeCorrect == Spec => []TypeOK
<1>1. Init => TypeOK
  BY DEF Init, TypeOK, NoRequest, NoCharge, RequestType, ChargeType, States
<1>2. TypeOK /\ [Next]_vars => TypeOK'
  <2> SUFFICES ASSUME TypeOK, [Next]_vars PROVE TypeOK'
    OBVIOUS
  <2> USE RowsAssumption, LeaseAssumption, ClientsAssumption DEF TypeOK, Rows
  <2>1. ASSUME NEW i \in Ids, NEW q \in Requests, Reserve(i, q) PROVE TypeOK'
    <3>1. q \in RequestType
      OBVIOUS
    <3>2. SyncRows(q) => budget' \in [Keys -> Nat] /\ present' \in SUBSET Keys
      BY <3>1 DEF SyncRows, Visited, Synced, Larger, RequestType
    <3>3. Purged \in SUBSET (Ids \X Windows)
      BY DEF Purged
    <3>4. CASE RetryReserve(i, q)
      BY <3>4 DEF RetryReserve, vars, reservations, ledger
    <3>5. CASE RefuseByBudget(i, q)
      BY <3>2, <3>5 DEF RefuseByBudget, reservations
    <3>6. CASE RefuseByWindow(i, q)
      BY <3>2, <3>3, <3>6 DEF RefuseByWindow, reservations
    <3>7. CASE Grant(i, q)
      BY <3>1, <3>2, <3>3, <3>7 DEF Grant, Expiry, States
    <3> QED
      BY <2>1, <3>4, <3>5, <3>6, <3>7 DEF Reserve
  <2>2. ASSUME NEW i \in Ids, NEW ch \in Charges, Settle(i, ch) PROVE TypeOK'
    <3>1. ch \in [Meters -> Nat]
      BY DEF ChargeType
    <3>2. CASE SettleActive(i, ch)
      <4>1. budget' \in [Keys -> Nat]
        BY <3>1, <3>2 DEF SettleActive, SettledBudget
      <4>2. events' \in SUBSET (Ids \X Windows)
        BY <3>2 DEF SettleActive, SettledEvents, RequestType
      <4> QED
        BY <3>1, <3>2, <4>1, <4>2 DEF SettleActive, States, ChargeType
    <3>3. CASE RetrySettle(i, ch)
      BY <3>3 DEF RetrySettle, vars, reservations, ledger
    <3> QED
      BY <2>2, <3>2, <3>3 DEF Settle
  <2>3. ASSUME NEW i \in Ids, Release(i) PROVE TypeOK'
    <3>1. CASE UNCHANGED vars
      BY <3>1 DEF vars, reservations, ledger
    <3>2. CASE ~ UNCHANGED vars
      <4>1. /\ state' = [state EXCEPT ![i] = "released"]
            /\ completed' = [completed EXCEPT ![i] = now]
            /\ UNCHANGED <<now, request, expires, paid, budget, present, events>>
        BY <2>3, <3>2, Zenon DEF Release, ledger
      <4> QED
        BY <4>1 DEF States
    <3> QED
      BY <3>1, <3>2
  <2>4. ASSUME NEW i \in Ids, Renew(i) PROVE TypeOK'
    <3>1. CASE UNCHANGED vars
      BY <3>1 DEF vars, reservations, ledger
    <3>2. CASE ~ UNCHANGED vars
      <4>1. Expiry \in Nat
        BY DEF Expiry
      <4>2. expires' = [expires EXCEPT ![i] = Expiry]
        BY <2>4, <3>2 DEF Renew
      <4>3. expires' \in [Ids -> Nat]
        BY <4>1, <4>2
      <4> QED
        BY <2>4, <3>2, <4>3 DEF Renew, ledger
    <3> QED
      BY <3>1, <3>2
  <2>5. CASE Tick
    BY <2>5 DEF Tick, reservations, ledger
  <2>6. CASE UNCHANGED vars
    BY <2>6 DEF vars, reservations, ledger
  <2> QED
    BY <2>1, <2>2, <2>3, <2>4, <2>5, <2>6 DEF Next
<1> QED
  BY <1>1, <1>2, PTL DEF Spec

-----------------------------------------------------------------------------
(* The inductive invariant.  A settlement is split into what its own       *)
(* reservation covered and the excess; the covered parts and what is held  *)
(* always fit in the limit, because a settlement moves at most its held    *)
(* estimate from one to the other.                                         *)

Within(i, r) == paid[i][MeterOf[r]] - Excess(i, r)
Withins(r) == [i \in Ids |-> Within(i, r)]

EventsSettled ==
  \A i \in Ids, w \in Windows :
    <<i, w>> \in events => state[i] = "settled" /\ w \in request[i].wins

KeysWithin ==
  \A k \in Keys : Total(Payers(k), Withins(k)) + Held(k) <= Limit[k]
WindowsWithin ==
  \A w \in Windows : Total(Recent(w), Withins(w)) + Held(w) <= Limit[w]

IInv ==
  /\ EventsSettled
  /\ NoRecentEventLost
  /\ LedgerCoversCharges
  /\ KeysWithin
  /\ WindowsWithin

-----------------------------------------------------------------------------
(* What the definitions are made of, in one state.                         *)

(* Amounts of a row are natural numbers, and a settlement is the sum of    *)
(* its covered part and its excess.                                        *)
LEMMA Amounts ==
  ASSUME TypeOK, NEW r \in Rows, NEW i \in Ids
  PROVE  /\ Estimates(r)[i] = request[i].est[MeterOf[r]]
         /\ Estimates(r)[i] \in Nat
         /\ Bills(r)[i] = paid[i][MeterOf[r]]
         /\ Bills(r)[i] \in Nat
         /\ Excesses(r)[i] \in Nat
         /\ Withins(r)[i] \in Nat
         /\ Bills(r)[i] = Withins(r)[i] + Excesses(r)[i]
<1> USE RowsAssumption
<1>1. MeterOf[r] \in Meters
  OBVIOUS
<1>2. request[i].est[MeterOf[r]] \in Nat
  BY <1>1 DEF TypeOK, RequestType
<1>3. paid[i][MeterOf[r]] \in Nat
  BY <1>1 DEF TypeOK, ChargeType
<1>4. Excess(i, r) \in Nat /\ Excess(i, r) <= paid[i][MeterOf[r]]
  BY <1>2, <1>3 DEF Excess, Larger
<1>5. Within(i, r) \in Nat /\ paid[i][MeterOf[r]] = Within(i, r) + Excess(i, r)
  BY <1>3, <1>4 DEF Within
<1> QED
  BY <1>2, <1>3, <1>4, <1>5 DEF Estimates, Bills, Excesses, Withins

(* So are their sums. *)
LEMMA Sums ==
  ASSUME TypeOK, NEW r \in Rows
  PROVE  /\ IsFiniteSet(Holders(r)) /\ Held(r) \in Nat
         /\ IsFiniteSet(Payers(r)) /\ Paid(r) \in Nat
         /\ Total(Payers(r), Withins(r)) \in Nat
         /\ Total(Payers(r), Excesses(r)) \in Nat
         /\ Paid(r) = Total(Payers(r), Withins(r)) + Total(Payers(r), Excesses(r))
         /\ IsFiniteSet(Recent(r)) /\ WindowSettled(r) \in Nat
         /\ Total(Recent(r), Withins(r)) \in Nat
         /\ Total(Recent(r), Excesses(r)) \in Nat
         /\ WindowSettled(r) = Total(Recent(r), Withins(r)) + Total(Recent(r), Excesses(r))
<1>1. \A S \in SUBSET Ids : IsFiniteSet(S)
  BY ClientsAssumption, FS_Subset
<1>2. Holders(r) \in SUBSET Ids /\ Payers(r) \in SUBSET Ids /\ Recent(r) \in SUBSET Ids
  BY DEF Holders, Payers, Recent
<1>3. \A i \in Ids : /\ Estimates(r)[i] \in Nat /\ Bills(r)[i] \in Nat
                     /\ Excesses(r)[i] \in Nat /\ Withins(r)[i] \in Nat
                     /\ Bills(r)[i] = Withins(r)[i] + Excesses(r)[i]
  BY Amounts
<1>4. IsFiniteSet(Holders(r)) /\ IsFiniteSet(Payers(r)) /\ IsFiniteSet(Recent(r))
  BY <1>1, <1>2
<1>5. Held(r) \in Nat
  BY <1>2, <1>3, <1>4, TotalType DEF Held
<1>6. \A S \in {Payers(r), Recent(r)} :
        /\ Total(S, Bills(r)) \in Nat
        /\ Total(S, Withins(r)) \in Nat
        /\ Total(S, Excesses(r)) \in Nat
        /\ Total(S, Bills(r)) = Total(S, Withins(r)) + Total(S, Excesses(r))
  <2> SUFFICES ASSUME NEW S \in SUBSET Ids, IsFiniteSet(S)
               PROVE  /\ Total(S, Bills(r)) \in Nat
                      /\ Total(S, Withins(r)) \in Nat
                      /\ Total(S, Excesses(r)) \in Nat
                      /\ Total(S, Bills(r)) = Total(S, Withins(r)) + Total(S, Excesses(r))
    BY <1>2, <1>4
  <2>1. Total(S, Bills(r)) \in Nat
    BY <1>3, TotalType
  <2>2. Total(S, Withins(r)) \in Nat
    BY <1>3, TotalType
  <2>3. Total(S, Excesses(r)) \in Nat
    BY <1>3, TotalType
  <2>4. Total(S, Bills(r)) = Total(S, Withins(r)) + Total(S, Excesses(r))
    BY <1>3, TotalSplit
  <2> QED
    BY <2>1, <2>2, <2>3, <2>4
<1> QED
  BY <1>4, <1>5, <1>6 DEF Paid, WindowSettled

(* The sums of the next state are of the same type. *)
SumsTyped ==
  \A r \in Rows :
    /\ Held(r) \in Nat
    /\ Total(Payers(r), Withins(r)) \in Nat
    /\ Total(Recent(r), Withins(r)) \in Nat
LEMMA SumsNow == TypeOK => SumsTyped
BY Sums DEF SumsTyped
LEMMA SumsLater == TypeOK' => SumsTyped'
BY SumsNow, PTL
LEMMA SumsNext ==
  ASSUME TypeOK', NEW r \in Rows
  PROVE  /\ Held(r)' \in Nat
         /\ Total(Payers(r), Withins(r))' \in Nat
         /\ Total(Recent(r), Withins(r))' \in Nat
BY SumsLater DEF SumsTyped

(* The invariant gives the bounds the runs check. *)
LEMMA Bounds ==
  ASSUME TypeOK, IInv
  PROVE  CapacityBound /\ WindowBound
<1>1. ASSUME NEW k \in Keys
      PROVE  Paid(k) + Held(k) <= Limit[k] + Total(Payers(k), Excesses(k))
  <2>1. k \in Rows /\ Limit[k] \in Nat
    BY RowsAssumption DEF Rows
  <2> QED
    BY <2>1, Sums DEF IInv, KeysWithin
<1>2. ASSUME NEW w \in Windows
      PROVE  WindowSettled(w) + Held(w) <= Limit[w] + Total(Recent(w), Excesses(w))
  <2>1. w \in Rows /\ Limit[w] \in Nat
    BY RowsAssumption DEF Rows
  <2> QED
    BY <2>1, Sums DEF IInv, WindowsWithin
<1> QED
  BY <1>1, <1>2 DEF CapacityBound, WindowBound

-----------------------------------------------------------------------------
(* How a step changes what is held of a row.                               *)

(* A grant adds its estimate to each of its rows and to no other. *)
LEMMA GrantHolds ==
  ASSUME TypeOK, NEW i \in Ids, NEW q \in Requests, Grant(i, q), NEW r \in Rows
  PROVE  Held(r)' = Held(r) + (IF r \in q.keys \cup q.wins THEN q.est[MeterOf[r]] ELSE 0)
<1>1. i \notin Holders(r)
  BY DEF Grant, Holders, Live
<1>2. /\ now' = now
      /\ state'[i] = "active" /\ request'[i] = q /\ expires'[i] = now + Lease
      /\ \A j \in Ids \ {i} : /\ state'[j] = state[j] /\ request'[j] = request[j]
                               /\ expires'[j] = expires[j]
  BY DEF Grant, TypeOK, Expiry
<1>3. Live(i)'
  BY <1>2, LeaseAssumption DEF Live, TypeOK
<1>4. \A j \in Ids \ {i} : (j \in Holders(r)) <=> (j \in Holders(r)')
  BY <1>2 DEF Holders, Live, On, Details
<1>5. \A j \in Ids \ {i} : Estimates(r)'[j] = Estimates(r)[j]
  BY <1>2 DEF Estimates
<1>6. Estimates(r)'[i] = q.est[MeterOf[r]] /\ q.est[MeterOf[r]] \in Nat
  BY <1>2, RowsAssumption, ClientsAssumption DEF Estimates, RequestType
<1>7. Holders(r) \subseteq Ids /\ Holders(r)' \subseteq Ids
  BY DEF Holders
<1>8. \A j \in Holders(r) : Estimates(r)[j] \in Nat /\ Estimates(r)'[j] = Estimates(r)[j]
  BY <1>1, <1>5, <1>7, Amounts
<1>9. CASE r \in q.keys \cup q.wins
  <2>1. Holders(r)' = Holders(r) \cup {i}
    BY <1>1, <1>2, <1>3, <1>4, <1>7, <1>9 DEF Holders, On, Details
  <2>2. Total(Holders(r) \cup {i}, Estimates(r)') = Total(Holders(r), Estimates(r)) + Estimates(r)'[i]
    <3> DEFINE S == Holders(r)
               f == Estimates(r)
               g == Estimates(r)'
    <3>1. IsFiniteSet(S) /\ i \notin S /\ g[i] \in Nat
      BY <1>1, <1>6, Sums
    <3>2. \A j \in S : g[j] = f[j]
      BY <1>8
    <3>3. \A j \in S : g[j] \in Nat
      BY <1>8
    <3> HIDE DEF S, f, g
    <3>4. Total(S \cup {i}, g) = Total(S, f) + g[i]
      BY <3>1, <3>2, <3>3, TotalGains
    <3> QED
      BY <3>4 DEF S, f, g
  <2> QED
    BY <1>6, <1>9, <2>1, <2>2 DEF Held
<1>10. CASE r \notin q.keys \cup q.wins
  <2>1. i \notin Holders(r)'
    BY <1>2, <1>10 DEF Holders, On, Details
  <2>2. Holders(r)' = Holders(r)
    BY <1>1, <1>4, <1>7, <2>1
  <2>3. Held(r)' = Held(r)
    BY <1>8, <2>2, TotalAgree DEF Held
  <2> QED
    BY <1>10, <2>3, Sums
<1> QED
  BY <1>9, <1>10

(* Ending a reservation takes back exactly what it held, if anything. *)
LEMMA EndReturns ==
  ASSUME TypeOK, NEW i \in Ids, NEW s, s # "active", state' = [state EXCEPT ![i] = s],
         UNCHANGED <<now, request, expires>>, NEW r \in Rows
  PROVE  Held(r) = Held(r)' + (IF Live(i) /\ On(i, r) THEN Estimates(r)[i] ELSE 0)
<1>1. state'[i] # "active" /\ \A j \in Ids \ {i} : state'[j] = state[j]
  BY DEF TypeOK
<1>2. Estimates(r)' = Estimates(r)
  BY DEF Estimates
<1>3. Holders(r)' = Holders(r) \ {i}
  BY <1>1 DEF Holders, Live, On, Details
<1>4. \A j \in Holders(r) : Estimates(r)[j] \in Nat
  BY Amounts DEF Holders
<1>5. (i \in Holders(r)) <=> (Live(i) /\ On(i, r))
  BY DEF Holders
<1>6. CASE i \in Holders(r)
  <2>1. Total(Holders(r), Estimates(r)) = Total(Holders(r) \ {i}, Estimates(r)) + Estimates(r)[i]
    BY <1>4, <1>6, Sums, TotalRemove
  <2> QED
    BY <1>2, <1>3, <1>5, <1>6, <2>1 DEF Held
<1>7. CASE i \notin Holders(r)
  <2>1. Holders(r)' = Holders(r)
    BY <1>3, <1>7
  <2>2. Held(r)' = Held(r)
    BY <1>2, <2>1 DEF Held
  <2> QED
    BY <1>5, <1>7, <2>2, Sums
<1> QED
  BY <1>6, <1>7

(* Renewals and the passing of time never add to what is held. *)
LEMMA TimeReturns ==
  ASSUME TypeOK, NEW r \in Rows, UNCHANGED <<state, request>>,
         \A i \in Ids : Live(i)' => Live(i)
  PROVE  Held(r)' <= Held(r)
<1>1. Holders(r)' \subseteq Holders(r)
  BY DEF Holders, On, Details
<1>2. Estimates(r)' = Estimates(r)
  BY DEF Estimates
<1>3. \A j \in Holders(r) : Estimates(r)[j] \in Nat /\ Estimates(r)[j] <= Estimates(r)[j]
  BY Amounts DEF Holders
<1>4. Total(Holders(r)', Estimates(r)) <= Total(Holders(r), Estimates(r))
  BY <1>1, <1>3, Sums, TotalMonotone
<1> QED
  BY <1>2, <1>4 DEF Held

-----------------------------------------------------------------------------
(* How a step changes what has been settled in a row.                      *)

(* The settled reservations are the same and stand as they were. *)
SameSettled ==
  \A i \in Ids :
    /\ (state'[i] = "settled") <=> (state[i] = "settled")
    /\ state[i] = "settled" => /\ request'[i] = request[i] /\ expires'[i] = expires[i]
                               /\ paid'[i] = paid[i] /\ completed'[i] = completed[i]

(* A settled reservation that stands as it was counts for the same amounts. *)
LEMMA SameAmounts ==
  ASSUME NEW i \in Ids, NEW r,
         request'[i] = request[i], expires'[i] = expires[i],
         paid'[i] = paid[i], completed'[i] = completed[i]
  PROVE  Bills(r)'[i] = Bills(r)[i] /\ Withins(r)'[i] = Withins(r)[i]
BY DEF Bills, Withins, Within, Excess, Late

(* Then nothing changes in what was paid into a row. *)
LEMMA SettledKeeps ==
  ASSUME SameSettled, NEW r \in Rows
  PROVE  /\ Paid(r)' = Paid(r)
         /\ Total(Payers(r), Withins(r))' = Total(Payers(r), Withins(r))
<1>1. Payers(r)' = Payers(r)
  BY DEF SameSettled, Payers
<1>2. \A i \in Payers(r) : Bills(r)[i] = Bills(r)'[i] /\ Withins(r)[i] = Withins(r)'[i]
  BY SameAmounts DEF SameSettled, Payers
<1>3. Total(Payers(r), Bills(r)) = Total(Payers(r), Bills(r)')
  BY <1>2, TotalAgree
<1>4. Total(Payers(r), Withins(r)) = Total(Payers(r), Withins(r)')
  BY <1>2, TotalAgree
<1> QED
  BY <1>1, <1>3, <1>4 DEF Paid

(* And the events of a window only age out of it. *)
LEMMA WindowAges ==
  ASSUME TypeOK, EventsSettled, SameSettled, events' \subseteq events,
         now' \in Nat, now <= now', NEW w \in Windows
  PROVE  Total(Recent(w), Withins(w))' <= Total(Recent(w), Withins(w))
<1>1. \A i \in Ids : <<i, w>> \in events => state[i] = "settled"
  BY DEF EventsSettled
<1>2. Recent(w)' \subseteq Recent(w)
  <2> SUFFICES ASSUME NEW i \in Recent(w)' PROVE i \in Recent(w)
    OBVIOUS
  <2>1. i \in Ids /\ <<i, w>> \in events /\ completed'[i] > now' - Span[w]
    BY DEF Recent, InWindow
  <2>2. completed'[i] = completed[i] /\ completed[i] \in Nat
    BY <1>1, <2>1 DEF SameSettled, TypeOK
  <2>3. Span[w] \in Nat /\ now \in Nat
    BY RowsAssumption DEF TypeOK
  <2> QED
    BY <2>1, <2>2, <2>3 DEF Recent, InWindow
<1>3. \A i \in Recent(w)' : Withins(w)'[i] = Withins(w)[i]
  BY <1>1, <1>2, SameAmounts DEF SameSettled, Recent
<1>4. w \in Rows
  BY DEF Rows
<1>5. IsFiniteSet(Recent(w)) /\ \A i \in Recent(w) : Withins(w)[i] \in Nat
  BY <1>4, Sums, Amounts DEF Recent
<1>6. Total(Recent(w)', Withins(w)) <= Total(Recent(w), Withins(w))
  BY <1>2, <1>5, TotalMonotone
<1>7. Total(Recent(w)', Withins(w)') = Total(Recent(w)', Withins(w))
  BY <1>3, TotalAgree
<1> QED
  BY <1>6, <1>7

(* What a settlement is covered for is at most what was still held for it. *)
LEMMA SettledWithin ==
  ASSUME TypeOK, NEW i \in Ids, NEW ch \in Charges, SettleActive(i, ch), NEW r \in Rows
  PROVE  /\ Withins(r)'[i] \in Nat
         /\ Withins(r)'[i] <= IF Live(i) THEN Estimates(r)[i] ELSE 0
         /\ Bills(r)'[i] = ch[MeterOf[r]]
         /\ Bills(r)'[i] \in Nat
<1>1. /\ paid'[i] = ch /\ completed'[i] = now /\ expires'[i] = expires[i]
      /\ request'[i] = request[i]
  BY DEF SettleActive, TypeOK
<1>2. ch[MeterOf[r]] \in Nat /\ Estimates(r)[i] \in Nat /\ expires[i] \in Nat /\ now \in Nat
  BY RowsAssumption, ClientsAssumption, Amounts DEF ChargeType, TypeOK
<1>3. Estimates(r)[i] = request[i].est[MeterOf[r]]
  BY DEF Estimates
<1>4. Late(i)' <=> ~ Live(i)
  BY <1>1, <1>2 DEF Late, Live, SettleActive, CanSettle
<1>5. Withins(r)'[i] = ch[MeterOf[r]] - Excess(i, r)'
  BY <1>1 DEF Withins, Within
<1>6. Excess(i, r)' = IF Live(i) THEN Larger(0, ch[MeterOf[r]] - Estimates(r)[i])
                                ELSE ch[MeterOf[r]]
  BY <1>1, <1>3, <1>4 DEF Excess, Larger
<1>7. Bills(r)'[i] = ch[MeterOf[r]]
  BY <1>1 DEF Bills
<1> QED
  BY <1>2, <1>5, <1>6, <1>7 DEF Larger

(* A settlement pays its charge into each of its budget rows and no other. *)
LEMMA SettlePays ==
  ASSUME TypeOK, NEW i \in Ids, NEW ch \in Charges, SettleActive(i, ch), NEW k \in Keys
  PROVE  /\ Paid(k)' = Paid(k) + (IF k \in request[i].keys THEN ch[MeterOf[k]] ELSE 0)
         /\ Total(Payers(k), Withins(k))' <=
              Total(Payers(k), Withins(k)) + (IF Live(i) /\ On(i, k) THEN Estimates(k)[i] ELSE 0)
<1>1. k \in Rows
  BY DEF Rows
<1>2. /\ state[i] = "active" /\ state'[i] = "settled" /\ request' = request /\ expires' = expires
      /\ \A j \in Ids \ {i} : /\ state'[j] = state[j] /\ paid'[j] = paid[j]
                               /\ completed'[j] = completed[j]
  BY DEF SettleActive, CanSettle, TypeOK
<1>3. i \notin Payers(k)
  BY <1>2 DEF Payers
<1>4. Payers(k)' = IF k \in request[i].keys THEN Payers(k) \cup {i} ELSE Payers(k)
  BY <1>2 DEF Payers
<1>5. \A j \in Payers(k) : Bills(k)'[j] = Bills(k)[j] /\ Withins(k)'[j] = Withins(k)[j]
  <2> SUFFICES ASSUME NEW j \in Payers(k)
               PROVE  Bills(k)'[j] = Bills(k)[j] /\ Withins(k)'[j] = Withins(k)[j]
    OBVIOUS
  <2>1. j \in Ids \ {i}
    BY <1>3 DEF Payers
  <2> QED
    BY <1>2, <2>1, SameAmounts
<1>6. \A j \in Payers(k) : Bills(k)[j] \in Nat /\ Withins(k)[j] \in Nat
  BY <1>1, Amounts DEF Payers
<1> DEFINE S == Payers(k)
           b == Bills(k)
           bb == Bills(k)'
           v == Withins(k)
           vv == Withins(k)'
<1>7. IsFiniteSet(S) /\ i \notin S
  BY <1>1, <1>3, Sums
<1>8. bb[i] \in Nat /\ bb[i] = ch[MeterOf[k]] /\ vv[i] \in Nat
      /\ vv[i] <= IF Live(i) THEN Estimates(k)[i] ELSE 0
  BY <1>1, SettledWithin
<1>9. \A j \in S : bb[j] = b[j] /\ vv[j] = v[j] /\ bb[j] \in Nat /\ vv[j] \in Nat
  BY <1>5, <1>6
<1>10. Total(S, b) \in Nat /\ Total(S, v) \in Nat
  BY <1>1, Sums DEF Paid
<1>11. Estimates(k)[i] \in Nat
  BY <1>1, Amounts
<1>12. CASE k \in request[i].keys
  <2>1. Payers(k)' = S \cup {i}
    BY <1>4, <1>12
  <2>2. Total(S \cup {i}, bb) = Total(S, b) + bb[i]
    <3>1. \A j \in S : bb[j] \in Nat
      BY <1>9
    <3>2. \A j \in S : bb[j] = b[j]
      BY <1>9
    <3>3. bb[i] \in Nat
      BY <1>8
    <3> HIDE DEF S, b, bb, v, vv
    <3> QED
      BY <1>7, <3>1, <3>2, <3>3, TotalGains
  <2>3. Total(S \cup {i}, vv) = Total(S, v) + vv[i]
    <3>1. \A j \in S : vv[j] \in Nat
      BY <1>9
    <3>2. \A j \in S : vv[j] = v[j]
      BY <1>9
    <3>3. vv[i] \in Nat
      BY <1>8
    <3> HIDE DEF S, b, bb, v, vv
    <3> QED
      BY <1>7, <3>1, <3>2, <3>3, TotalGains
  <2>4. On(i, k)
    BY <1>12 DEF On, Details
  <2>5. Total(Payers(k), Withins(k))' <= Total(S, v) + (IF Live(i) THEN Estimates(k)[i] ELSE 0)
    BY <1>8, <1>10, <1>11, <2>1, <2>3
  <2>6. Paid(k)' = Paid(k) + ch[MeterOf[k]]
    BY <1>8, <2>1, <2>2 DEF Paid
  <2> QED
    BY <1>12, <2>4, <2>5, <2>6
<1>13. CASE k \notin request[i].keys
  <2>1. Payers(k)' = S
    BY <1>4, <1>13
  <2>2. Total(S, bb) = Total(S, b)
    <3>1. \A j \in S : bb[j] = b[j]
      BY <1>9
    <3> HIDE DEF S, b, bb, v, vv
    <3> QED
      BY <3>1, TotalAgree
  <2>3. Total(S, vv) = Total(S, v)
    <3>1. \A j \in S : vv[j] = v[j]
      BY <1>9
    <3> HIDE DEF S, b, bb, v, vv
    <3> QED
      BY <3>1, TotalAgree
  <2>4. Paid(k)' = Paid(k) + 0
    BY <1>10, <2>1, <2>2 DEF Paid
  <2>5. Total(Payers(k), Withins(k))' = Total(S, v)
    BY <2>1, <2>3
  <2> QED
    BY <1>10, <1>11, <1>13, <2>4, <2>5
<1> QED
  BY <1>12, <1>13

(* And into each of its windows, as an event of this instant. *)
LEMMA SettleCounts ==
  ASSUME TypeOK, EventsSettled, NEW i \in Ids, NEW ch \in Charges, SettleActive(i, ch),
         NEW w \in Windows
  PROVE  Total(Recent(w), Withins(w))' <=
           Total(Recent(w), Withins(w)) + (IF Live(i) /\ On(i, w) THEN Estimates(w)[i] ELSE 0)
<1>1. w \in Rows
  BY DEF Rows
<1>2. /\ state[i] = "active" /\ now' = now /\ request' = request /\ expires' = expires
      /\ \A j \in Ids \ {i} : /\ state'[j] = state[j] /\ paid'[j] = paid[j]
                               /\ completed'[j] = completed[j]
  BY DEF SettleActive, CanSettle, TypeOK
<1>3. <<i, w>> \notin events
  BY <1>2 DEF EventsSettled
<1>4. i \notin Recent(w)
  BY <1>3 DEF Recent
<1>5. \A j \in Ids \ {i} : (<<j, w>> \in events') <=> (<<j, w>> \in events)
  BY DEF SettleActive, SettledEvents
<1>6. <<i, w>> \in events' => On(i, w)
  BY <1>3 DEF SettleActive, SettledEvents, On, Details
<1>7. \A j \in Ids \ {i} : (j \in Recent(w)') <=> (j \in Recent(w))
  BY <1>2, <1>5 DEF Recent, InWindow
<1>8. \A j \in Recent(w) : Withins(w)'[j] = Withins(w)[j]
  BY <1>2, <1>4, SameAmounts DEF Recent
<1>9. \A j \in Recent(w) : Withins(w)[j] \in Nat
  BY <1>1, Amounts DEF Recent
<1> DEFINE S == Recent(w)
           v == Withins(w)
           vv == Withins(w)'
<1>10. IsFiniteSet(S) /\ i \notin S /\ Total(S, v) \in Nat
  BY <1>1, <1>4, Sums
<1>11. vv[i] \in Nat /\ vv[i] <= IF Live(i) THEN Estimates(w)[i] ELSE 0
  BY <1>1, SettledWithin
<1>12. Estimates(w)[i] \in Nat
  BY <1>1, Amounts
<1>13. \A j \in S : vv[j] = v[j]
  BY <1>8
<1>14. \A j \in S : vv[j] \in Nat
  BY <1>8, <1>9
<1>15. Recent(w)' \subseteq Ids /\ S \subseteq Ids
  BY DEF Recent
<1>16. CASE i \in Recent(w)'
  <2>1. Recent(w)' = S \cup {i}
    BY <1>4, <1>7, <1>15, <1>16
  <2>2. Total(S \cup {i}, vv) = Total(S, v) + vv[i]
    <3> HIDE DEF S, v, vv
    <3> QED
      BY <1>10, <1>11, <1>13, <1>14, TotalGains
  <2>3. On(i, w)
    BY <1>6, <1>16 DEF Recent
  <2> QED
    BY <1>10, <1>11, <1>12, <2>1, <2>2, <2>3
<1>17. CASE i \notin Recent(w)'
  <2>1. Recent(w)' = S
    BY <1>4, <1>7, <1>15, <1>17
  <2>2. Total(S, vv) = Total(S, v)
    <3> HIDE DEF S, v, vv
    <3> QED
      BY <1>13, TotalAgree
  <2> QED
    BY <1>10, <1>12, <2>1, <2>2
<1> QED
  BY <1>16, <1>17

-----------------------------------------------------------------------------
(* Every kind of step preserves the invariant.                             *)

(* Purging on a reserve deletes only events that no longer count, so every *)
(* step that leaves the settled reservations alone keeps the events right. *)
LEMMA EventsKept ==
  ASSUME TypeOK, EventsSettled, NoRecentEventLost, SameSettled,
         now' \in Nat, now <= now', events' = events \/ (events' = Purged /\ now' = now)
  PROVE  EventsSettled' /\ NoRecentEventLost'
<1>1. events' \subseteq events
  BY DEF Purged
<1>2. EventsSettled'
  <2> SUFFICES ASSUME NEW i \in Ids, NEW w \in Windows, <<i, w>> \in events'
               PROVE  state'[i] = "settled" /\ w \in request'[i].wins
    BY DEF EventsSettled
  <2> QED
    BY <1>1 DEF EventsSettled, SameSettled
<1>3. NoRecentEventLost'
  <2> SUFFICES ASSUME NEW i \in Ids, NEW w \in Windows,
                      state'[i] = "settled", w \in request'[i].wins,
                      Bills(w)'[i] # 0, InWindow(i, w)'
               PROVE  <<i, w>> \in events'
    BY DEF NoRecentEventLost
  <2>1. /\ state[i] = "settled" /\ request'[i] = request[i] /\ expires'[i] = expires[i]
        /\ paid'[i] = paid[i] /\ completed'[i] = completed[i]
    BY DEF SameSettled
  <2>2. Bills(w)[i] # 0
    BY <2>1, SameAmounts
  <2>3. InWindow(i, w)
    <3>1. Span[w] \in Nat /\ now \in Nat /\ completed[i] \in Nat
      BY RowsAssumption DEF TypeOK
    <3> QED
      BY <2>1, <3>1 DEF InWindow
  <2>4. <<i, w>> \in events
    BY <2>1, <2>2, <2>3 DEF NoRecentEventLost
  <2> QED
    BY <2>3, <2>4 DEF Purged
<1> QED
  BY <1>2, <1>3

(* A step that grants and settles nothing and takes no capacity. *)
LEMMA QuietKeeps ==
  ASSUME TypeOK, TypeOK', IInv, SameSettled, now <= now',
         events' = events \/ (events' = Purged /\ now' = now),
         \A k \in Keys : budget[k] <= budget'[k],
         \A r \in Rows : Held(r)' <= Held(r)
  PROVE  IInv'
<1>1. EventsSettled' /\ NoRecentEventLost'
  BY EventsKept DEF IInv, TypeOK
<1>2. LedgerCoversCharges'
  <2> SUFFICES ASSUME NEW k \in Keys PROVE Paid(k)' <= budget'[k]
    BY DEF LedgerCoversCharges
  <2>1. k \in Rows
    BY DEF Rows
  <2>2. Paid(k)' = Paid(k) /\ Paid(k) \in Nat
    BY <2>1, SettledKeeps, Sums
  <2>3. budget[k] \in Nat /\ budget'[k] \in Nat /\ Paid(k) <= budget[k]
    BY DEF TypeOK, IInv, LedgerCoversCharges
  <2> QED
    BY <2>2, <2>3
<1>3. KeysWithin'
  <2> SUFFICES ASSUME NEW k \in Keys
               PROVE  Total(Payers(k), Withins(k))' + Held(k)' <= Limit[k]
    BY DEF KeysWithin
  <2>1. k \in Rows /\ Limit[k] \in Nat
    BY RowsAssumption DEF Rows
  <2>2. Total(Payers(k), Withins(k))' = Total(Payers(k), Withins(k))
    BY <2>1, SettledKeeps
  <2>3. Held(k) \in Nat /\ Held(k)' \in Nat /\ Total(Payers(k), Withins(k)) \in Nat
    BY <2>1, Sums, SumsNext
  <2> QED
    BY <2>1, <2>2, <2>3 DEF IInv, KeysWithin
<1>4. WindowsWithin'
  <2> SUFFICES ASSUME NEW w \in Windows
               PROVE  Total(Recent(w), Withins(w))' + Held(w)' <= Limit[w]
    BY DEF WindowsWithin
  <2>1. w \in Rows /\ Limit[w] \in Nat
    BY RowsAssumption DEF Rows
  <2>2. Total(Recent(w), Withins(w))' <= Total(Recent(w), Withins(w))
    BY WindowAges DEF IInv, TypeOK, Purged
  <2>3. /\ Held(w) \in Nat /\ Held(w)' \in Nat
        /\ Total(Recent(w), Withins(w)) \in Nat /\ Total(Recent(w), Withins(w))' \in Nat
    BY <2>1, Sums, SumsNext
  <2> QED
    BY <2>1, <2>2, <2>3 DEF IInv, WindowsWithin
<1> QED
  BY <1>1, <1>2, <1>3, <1>4 DEF IInv

(* A grant fits: what it takes was left over in each of its rows. *)
LEMMA GrantKeeps ==
  ASSUME TypeOK, TypeOK', IInv, NEW i \in Ids, NEW q \in Requests, Grant(i, q)
  PROVE  IInv'
<1>1. SameSettled
  BY DEF Grant, SameSettled, TypeOK
<1>2. now' = now /\ now \in Nat /\ events' = Purged
  BY DEF Grant, TypeOK
<1>3. EventsSettled' /\ NoRecentEventLost'
  BY <1>1, <1>2, EventsKept DEF IInv
<1>4. q \in RequestType
  BY ClientsAssumption
<1>5. \A k \in Keys : budget'[k] \in Nat /\ budget[k] \in Nat /\ budget[k] <= budget'[k]
  <2> SUFFICES ASSUME NEW k \in Keys
               PROVE  budget'[k] \in Nat /\ budget[k] \in Nat /\ budget[k] <= budget'[k]
    OBVIOUS
  <2>1. budget[k] \in Nat /\ q.base[k] \in Nat /\ budget'[k] \in Nat
    BY <1>4 DEF TypeOK, RequestType
  <2> QED
    BY <2>1 DEF Grant, SyncRows, Synced, Larger
<1>6. LedgerCoversCharges'
  <2> SUFFICES ASSUME NEW k \in Keys PROVE Paid(k)' <= budget'[k]
    BY DEF LedgerCoversCharges
  <2>1. Paid(k)' = Paid(k) /\ Paid(k) \in Nat
    BY <1>1, SettledKeeps, Sums DEF Rows
  <2>2. Paid(k) <= budget[k]
    BY DEF IInv, LedgerCoversCharges
  <2> QED
    BY <1>5, <2>1, <2>2
<1>7. KeysWithin'
  <2> SUFFICES ASSUME NEW k \in Keys
               PROVE  Total(Payers(k), Withins(k))' + Held(k)' <= Limit[k]
    BY DEF KeysWithin
  <2>1. k \in Rows /\ Limit[k] \in Nat
    BY RowsAssumption DEF Rows
  <2>2. Total(Payers(k), Withins(k))' = Total(Payers(k), Withins(k))
    BY <1>1, <2>1, SettledKeeps
  <2>3. Held(k)' = Held(k) + (IF k \in q.keys \cup q.wins THEN q.est[MeterOf[k]] ELSE 0)
    BY <2>1, GrantHolds
  <2>4. /\ Held(k) \in Nat /\ Total(Payers(k), Withins(k)) \in Nat
        /\ Total(Payers(k), Excesses(k)) \in Nat
        /\ Paid(k) = Total(Payers(k), Withins(k)) + Total(Payers(k), Excesses(k))
    BY <2>1, Sums
  <2>5. CASE k \in q.keys
    <3>1. q.est[MeterOf[k]] <= Limit[k] - Synced(q, k) - Held(k)
      BY <2>5 DEF Grant, Overdrawn, Fits
    <3>2. q.est[MeterOf[k]] \in Nat /\ q.base[k] \in Nat /\ budget[k] \in Nat
      BY <1>4, <2>1, RowsAssumption DEF RequestType, TypeOK
    <3>3. budget[k] <= Synced(q, k) /\ Synced(q, k) \in Nat
      BY <3>2 DEF Synced, Larger
    <3>4. Paid(k) <= budget[k]
      BY DEF IInv, LedgerCoversCharges
    <3> QED
      BY <2>1, <2>2, <2>3, <2>4, <2>5, <3>1, <3>2, <3>3, <3>4
  <2>6. CASE k \notin q.keys
    <3>1. k \notin q.wins
      BY <1>4, RowsAssumption DEF RequestType
    <3> QED
      BY <2>2, <2>3, <2>4, <2>6, <3>1 DEF IInv, KeysWithin
  <2> QED
    BY <2>5, <2>6
<1>8. WindowsWithin'
  <2> SUFFICES ASSUME NEW w \in Windows
               PROVE  Total(Recent(w), Withins(w))' + Held(w)' <= Limit[w]
    BY DEF WindowsWithin
  <2>1. w \in Rows /\ Limit[w] \in Nat
    BY RowsAssumption DEF Rows
  <2>2. Total(Recent(w), Withins(w))' <= Total(Recent(w), Withins(w))
    BY <1>1, <1>2, WindowAges DEF IInv, Purged
  <2>3. Held(w)' = Held(w) + (IF w \in q.keys \cup q.wins THEN q.est[MeterOf[w]] ELSE 0)
    BY <2>1, GrantHolds
  <2>4. /\ Held(w) \in Nat /\ Total(Recent(w), Withins(w)) \in Nat
        /\ Total(Recent(w), Withins(w))' \in Nat
        /\ Total(Recent(w), Excesses(w)) \in Nat
        /\ WindowSettled(w) = Total(Recent(w), Withins(w)) + Total(Recent(w), Excesses(w))
    BY <2>1, Sums, SumsNext
  <2>5. CASE w \in q.wins
    <3>1. q.est[MeterOf[w]] <= Limit[w] - WindowSettled(w) - Held(w)
      BY <2>5 DEF Grant, Crowded, FitsWindow
    <3>2. q.est[MeterOf[w]] \in Nat
      BY <1>4, <2>1, RowsAssumption DEF RequestType
    <3> QED
      BY <2>1, <2>2, <2>3, <2>4, <2>5, <3>1, <3>2
  <2>6. CASE w \notin q.wins
    <3>1. w \notin q.keys
      BY <1>4, RowsAssumption DEF RequestType
    <3> QED
      BY <2>1, <2>2, <2>3, <2>4, <2>6, <3>1 DEF IInv, WindowsWithin
  <2> QED
    BY <2>5, <2>6
<1> QED
  BY <1>3, <1>6, <1>7, <1>8 DEF IInv

(* A settlement moves what it was held for from held to paid; what it pays *)
(* beyond that is its excess.                                              *)
LEMMA SettleKeeps ==
  ASSUME TypeOK, TypeOK', IInv, NEW i \in Ids, NEW ch \in Charges, SettleActive(i, ch)
  PROVE  IInv'
<1>1. /\ state[i] = "active" /\ state' = [state EXCEPT ![i] = "settled"]
      /\ state'[i] = "settled" /\ paid'[i] = ch /\ now' = now
      /\ request' = request /\ expires' = expires
      /\ \A j \in Ids \ {i} : /\ state'[j] = state[j] /\ paid'[j] = paid[j]
                               /\ completed'[j] = completed[j]
  BY DEF SettleActive, CanSettle, TypeOK
<1>2. EventsSettled'
  <2> SUFFICES ASSUME NEW j \in Ids, NEW w \in Windows, <<j, w>> \in events'
               PROVE  state'[j] = "settled" /\ w \in request'[j].wins
    BY DEF EventsSettled
  <2>1. CASE <<j, w>> \in events
    BY <1>1, <2>1 DEF IInv, EventsSettled
  <2>2. CASE <<j, w>> \notin events
    <3>1. j = i /\ w \in request[i].wins
      BY <2>2 DEF SettleActive, SettledEvents
    <3> QED
      BY <1>1, <3>1
  <2> QED
    BY <2>1, <2>2
<1>3. NoRecentEventLost'
  <2> SUFFICES ASSUME NEW j \in Ids, NEW w \in Windows,
                      state'[j] = "settled", w \in request'[j].wins,
                      Bills(w)'[j] # 0, InWindow(j, w)'
               PROVE  <<j, w>> \in events'
    BY DEF NoRecentEventLost
  <2>1. events \subseteq events'
    BY DEF SettleActive, SettledEvents
  <2>2. CASE j = i
    <3>1. ch[MeterOf[w]] # 0
      BY <1>1, <2>2 DEF Bills
    <3>2. w \in request[i].wins
      BY <1>1, <2>2
    <3> QED
      BY <2>2, <3>1, <3>2 DEF SettleActive, SettledEvents
  <2>3. CASE j # i
    <3>1. state[j] = "settled" /\ w \in request[j].wins /\ InWindow(j, w)
      BY <1>1, <2>3 DEF InWindow
    <3>2. Bills(w)[j] # 0
      BY <1>1, <2>3 DEF Bills
    <3> QED
      BY <2>1, <3>1, <3>2 DEF IInv, NoRecentEventLost
  <2> QED
    BY <2>2, <2>3
<1>4. LedgerCoversCharges'
  <2> SUFFICES ASSUME NEW k \in Keys PROVE Paid(k)' <= budget'[k]
    BY DEF LedgerCoversCharges
  <2>1. k \in Rows
    BY DEF Rows
  <2>2. Paid(k)' = Paid(k) + (IF k \in request[i].keys THEN ch[MeterOf[k]] ELSE 0)
    BY SettlePays
  <2>3. budget'[k] = budget[k] + (IF k \in request[i].keys THEN ch[MeterOf[k]] ELSE 0)
    BY DEF SettleActive, SettledBudget, TypeOK
  <2>4. /\ ch[MeterOf[k]] \in Nat /\ Paid(k) \in Nat /\ budget[k] \in Nat
        /\ Paid(k) <= budget[k]
    BY <2>1, RowsAssumption, ClientsAssumption, Sums
    DEF ChargeType, TypeOK, IInv, LedgerCoversCharges
  <2> QED
    BY <2>2, <2>3, <2>4
<1>5. ASSUME NEW r \in Rows
      PROVE  Held(r) = Held(r)' + (IF Live(i) /\ On(i, r) THEN Estimates(r)[i] ELSE 0)
  BY <1>1, EndReturns
<1>6. KeysWithin'
  <2> SUFFICES ASSUME NEW k \in Keys
               PROVE  Total(Payers(k), Withins(k))' + Held(k)' <= Limit[k]
    BY DEF KeysWithin
  <2>1. k \in Rows /\ Limit[k] \in Nat /\ Estimates(k)[i] \in Nat
    BY RowsAssumption, Amounts DEF Rows
  <2>2. Total(Payers(k), Withins(k))' <=
          Total(Payers(k), Withins(k)) + (IF Live(i) /\ On(i, k) THEN Estimates(k)[i] ELSE 0)
    BY SettlePays
  <2>3. /\ Held(k) \in Nat /\ Total(Payers(k), Withins(k)) \in Nat
        /\ Held(k)' \in Nat /\ Total(Payers(k), Withins(k))' \in Nat
    BY <2>1, Sums, SumsNext
  <2>4. Total(Payers(k), Withins(k)) + Held(k) <= Limit[k]
    BY DEF IInv, KeysWithin
  <2> QED
    BY <1>5, <2>1, <2>2, <2>3, <2>4
<1>7. WindowsWithin'
  <2> SUFFICES ASSUME NEW w \in Windows
               PROVE  Total(Recent(w), Withins(w))' + Held(w)' <= Limit[w]
    BY DEF WindowsWithin
  <2>1. w \in Rows /\ Limit[w] \in Nat /\ Estimates(w)[i] \in Nat
    BY RowsAssumption, Amounts DEF Rows
  <2>2. Total(Recent(w), Withins(w))' <=
          Total(Recent(w), Withins(w)) + (IF Live(i) /\ On(i, w) THEN Estimates(w)[i] ELSE 0)
    BY SettleCounts DEF IInv
  <2>3. /\ Held(w) \in Nat /\ Total(Recent(w), Withins(w)) \in Nat
        /\ Held(w)' \in Nat /\ Total(Recent(w), Withins(w))' \in Nat
    BY <2>1, Sums, SumsNext
  <2>4. Total(Recent(w), Withins(w)) + Held(w) <= Limit[w]
    BY DEF IInv, WindowsWithin
  <2> QED
    BY <1>5, <2>1, <2>2, <2>3, <2>4
<1> QED
  BY <1>2, <1>3, <1>4, <1>6, <1>7 DEF IInv

(* A refusal still raises rows to the caller's baseline and may purge. *)
LEMMA RefuseKeeps ==
  ASSUME TypeOK, TypeOK', IInv, NEW i \in Ids, NEW q \in Requests,
         RefuseByBudget(i, q) \/ RefuseByWindow(i, q)
  PROVE  IInv'
<1>1. UNCHANGED <<now, state, request, expires, paid, completed>>
  BY DEF RefuseByBudget, RefuseByWindow, reservations
<1>2. SameSettled
  BY <1>1 DEF SameSettled
<1>3. SyncRows(q) /\ (events' = events \/ events' = Purged)
  BY DEF RefuseByBudget, RefuseByWindow
<1>4. \A k \in Keys : budget[k] <= budget'[k]
  <2> SUFFICES ASSUME NEW k \in Keys PROVE budget[k] <= budget'[k]
    OBVIOUS
  <2>1. budget[k] \in Nat /\ q.base[k] \in Nat
    BY ClientsAssumption DEF TypeOK, RequestType
  <2> QED
    BY <1>3, <2>1 DEF SyncRows, Synced, Larger
<1>5. \A r \in Rows : Held(r)' <= Held(r)
  <2>1. \A j \in Ids : Live(j)' => Live(j)
    BY <1>1 DEF Live
  <2> QED
    BY <1>1, <2>1, TimeReturns
<1>6. now <= now'
  BY <1>1 DEF TypeOK
<1> QED
  BY <1>1, <1>2, <1>3, <1>4, <1>5, <1>6, QuietKeeps

(* A release gives back what was held; it pays nothing. *)
LEMMA ReleaseKeeps ==
  ASSUME TypeOK, TypeOK', IInv, NEW i \in Ids, Release(i), CanRelease(i)
  PROVE  IInv'
<1>1. /\ state' = [state EXCEPT ![i] = "released"]
      /\ completed' = [completed EXCEPT ![i] = now]
      /\ UNCHANGED <<now, request, expires, paid, ledger, events>>
  BY DEF Release
<1>2. SameSettled
  BY <1>1 DEF SameSettled, CanRelease, TypeOK
<1>3. ASSUME NEW r \in Rows PROVE Held(r)' <= Held(r)
  <2>1. Held(r) = Held(r)' + (IF Live(i) /\ On(i, r) THEN Estimates(r)[i] ELSE 0)
    BY <1>1, EndReturns
  <2>2. Estimates(r)[i] \in Nat /\ Held(r)' \in Nat
    BY Amounts, SumsNext
  <2> QED
    BY <2>1, <2>2
<1>4. now <= now' /\ \A k \in Keys : budget[k] <= budget'[k]
  BY <1>1 DEF TypeOK, ledger
<1> QED
  BY <1>1, <1>2, <1>3, <1>4, QuietKeeps

(* A renewal extends only what is still held. *)
LEMMA RenewKeeps ==
  ASSUME TypeOK, TypeOK', IInv, NEW i \in Ids, Renew(i), CanRenew(i)
  PROVE  IInv'
<1>1. /\ expires' = [expires EXCEPT ![i] = Expiry]
      /\ UNCHANGED <<now, state, request, paid, completed, ledger, events>>
    \/ UNCHANGED vars
  BY DEF Renew
<1>2. CASE UNCHANGED vars
  <2>1. SameSettled /\ now <= now' /\ \A k \in Keys : budget[k] <= budget'[k]
    BY <1>2 DEF SameSettled, vars, reservations, ledger, TypeOK
  <2>2. UNCHANGED <<state, request>> /\ \A j \in Ids : Live(j)' => Live(j)
    BY <1>2 DEF Live, vars, reservations
  <2> QED
    BY <1>2, <2>1, <2>2, TimeReturns, QuietKeeps DEF vars
<1>3. CASE ~ UNCHANGED vars
  <2>1. \A j \in Ids \ {i} : expires'[j] = expires[j]
    BY <1>1, <1>3 DEF TypeOK
  <2>2. SameSettled
    BY <1>1, <1>3, <2>1 DEF SameSettled, CanRenew, Live
  <2>3. \A j \in Ids : Live(j)' => Live(j)
    BY <1>1, <1>3, <2>1 DEF CanRenew, Live
  <2>4. now <= now' /\ \A k \in Keys : budget[k] <= budget'[k]
    BY <1>1, <1>3 DEF TypeOK, ledger
  <2> QED
    BY <1>1, <1>3, <2>2, <2>3, <2>4, TimeReturns, QuietKeeps
<1> QED
  BY <1>2, <1>3

(* Time only expires leases and ages window events. *)
LEMMA TickKeeps ==
  ASSUME TypeOK, TypeOK', IInv, Tick
  PROVE  IInv'
<1>1. now' = now + 1 /\ now \in Nat /\ UNCHANGED <<reservations, ledger, events>>
  BY DEF Tick, TypeOK
<1>2. SameSettled
  BY <1>1 DEF SameSettled, reservations
<1>3. \A j \in Ids : Live(j)' => Live(j)
  BY <1>1 DEF Live, reservations, TypeOK
<1>4. now <= now' /\ \A k \in Keys : budget[k] <= budget'[k]
  BY <1>1 DEF TypeOK, ledger
<1> QED
  BY <1>1, <1>2, <1>3, <1>4, TimeReturns, QuietKeeps DEF reservations

(* A step that changes nothing. *)
LEMMA StutterKeeps ==
  ASSUME TypeOK, TypeOK', IInv, UNCHANGED vars
  PROVE  IInv'
<1>1. SameSettled /\ now <= now' /\ \A k \in Keys : budget[k] <= budget'[k]
  BY DEF SameSettled, vars, reservations, ledger, TypeOK
<1>2. UNCHANGED <<state, request, events>> /\ \A j \in Ids : Live(j)' => Live(j)
  BY DEF Live, vars, reservations
<1> QED
  BY <1>1, <1>2, TimeReturns, QuietKeeps

(* At the start no row has a payer, a holder or an event. *)
LEMMA InitHolds == Init => IInv
<1> SUFFICES ASSUME Init PROVE IInv
  OBVIOUS
<1>1. \A i \in Ids : state[i] = "none"
  BY DEF Init
<1>2. \A r \in Rows : Held(r) = 0 /\ Payers(r) = {} /\ Recent(r) = {}
  <2> SUFFICES ASSUME NEW r \in Rows PROVE Held(r) = 0 /\ Payers(r) = {} /\ Recent(r) = {}
    OBVIOUS
  <2>1. Holders(r) = {} /\ Payers(r) = {} /\ Recent(r) = {}
    BY <1>1 DEF Holders, Live, Payers, Recent, Init
  <2> QED
    BY <2>1, TotalEmpty DEF Held
<1>3. KeysWithin
  <2> SUFFICES ASSUME NEW k \in Keys
               PROVE  Total(Payers(k), Withins(k)) + Held(k) <= Limit[k]
    BY DEF KeysWithin
  <2>1. k \in Rows /\ Limit[k] \in Nat
    BY RowsAssumption DEF Rows
  <2>2. Total(Payers(k), Withins(k)) = 0
    BY <1>2, <2>1, TotalEmpty
  <2> QED
    BY <1>2, <2>1, <2>2
<1>4. WindowsWithin
  <2> SUFFICES ASSUME NEW w \in Windows
               PROVE  Total(Recent(w), Withins(w)) + Held(w) <= Limit[w]
    BY DEF WindowsWithin
  <2>1. w \in Rows /\ Limit[w] \in Nat
    BY RowsAssumption DEF Rows
  <2>2. Total(Recent(w), Withins(w)) = 0
    BY <1>2, <2>1, TotalEmpty
  <2> QED
    BY <1>2, <2>1, <2>2
<1>5. LedgerCoversCharges
  <2> SUFFICES ASSUME NEW k \in Keys PROVE Paid(k) <= budget[k]
    BY DEF LedgerCoversCharges
  <2>1. k \in Rows
    BY DEF Rows
  <2>2. Paid(k) = 0
    BY <1>2, <2>1, TotalEmpty DEF Paid
  <2> QED
    BY <2>2 DEF Init
<1>6. EventsSettled /\ NoRecentEventLost
  BY <1>1 DEF EventsSettled, NoRecentEventLost, Init
<1> QED
  BY <1>3, <1>4, <1>5, <1>6 DEF IInv

(* The invariant is inductive. *)
LEMMA StepKeeps ==
  ASSUME TypeOK, TypeOK', IInv, [Next]_vars
  PROVE  IInv'
<1>1. ASSUME NEW i \in Ids, NEW q \in Requests, Reserve(i, q) PROVE IInv'
  <2>1. CASE RetryReserve(i, q)
    BY <2>1, StutterKeeps DEF RetryReserve
  <2>2. CASE RefuseByBudget(i, q) \/ RefuseByWindow(i, q)
    BY <2>2, RefuseKeeps
  <2>3. CASE Grant(i, q)
    BY <2>3, GrantKeeps
  <2> QED
    BY <1>1, <2>1, <2>2, <2>3 DEF Reserve
<1>2. ASSUME NEW i \in Ids, NEW ch \in Charges, Settle(i, ch) PROVE IInv'
  <2>1. CASE SettleActive(i, ch)
    BY <2>1, SettleKeeps
  <2>2. CASE RetrySettle(i, ch)
    BY <2>2, StutterKeeps DEF RetrySettle
  <2> QED
    BY <1>2, <2>1, <2>2 DEF Settle
<1>3. ASSUME NEW i \in Ids, Release(i) PROVE IInv'
  <2>1. CASE CanRelease(i)
    BY <1>3, <2>1, ReleaseKeeps
  <2>2. CASE ~ CanRelease(i)
    <3>1. UNCHANGED vars
      BY <1>3, <2>2 DEF Release
    <3> QED
      BY <3>1, StutterKeeps
  <2> QED
    BY <2>1, <2>2
<1>4. ASSUME NEW i \in Ids, Renew(i) PROVE IInv'
  <2>1. CASE CanRenew(i)
    BY <1>4, <2>1, RenewKeeps
  <2>2. CASE ~ CanRenew(i)
    <3>1. UNCHANGED vars
      BY <1>4, <2>2 DEF Renew
    <3> QED
      BY <3>1, StutterKeeps
  <2> QED
    BY <2>1, <2>2
<1>5. CASE Tick
  BY <1>5, TickKeeps
<1>6. CASE UNCHANGED vars
  BY <1>6, StutterKeeps
<1> QED
  BY <1>1, <1>2, <1>3, <1>4, <1>5, <1>6 DEF Next

LEMMA Inductive == Spec => []IInv
<1>1. TypeOK /\ TypeOK' /\ IInv /\ [Next]_vars => IInv'
  BY StepKeeps
<1> QED
  BY <1>1, InitHolds, TypeCorrect, PTL DEF Spec

-----------------------------------------------------------------------------
(* The results.                                                            *)

(* However many workers share a budget row, and whatever they retry, what  *)
(* is settled and held stays within the limit but for the excess of        *)
(* settled calls (_reserve_once, _settle_once).                            *)
THEOREM NeverOverGranted == Spec => []CapacityBound
<1>1. TypeOK /\ IInv => CapacityBound
  BY Bounds
<1> QED
  BY <1>1, Inductive, TypeCorrect, PTL

(* The same for a sliding window at every instant, as old events age out   *)
(* and are deleted.                                                        *)
THEOREM WindowNeverOverGranted == Spec => []WindowBound
<1>1. TypeOK /\ IInv => WindowBound
  BY Bounds
<1> QED
  BY <1>1, Inductive, TypeCorrect, PTL

(* No settled charge is ever missing from a scope's ledger row.            *)
THEOREM NothingForgotten == Spec => []LedgerCoversCharges
BY Inductive, PTL DEF IInv

(* No window event that still counts is ever purged by a reserve.          *)
THEOREM NoEventForgotten == Spec => []NoRecentEventLost
BY Inductive, PTL DEF IInv

-----------------------------------------------------------------------------
(***************************************************************************)
(* What no step may do, and the proof that the arbiter implements          *)
(* SharedAllowance.                                                        *)
(***************************************************************************)
(* A step that touches one reservation touches only an active one, so a    *)
(* settled or released reservation is left as it is by every later call.   *)
THEOREM TombstonesStay == Spec => TombstonesPermanent
<1> DEFINE Stays == \A i \in Ids : state[i] \in {"settled", "released"} =>
                      /\ state'[i] = state[i]
                      /\ paid'[i] = paid[i]
                      /\ completed'[i] = completed[i]
                      /\ request'[i] = request[i]
<1>1. TypeOK /\ [Next]_vars => Stays
  <2> SUFFICES ASSUME TypeOK, [Next]_vars PROVE Stays
    OBVIOUS
  <2> USE DEF TypeOK
  <2>1. ASSUME NEW j \in Ids, NEW q \in Requests, Reserve(j, q) PROVE Stays
    BY <2>1 DEF Reserve, RetryReserve, RefuseByBudget, RefuseByWindow, Grant,
                vars, reservations
  <2>2. ASSUME NEW j \in Ids, NEW ch \in Charges, Settle(j, ch) PROVE Stays
    BY <2>2 DEF Settle, SettleActive, RetrySettle, CanSettle, vars, reservations
  <2>3. ASSUME NEW j \in Ids, Release(j) PROVE Stays
    BY <2>3 DEF Release, CanRelease, vars, reservations
  <2>4. ASSUME NEW j \in Ids, Renew(j) PROVE Stays
    BY <2>4 DEF Renew, vars, reservations
  <2>5. CASE Tick \/ UNCHANGED vars
    BY <2>5 DEF Tick, vars, reservations
  <2> QED
    BY <2>1, <2>2, <2>3, <2>4, <2>5 DEF Next
<1>2. TypeOK /\ [Next]_vars => [Stays]_vars
  BY <1>1
<1> QED
  BY <1>2, TypeCorrect, PTL DEF Spec, TombstonesPermanent

(* A lease once expired stays expired: only an unexpired reservation is    *)
(* renewed, only an unknown id is granted, and the server's clock does not *)
(* run backwards.                                                          *)
THEOREM ExpiredStays == Spec => ExpiryIsFinal
<1> DEFINE Stays == \A i \in Ids : (state[i] = "active" /\ ~ Live(i)) => ~ Live(i)'
<1>1. TypeOK /\ [Next]_vars => Stays
  <2> SUFFICES ASSUME TypeOK, [Next]_vars, NEW i \in Ids, state[i] = "active", ~ Live(i)
               PROVE  ~ Live(i)'
    OBVIOUS
  <2>1. now \in Nat /\ expires[i] \in Nat /\ expires[i] <= now
    BY DEF Live, TypeOK
  <2>2. SUFFICES now' \in Nat /\ now <= now' /\ (expires'[i] = expires[i] \/ state'[i] # "active")
    BY <2>1 DEF Live
  <2> USE <2>1 DEF TypeOK
  <2>3. ASSUME NEW j \in Ids, NEW q \in Requests, Reserve(j, q)
        PROVE  now' = now /\ expires'[i] = expires[i]
    BY <2>3 DEF Reserve, RetryReserve, RefuseByBudget, RefuseByWindow, Grant,
                vars, reservations
  <2>4. ASSUME NEW j \in Ids, NEW ch \in Charges, Settle(j, ch)
        PROVE  now' = now /\ expires'[i] = expires[i]
    BY <2>4 DEF Settle, SettleActive, RetrySettle, vars, reservations
  <2>5. ASSUME NEW j \in Ids, Release(j) PROVE now' = now /\ expires'[i] = expires[i]
    BY <2>5 DEF Release, vars, reservations
  <2>6. ASSUME NEW j \in Ids, Renew(j) PROVE now' = now /\ expires'[i] = expires[i]
    BY <2>6 DEF Renew, CanRenew, vars, reservations
  <2>7. CASE Tick \/ UNCHANGED vars
    BY <2>7 DEF Tick, vars, reservations
  <2> QED
    BY <2>3, <2>4, <2>5, <2>6, <2>7 DEF Next
<1>2. TypeOK /\ [Next]_vars => [Stays]_vars
  BY <1>1
<1> QED
  BY <1>2, TypeCorrect, PTL DEF Spec, ExpiryIsFinal

-----------------------------------------------------------------------------
(* The refinement.                                                         *)

(* A call holds capacity in the promise exactly while its reservation is   *)
(* live, so both count the same amount as held.                            *)
SameHeld == \A k \in Keys : Promise!HeldOf(k) = Held(k)

LEMMA HeldNow == TypeOK => SameHeld
<1> SUFFICES ASSUME TypeOK, NEW k \in Keys PROVE Promise!HeldOf(k) = Held(k)
  BY DEF SameHeld
<1> DEFINE status == [i \in Ids |-> Status(i)]
<1>1. \A i \in Ids : (status[i] = "held") <=> Live(i)
  BY DEF Status, Live, TypeOK, States
<1>2. \A i \in Ids : On(i, k) <=> k \in request[i].keys
  BY RowsAssumption DEF On, Details, TypeOK, RequestType
<1>3. {i \in Ids : status[i] = "held" /\ k \in request[i].keys} = Holders(k)
  BY <1>1, <1>2 DEF Holders
<1> HIDE DEF status
<1>4. Promise!HeldOf(k) = Total({i \in Ids : status[i] = "held" /\ k \in request[i].keys},
                                Estimates(k))
  BY DEF status, Promise!HeldOf, Promise!Total, Promise!Units, Promise!Cardinality,
         Total, Units, Cardinality, Estimates
<1> QED
  BY <1>3, <1>4 DEF Held

LEMMA HeldLater == TypeOK' => SameHeld'
BY HeldNow, PTL

(* Each step of the arbiter is one step of the promise, or none.  A        *)
(* refusal only learns spending from a baseline; a renewal is invisible;   *)
(* the clock lapses every reservation that expires at the new instant.     *)
LEMMA StepPromised ==
  ASSUME TypeOK, TypeOK', [Next]_vars
  PROVE  [Promise!Next]_(Promise!vars)
<1> DEFINE status == [i \in Ids |-> Status(i)]
<1> USE DEF TypeOK
<1>1. ASSUME NEW q \in Requests, SyncRows(q)
      PROVE  /\ Promise!Rise
             /\ \A k \in q.keys : Overdrawn(q) = {} => budget'[k] = Synced(q, k)
  <2>1. q \in RequestType
    BY ClientsAssumption
  <2>2. ASSUME NEW k \in Keys PROVE budget'[k] >= budget[k]
    <3>1. budget[k] \in Nat /\ q.base[k] \in Nat
      BY <2>1 DEF RequestType
    <3> QED
      BY <1>1, <3>1 DEF SyncRows, Synced, Larger
  <2>3. ASSUME NEW k \in q.keys, Overdrawn(q) = {} PROVE budget'[k] = Synced(q, k)
    <3>1. k \in Keys /\ k \in Visited(q)
      BY <2>1, <2>3 DEF RequestType, Visited
    <3> QED
      BY <1>1, <3>1 DEF SyncRows
  <2> QED
    BY <2>2, <2>3 DEF Promise!Rise
<1>2. ASSUME NEW i \in Ids, NEW q \in Requests, RefuseByBudget(i, q) \/ RefuseByWindow(i, q)
      PROVE  Promise!Learn
  <2>1. UNCHANGED <<now, state, request, expires, paid>> /\ SyncRows(q)
    BY <1>2 DEF RefuseByBudget, RefuseByWindow, reservations
  <2>2. status' = status
    BY <2>1 DEF Status, Live
  <2> QED
    BY <1>1, <2>1, <2>2 DEF Promise!Learn
<1>3. ASSUME NEW i \in Ids, NEW q \in Requests, Grant(i, q) PROVE Promise!Grant(i)
  <2>1. q \in RequestType
    BY ClientsAssumption
  <2>2. Live(i)' /\ state[i] = "none"
    BY <1>3, LeaseAssumption DEF Grant, Live, Expiry
  <2>3. status' = [status EXCEPT ![i] = "held"]
    <3>1. Status(i)' = "held"
      BY <2>2 DEF Status, Live
    <3>2. \A j \in Ids \ {i} : Status(j)' = Status(j)
      BY <1>3 DEF Grant, Status, Live
    <3> QED
      BY <3>1, <3>2
  <2>4. request' = [request EXCEPT ![i] = request'[i]] /\ request'[i] = q
    BY <1>3 DEF Grant
  <2>5. ASSUME NEW k \in q.keys
        PROVE  budget'[k] + Promise!HeldOf(k)' <= Limit[k]
    <3>1. k \in Keys /\ k \in Rows /\ Limit[k] \in Nat /\ MeterOf[k] \in Meters
      BY <2>1, RowsAssumption DEF RequestType, Rows
    <3>2. Promise!HeldOf(k)' = Held(k)'
      BY <3>1, HeldLater DEF SameHeld
    <3>3. Held(k)' = Held(k) + q.est[MeterOf[k]]
      BY <1>3, <2>5, <3>1, GrantHolds
    <3>4. budget'[k] = Synced(q, k)
      BY <1>1, <1>3, <2>5 DEF Grant
    <3>5. q.est[MeterOf[k]] <= Limit[k] - Synced(q, k) - Held(k)
      BY <1>3, <2>5 DEF Grant, Overdrawn, Fits
    <3>6. q.est[MeterOf[k]] \in Nat /\ Synced(q, k) \in Nat /\ Held(k) \in Nat
      BY <2>1, <3>1, Sums DEF RequestType, Synced, Larger
    <3> QED
      BY <3>1, <3>2, <3>3, <3>4, <3>5, <3>6
  <2>6. Promise!Rise /\ paid' = paid
    BY <1>1, <1>3 DEF Grant
  <2>7. status[i] = "none"
    BY <2>2 DEF Status
  <2> QED
    BY <2>3, <2>4, <2>5, <2>6, <2>7 DEF Promise!Grant
<1>4. ASSUME NEW i \in Ids, NEW ch \in Charges, SettleActive(i, ch) PROVE Promise!Pay(i)
  <2>1. state[i] = "active" /\ state' = [state EXCEPT ![i] = "settled"]
        /\ UNCHANGED <<now, request, expires>> /\ paid' = [paid EXCEPT ![i] = ch]
        /\ budget' = SettledBudget(i, ch)
    BY <1>4 DEF SettleActive, CanSettle
  <2>2. status[i] \in {"held", "lapsed"}
    BY <2>1 DEF Status
  <2>3. status' = [status EXCEPT ![i] = "settled"]
    <3>1. Status(i)' = "settled"
      BY <2>1 DEF Status
    <3>2. \A j \in Ids \ {i} : Status(j)' = Status(j)
      BY <2>1 DEF Status, Live
    <3> QED
      BY <3>1, <3>2
  <2>4. paid'[i] = ch /\ paid' = [paid EXCEPT ![i] = paid'[i]]
    BY <2>1
  <2>5. budget' = [k \in Keys |-> IF k \in request[i].keys
                                  THEN budget[k] + paid'[i][MeterOf[k]] ELSE budget[k]]
    BY <2>1, <2>4 DEF SettledBudget
  <2> QED
    BY <2>1, <2>2, <2>3, <2>4, <2>5 DEF Promise!Pay
<1>5. ASSUME NEW i \in Ids, Release(i), CanRelease(i) PROVE Promise!GiveBack(i)
  <2>1. state[i] = "active" /\ state' = [state EXCEPT ![i] = "released"]
        /\ UNCHANGED <<now, request, expires, paid, budget>>
    BY <1>5 DEF Release, CanRelease, ledger
  <2>2. status[i] \in {"held", "lapsed"}
    BY <2>1 DEF Status
  <2>3. status' = [status EXCEPT ![i] = "released"]
    <3>1. Status(i)' = "released"
      BY <2>1 DEF Status
    <3>2. \A j \in Ids \ {i} : Status(j)' = Status(j)
      BY <2>1 DEF Status, Live
    <3> QED
      BY <3>1, <3>2
  <2> QED
    BY <2>1, <2>2, <2>3 DEF Promise!GiveBack
<1>6. ASSUME NEW i \in Ids, Renew(i), CanRenew(i), ~ UNCHANGED vars
      PROVE  UNCHANGED Promise!vars
  <2>1. expires' = [expires EXCEPT ![i] = Expiry]
        /\ UNCHANGED <<now, state, request, paid, budget>>
    BY <1>6 DEF Renew, ledger
  <2>2. Live(i) /\ Live(i)'
    BY <1>6, <2>1, LeaseAssumption DEF CanRenew, Live, Expiry
  <2>3. \A j \in Ids : Status(j)' = Status(j)
    BY <2>1, <2>2 DEF Status, Live
  <2>4. status' = status
    BY <2>3
  <2> QED
    BY <2>1, <2>4 DEF Promise!vars
<1>7. ASSUME Tick PROVE Promise!Lapse
  <2>1. now' = now + 1 /\ UNCHANGED <<state, request, expires, paid, budget>>
    BY <1>7 DEF Tick, reservations, ledger
  <2>2. ASSUME NEW i \in Ids, status'[i] # status[i]
        PROVE  status[i] = "held" /\ status'[i] = "lapsed"
    BY <2>1, <2>2 DEF Status, Live
  <2> QED
    BY <2>1, <2>2 DEF Promise!Lapse
<1>8. ASSUME UNCHANGED vars PROVE UNCHANGED Promise!vars
  <2>1. UNCHANGED <<now, state, request, expires, paid, budget>>
    BY <1>8 DEF vars, reservations, ledger
  <2>2. status' = status
    BY <2>1 DEF Status, Live
  <2> QED
    BY <2>1, <2>2 DEF Promise!vars
<1> HIDE DEF status
<1>9. ASSUME NEW i \in Ids, NEW q \in Requests, Reserve(i, q)
      PROVE  [Promise!Next]_(Promise!vars)
  BY <1>2, <1>3, <1>8, <1>9 DEF Reserve, RetryReserve, Promise!Next
<1>10. ASSUME NEW i \in Ids, NEW ch \in Charges, Settle(i, ch)
       PROVE  [Promise!Next]_(Promise!vars)
  BY <1>4, <1>8, <1>10 DEF Settle, RetrySettle, Promise!Next
<1>11. ASSUME NEW i \in Ids, Release(i) \/ Renew(i)
       PROVE  [Promise!Next]_(Promise!vars)
  BY <1>5, <1>6, <1>8, <1>11 DEF Release, Renew, Promise!Next
<1> QED
  BY <1>7, <1>8, <1>9, <1>10, <1>11 DEF Next, Promise!Next

(* The arbiter with its clock, leases, tombstones, windows and retries     *)
(* implements the shared allowance (_reserve_once, _settle_once,           *)
(* _release_once, _pollard_renew).                                         *)
THEOREM Implements == Spec => KeepsPromise
<1>1. Init => Promise!Init
  BY DEF Init, Promise!Init, Status
<1>2. TypeOK /\ TypeOK' /\ [Next]_vars => [Promise!Next]_(Promise!vars)
  BY StepPromised
<1> QED
  BY <1>1, <1>2, TypeCorrect, PTL DEF Spec, KeepsPromise, Promise!Spec

-----------------------------------------------------------------------------
(* The ledger and the charges, where no baseline is brought from the tree. *)

(* A step other than a settlement settles nothing, and leaves the row.     *)
LEMMA RowStands ==
  ASSUME TypeOK, NEW k \in Keys, \A q \in Requests : q.base[k] = 0, [Next]_vars,
         ~ \E i \in Ids, ch \in Charges : SettleActive(i, ch)
  PROVE  SameSettled /\ budget'[k] = budget[k]
<1> USE DEF TypeOK
<1>1. ASSUME NEW q \in Requests, SyncRows(q) PROVE budget'[k] = budget[k]
  <2>1. q.base[k] = 0 /\ budget[k] \in Nat
    OBVIOUS
  <2> QED
    BY <1>1, <2>1 DEF SyncRows, Synced, Larger
<1>2. ASSUME UNCHANGED vars PROVE SameSettled /\ budget'[k] = budget[k]
  BY <1>2 DEF SameSettled, vars, reservations, ledger
<1>3. ASSUME NEW i \in Ids, NEW q \in Requests, Reserve(i, q)
      PROVE  SameSettled /\ budget'[k] = budget[k]
  <2>1. CASE RefuseByBudget(i, q) \/ RefuseByWindow(i, q)
    BY <1>1, <2>1 DEF RefuseByBudget, RefuseByWindow, SameSettled, reservations
  <2>2. CASE Grant(i, q)
    BY <1>1, <2>2 DEF Grant, SameSettled
  <2> QED
    BY <1>2, <1>3, <2>1, <2>2 DEF Reserve, RetryReserve
<1>4. ASSUME NEW i \in Ids, NEW ch \in Charges, Settle(i, ch)
      PROVE  SameSettled /\ budget'[k] = budget[k]
  BY <1>2, <1>4 DEF Settle, RetrySettle
<1>5. ASSUME NEW i \in Ids, Release(i) PROVE SameSettled /\ budget'[k] = budget[k]
  BY <1>2, <1>5 DEF Release, CanRelease, SameSettled, ledger
<1>6. ASSUME NEW i \in Ids, Renew(i) PROVE SameSettled /\ budget'[k] = budget[k]
  BY <1>2, <1>6 DEF Renew, CanRenew, Live, SameSettled, ledger
<1>7. CASE Tick
  BY <1>7 DEF Tick, SameSettled, reservations, ledger
<1> QED
  BY <1>2, <1>3, <1>4, <1>5, <1>6, <1>7 DEF Next

(* A settlement adds its charge to each of its rows and to what they paid. *)
LEMMA RowPaid ==
  ASSUME TypeOK, NEW i \in Ids, NEW ch \in Charges, SettleActive(i, ch), NEW k \in Keys,
         budget[k] = Paid(k)
  PROVE  budget'[k] = Paid(k)'
<1>1. Paid(k)' = Paid(k) + (IF k \in request[i].keys THEN ch[MeterOf[k]] ELSE 0)
  BY SettlePays
<1>2. budget'[k] = IF k \in request[i].keys THEN budget[k] + ch[MeterOf[k]] ELSE budget[k]
  BY DEF SettleActive, SettledBudget
<1>3. budget[k] \in Nat
  BY DEF TypeOK
<1> QED
  BY <1>1, <1>2, <1>3

(* However often reservations, settlements and releases are repeated, the  *)
(* stored amount of such a row is the sum of the charges settled in it,    *)
(* each counted once (_settle_once, state "settled").                      *)
THEOREM EachChargeOnce == Spec => []ChargedExactlyOnce
<1>1. Init => ChargedExactlyOnce
  <2> SUFFICES ASSUME Init, NEW k \in Keys PROVE budget[k] = Paid(k)
    BY DEF ChargedExactlyOnce
  <2>1. Payers(k) = {}
    BY DEF Init, Payers
  <2> QED
    BY <2>1, TotalEmpty DEF Init, Paid
<1>2. TypeOK /\ ChargedExactlyOnce /\ [Next]_vars => ChargedExactlyOnce'
  <2> SUFFICES ASSUME TypeOK, ChargedExactlyOnce, [Next]_vars, NEW k \in Keys,
                      \A q \in Requests : q.base[k] = 0
               PROVE  budget'[k] = Paid(k)'
    BY DEF ChargedExactlyOnce
  <2>1. budget[k] = Paid(k)
    BY DEF ChargedExactlyOnce
  <2>2. CASE \E i \in Ids, ch \in Charges : SettleActive(i, ch)
    BY <2>1, <2>2, RowPaid
  <2>3. CASE ~ \E i \in Ids, ch \in Charges : SettleActive(i, ch)
    <3>1. SameSettled /\ budget'[k] = budget[k]
      BY <2>3, RowStands
    <3>2. Paid(k)' = Paid(k)
      BY <3>1, SettledKeeps DEF Rows
    <3> QED
      BY <2>1, <3>1, <3>2
  <2> QED
    BY <2>2, <2>3
<1> QED
  BY <1>1, <1>2, TypeCorrect, PTL DEF Spec

=============================================================================
