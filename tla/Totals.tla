------------------------------- MODULE Totals -------------------------------
(***************************************************************************)
(* The sum of a natural-valued function over a finite set, written as the  *)
(* number of units it counts: x contributes the units <<x, 1>>, ...,       *)
(* <<x, f[x]>>.  A reservation of n tokens holds n units of its ledger     *)
(* row, so "what is reserved" is a cardinality, and the facts about        *)
(* finite sets in the standard library are enough to prove everything the  *)
(* ledger proofs need about sums.                                          *)
(***************************************************************************)
EXTENDS Integers, FiniteSets, FiniteSetTheorems, TLAPS

Units(S, f) == UNION {{x} \X (1 .. f[x]) : x \in S}

Total(S, f) == Cardinality(Units(S, f))

-----------------------------------------------------------------------------
(* The facts about Total that the ledger proofs cite.                      *)

(* What a single element contributes is finite and has f[x] units. *)
LEMMA UnitsOfOne ==
  ASSUME NEW x, NEW n \in Nat
  PROVE  /\ IsFiniteSet({x} \X (1 .. n))
         /\ Cardinality({x} \X (1 .. n)) = n
<1>1. IsFiniteSet({x}) /\ Cardinality({x}) = 1
  BY FS_Singleton
<1>2. IsFiniteSet(1 .. n) /\ Cardinality(1 .. n) = n
  BY FS_Interval
<1>3. Cardinality({x} \X (1 .. n)) = Cardinality({x}) * Cardinality(1 .. n)
  BY <1>1, <1>2, FS_Product
<1>4. IsFiniteSet({x} \X (1 .. n))
  BY <1>1, <1>2, FS_Product
<1> QED
  BY <1>1, <1>2, <1>3, <1>4

(* The units of a finite set are finitely many, so a sum is a number. *)
LEMMA TotalType ==
  ASSUME NEW S, IsFiniteSet(S), NEW f, \A x \in S : f[x] \in Nat
  PROVE  IsFiniteSet(Units(S, f)) /\ Total(S, f) \in Nat
<1> DEFINE part(x) == {x} \X (1 .. f[x])
           Parts   == {part(x) : x \in S}
<1>1. IsFiniteSet(Parts)
  <2> DEFINE h == [x \in S |-> part(x)]
  <2>1. h \in Surjection(S, Parts)
    BY DEF Surjection
  <2> QED
    BY <2>1, FS_Surjection
<1>2. \A P \in Parts : IsFiniteSet(P)
  <2>1. \A x \in S : IsFiniteSet(part(x))
    BY UnitsOfOne
  <2> HIDE DEF part
  <2> QED
    BY <2>1
<1>3. IsFiniteSet(UNION Parts)
  BY <1>1, <1>2, FS_UNION
<1> QED
  BY <1>3, FS_CardinalityType DEF Units, Total

(* The sum over no elements is zero. *)
LEMMA TotalEmpty == ASSUME NEW f PROVE Total({}, f) = 0
<1>1. Units({}, f) = {}
  BY DEF Units
<1> QED
  BY <1>1, FS_EmptySet DEF Total

(* A new element adds its own amount to the sum. *)
LEMMA TotalAdd ==
  ASSUME NEW S, IsFiniteSet(S), NEW f, NEW x, x \notin S,
         f[x] \in Nat, \A y \in S : f[y] \in Nat
  PROVE  Total(S \cup {x}, f) = Total(S, f) + f[x]
<1> DEFINE U == Units(S, f)
           V == {x} \X (1 .. f[x])
<1>1. Units(S \cup {x}, f) = U \cup V
  BY DEF Units
<1>2. U \cap V = {}
  BY DEF Units
<1>3. IsFiniteSet(U) /\ Cardinality(U) \in Nat
  BY TotalType DEF Total
<1>4. IsFiniteSet(V) /\ Cardinality(V) = f[x]
  BY UnitsOfOne
<1>5. Cardinality(U \cup V) = Cardinality(U) + Cardinality(V) - Cardinality(U \cap V)
  BY <1>3, <1>4, FS_Union
<1>6. Cardinality(U \cap V) = 0
  BY <1>2, FS_EmptySet
<1>7. Cardinality(U \cup V) = Cardinality(U) + f[x]
  <2> HIDE DEF U, V
  <2> QED
    BY <1>3, <1>4, <1>5, <1>6
<1> QED
  BY <1>1, <1>7 DEF Total

(* Removing an element takes its amount away. *)
LEMMA TotalRemove ==
  ASSUME NEW S, IsFiniteSet(S), NEW f, NEW x \in S, \A y \in S : f[y] \in Nat
  PROVE  Total(S, f) = Total(S \ {x}, f) + f[x]
<1> DEFINE R == S \ {x}
<1>1. IsFiniteSet(R)
  BY FS_RemoveElement
<1>2. S = R \cup {x} /\ x \notin R
  OBVIOUS
<1> HIDE DEF R
<1>3. \A y \in R : f[y] \in Nat
  BY <1>2
<1>4. Total(R \cup {x}, f) = Total(R, f) + f[x]
  BY <1>1, <1>2, <1>3, TotalAdd
<1> QED
  BY <1>2, <1>4 DEF R

(* Two functions that agree on the set have the same sum. *)
LEMMA TotalAgree ==
  ASSUME NEW S, NEW f, NEW g, \A x \in S : f[x] = g[x]
  PROVE  Total(S, f) = Total(S, g)
<1>1. Units(S, f) = Units(S, g)
  BY DEF Units
<1> QED
  BY <1>1 DEF Total

(* A sum over fewer elements, each no larger, is no larger. *)
LEMMA TotalMonotone ==
  ASSUME NEW S, IsFiniteSet(S), NEW T, T \subseteq S, NEW f, NEW g,
         \A x \in S : g[x] \in Nat,
         \A x \in T : f[x] \in Nat /\ f[x] <= g[x]
  PROVE  Total(T, f) <= Total(S, g)
<1>1. Units(T, f) \subseteq Units(S, g)
  <2> SUFFICES ASSUME NEW u \in Units(T, f)
               PROVE  u \in Units(S, g)
    OBVIOUS
  <2>1. PICK x \in T : u \in {x} \X (1 .. f[x])
    BY DEF Units
  <2>2. PICK n \in 1 .. f[x] : u = <<x, n>>
    BY <2>1
  <2>3. n \in 1 .. g[x]
    BY <2>2
  <2> QED
    BY <2>2, <2>3 DEF Units
<1>2. IsFiniteSet(Units(S, g))
  BY TotalType
<1> QED
  BY <1>1, <1>2, FS_Subset DEF Total

(* A set that gains one element, its other amounts unchanged. *)
LEMMA TotalGains ==
  ASSUME NEW S, IsFiniteSet(S), NEW f, NEW g, NEW x, x \notin S,
         g[x] \in Nat, \A y \in S : g[y] \in Nat, \A y \in S : g[y] = f[y]
  PROVE  Total(S \cup {x}, g) = Total(S, f) + g[x]
<1>1. Total(S \cup {x}, g) = Total(S, g) + g[x]
  BY TotalAdd
<1>2. Total(S, g) = Total(S, f)
  BY TotalAgree
<1> QED
  BY <1>1, <1>2

(* The sum of f + g is the sum of f and the sum of g: the units of f, and  *)
(* those of g numbered after them.                                         *)
LEMMA TotalSplit ==
  ASSUME NEW S, IsFiniteSet(S), NEW f, NEW g, NEW h,
         \A x \in S : f[x] \in Nat /\ g[x] \in Nat /\ h[x] = f[x] + g[x]
  PROVE  Total(S, h) = Total(S, f) + Total(S, g)
<1> DEFINE upper(x) == {x} \X ((f[x] + 1) .. h[x])
           U == Units(S, f)
           W == UNION {upper(x) : x \in S}
           move == [u \in Units(S, g) |-> <<u[1], u[2] + f[u[1]]>>]
<1>1. \A x \in S : h[x] \in Nat
  OBVIOUS
<1>2. Units(S, h) = U \cup W
  <2>1. ASSUME NEW u \in Units(S, h) PROVE u \in U \cup W
    <3>1. PICK x \in S : u \in {x} \X (1 .. h[x])
      BY <2>1 DEF Units
    <3>2. PICK n \in 1 .. h[x] : u = <<x, n>>
      BY <3>1
    <3>3. CASE n <= f[x]
      BY <3>2, <3>3 DEF Units
    <3>4. CASE n > f[x]
      <4>1. n \in (f[x] + 1) .. h[x]
        BY <3>2, <3>4
      <4> QED
        BY <3>2, <4>1
    <3> QED
      BY <3>3, <3>4
  <2>2. ASSUME NEW u \in U PROVE u \in Units(S, h)
    <3>1. PICK x \in S : u \in {x} \X (1 .. f[x])
      BY <2>2 DEF Units
    <3>2. PICK n \in 1 .. f[x] : u = <<x, n>>
      BY <3>1
    <3>3. n \in 1 .. h[x]
      BY <3>2
    <3> QED
      BY <3>2, <3>3 DEF Units
  <2>3. ASSUME NEW u \in W PROVE u \in Units(S, h)
    <3>1. PICK x \in S : u \in upper(x)
      BY <2>3
    <3>2. PICK n \in (f[x] + 1) .. h[x] : u = <<x, n>>
      BY <3>1
    <3>3. n \in 1 .. h[x]
      BY <3>2
    <3> QED
      BY <3>2, <3>3 DEF Units
  <2> QED
    BY <2>1, <2>2, <2>3
<1>3. U \cap W = {}
  <2> SUFFICES ASSUME NEW u \in U, u \in W PROVE FALSE
    OBVIOUS
  <2>1. PICK x \in S, n \in Nat : n \in 1 .. f[x] /\ u = <<x, n>>
    BY DEF Units
  <2>2. PICK y \in S : u \in upper(y)
    OBVIOUS
  <2>3. PICK m \in (f[y] + 1) .. h[y] : u = <<y, m>>
    BY <2>2
  <2> QED
    BY <2>1, <2>3
<1>4. move \in Bijection(Units(S, g), W)
  <2>1. ASSUME NEW u \in Units(S, g) PROVE move[u] \in W
    <3>1. PICK x \in S, n \in Nat : n \in 1 .. g[x] /\ u = <<x, n>>
      BY <2>1 DEF Units
    <3>2. move[u] = <<x, n + f[x]>>
      BY <3>1
    <3>3. n + f[x] \in (f[x] + 1) .. h[x]
      BY <3>1
    <3>4. move[u] \in upper(x)
      BY <3>2, <3>3
    <3> QED
      BY <3>4
  <2>2. ASSUME NEW u \in Units(S, g), NEW v \in Units(S, g), move[u] = move[v]
        PROVE  u = v
    <3>1. PICK x \in S, n \in Nat : n \in 1 .. g[x] /\ u = <<x, n>>
      BY <2>2 DEF Units
    <3>2. PICK y \in S, m \in Nat : m \in 1 .. g[y] /\ v = <<y, m>>
      BY <2>2 DEF Units
    <3>3. <<x, n + f[x]>> = <<y, m + f[y]>>
      BY <2>2, <3>1, <3>2
    <3> QED
      BY <3>1, <3>2, <3>3
  <2>3. ASSUME NEW w \in W PROVE \E u \in Units(S, g) : move[u] = w
    <3>1. PICK x \in S : w \in upper(x)
      BY <2>3
    <3>2. PICK n \in (f[x] + 1) .. h[x] : w = <<x, n>>
      BY <3>1
    <3>3. n - f[x] \in 1 .. g[x]
      BY <3>2
    <3>4. <<x, n - f[x]>> \in Units(S, g)
      BY <3>3 DEF Units
    <3>5. move[<<x, n - f[x]>>] = <<x, (n - f[x]) + f[x]>>
      BY <3>4
    <3>6. (n - f[x]) + f[x] = n
      BY <3>2
    <3> QED
      BY <3>2, <3>4, <3>5, <3>6
  <2>4. move \in [Units(S, g) -> W]
    BY <2>1
  <2> HIDE DEF move, W
  <2> QED
    BY <2>2, <2>3, <2>4 DEF Bijection, Injection, Surjection, IsInjective
<1>5. IsFiniteSet(U) /\ Cardinality(U) \in Nat
  BY TotalType DEF Total
<1>6. IsFiniteSet(Units(S, g)) /\ Cardinality(Units(S, g)) \in Nat
  BY TotalType DEF Total
<1>7. IsFiniteSet(W) /\ Cardinality(W) = Cardinality(Units(S, g))
  BY <1>4, <1>6, FS_Bijection DEF ExistsBijection
<1>8. Cardinality(U \cap W) = 0
  BY <1>3, FS_EmptySet
<1>9. Cardinality(U \cup W) = Cardinality(U) + Cardinality(Units(S, g))
  <2> HIDE DEF U, W
  <2>1. Cardinality(U \cup W) = Cardinality(U) + Cardinality(W) - Cardinality(U \cap W)
    BY <1>5, <1>7, FS_Union
  <2> QED
    BY <2>1, <1>5, <1>6, <1>7, <1>8
<1> QED
  BY <1>2, <1>9 DEF Total

=============================================================================
