------------------------------- MODULE Merge -------------------------------
(***************************************************************************)
(* pollard merge: the CLI copies every source into a private spool, checks *)
(* all spools, and then unions one after the other into a destination, in  *)
(* two passes each: the first only looks for reasons to refuse, the second *)
(* writes node by node.  Nothing is locked; the process may die anywhere,  *)
(* and what it wrote stays.                                                *)
(*                                                                         *)
(* A node's metadata is one scalar key with the merge_conflicts about it,  *)
(* and the result_conflicts; a spool's digest is the spool as it was when  *)
(* it was finalized.                                                       *)
(***************************************************************************)
EXTENDS Integers, Sequences, FiniteSets, SequencesExt, FiniteSetTheorems, TLAPS

CONSTANTS
  Stores,      \* the stores that are merged
  Nodes,       \* node identities
  Parent,      \* Nodes -> Nodes \cup {None}
  Results,     \* results a call may have had
  Values,      \* values of the metadata key
  None,        \* no result, no value, no parent
  Absent,      \* the node is not stored
  Live,        \* TRUE: runs write to a destination while it is merged
  MaxRecords,  \* bound: nodes runs record
  MaxMerges,   \* bound: merges that are started
  MaxSources   \* bound: sources of one merge

Records == [result : Results \cup {None}, rivals : SUBSET Results,
            value : Values \cup {None}, clashes : SUBSET SUBSET Values]

VARIABLES
  store,       \* store -> node -> its record, or Absent
  pc,          \* where the merge is
  into,        \* the destination
  replay,      \* --replay was given
  sources,     \* the sources still to be applied, in order
  spools,      \* source -> its spool, a sequence of [node, record]
  digests,     \* source -> the spool its digest was taken of
  todo,        \* nodes the traversal of a source has still to visit
  place,       \* position in a spool
  existing,    \* what the write pass read of the destination's node
  records, merges   \* how much has happened

merging == <<pc, into, replay, sources, spools, digests, todo, place, existing>>
vars == <<store, merging, records, merges>>

Phases == {"idle", "prepare", "validate", "check", "look", "write", "done"}
Lines == [node : Nodes, record : Records]

TypeOK ==
  /\ store \in [Stores -> [Nodes -> Records \cup {Absent}]]
  /\ pc \in Phases
  /\ into \in Stores /\ replay \in BOOLEAN
  /\ sources \in Seq(Stores) /\ Len(sources) <= MaxSources
  /\ spools \in [Stores -> Seq(Lines)] /\ digests \in [Stores -> Seq(Lines)]
  /\ todo \subseteq Nodes
  /\ place \in 1 .. (IF pc = "prepare" THEN Len(sources) ELSE Cardinality(Nodes) + 1)
  /\ existing \in Records \cup {Absent}
  /\ records \in 0 .. MaxRecords /\ merges \in 0 .. MaxMerges

Init ==
  /\ store = [s \in Stores |-> [n \in Nodes |-> Absent]]
  /\ pc = "idle"
  /\ into \in Stores /\ replay = FALSE
  /\ sources = <<>>
  /\ spools = [s \in Stores |-> <<>>]
  /\ digests = [s \in Stores |-> <<>>]
  /\ todo = {} /\ place = 1 /\ existing = Absent
  /\ records = 0 /\ merges = 0

-----------------------------------------------------------------------------
(* The store's two writes.                                                 *)

Stored(s, n) == store[s][n] # Absent
ParentStored(s, n) == Parent[n] # None => Stored(s, Parent[n])

(* put: the first result stays, another one joins the conflicts, and the   *)
(* incoming metadata counts for a new node only.                           *)
PutAs(old, new) ==
  IF old = Absent THEN new
  ELSE [old EXCEPT !.rivals = @ \cup ({new.result} \ {None, old.result})]

(* update_meta replaces the keys that are in the patch.                    *)
Patched(now, patch) ==
  [result |-> now.result,
   rivals |-> IF patch.rivals = {} THEN now.rivals ELSE patch.rivals,
   value |-> IF patch.value = None THEN now.value ELSE patch.value,
   clashes |-> IF patch.clashes = {} THEN now.clashes ELSE patch.clashes]

-----------------------------------------------------------------------------
(* What is merged into what.                                               *)

ResultConflict(old, new) == new.result \notin {None, old.result}

Disagreement(old, new) ==
  IF None \notin {old.value, new.value} /\ old.value # new.value
  THEN {{old.value, new.value}} ELSE {}

(* A mutant: a clash replaces those that were recorded before.             *)
ClashesReplaced(old, new) ==
  IF Disagreement(old, new) = {} THEN old.clashes \cup new.clashes
  ELSE Disagreement(old, new) \ old.clashes

Clashes(old, new) == old.clashes \cup new.clashes \cup Disagreement(old, new)

(* _merge_meta and the result conflict: scalars stay as they are, lists    *)
(* are united, and a disagreement is recorded with both values.            *)
Merged(old, new) ==
  [result |-> old.result,
   rivals |-> old.rivals \cup new.rivals
                \cup (IF ResultConflict(old, new) THEN {new.result} ELSE {}),
   value |-> IF old.value = None THEN new.value ELSE old.value,
   clashes |-> Clashes(old, new)]

-----------------------------------------------------------------------------
(* A run records a node in a store.  A run's write to the destination of a *)
(* merge that is under way is what "quiesce writers" rules out.            *)
Record(s, n, r, v) ==
  /\ records < MaxRecords
  /\ Live \/ pc \in {"idle", "prepare", "validate"} \/ s # into
  /\ ParentStored(s, n)
  /\ LET new == [result |-> r, rivals |-> {}, value |-> v, clashes |-> {}]
     IN  store' = [store EXCEPT ![s][n] = PutAs(@, new)]
  /\ records' = records + 1
  /\ UNCHANGED <<merging, merges>>

RootsOf(s) == {n \in Nodes : Parent[n] = None /\ Stored(s, n)}

Start(d, ss, r) ==
  /\ pc = "idle"
  /\ merges < MaxMerges
  /\ merges' = merges + 1
  /\ into' = d /\ sources' = ss /\ replay' = r
  /\ spools' = [s \in Stores |-> <<>>]
  /\ digests' = [s \in Stores |-> <<>>]
  /\ todo' = RootsOf(ss[1])
  /\ place' = 1
  /\ pc' = "prepare"
  /\ UNCHANGED <<store, existing, records>>

(* One node of the traversal: it is read and goes to the spool, and then   *)
(* its children are listed.                                                *)
PrepareNode(n) ==
  /\ pc = "prepare"
  /\ n \in todo
  /\ LET s == sources[place] IN
     /\ spools' = [spools EXCEPT ![s] = Append(@, [node |-> n, record |-> store[s][n]])]
     /\ todo' = (todo \ {n}) \cup {c \in Nodes : Parent[c] = n /\ Stored(s, c)}
  /\ UNCHANGED <<store, pc, into, replay, sources, digests, place, existing, records, merges>>

(* The traversal has ended: the digest is written, the next source opened. *)
Finalize ==
  /\ pc = "prepare"
  /\ todo = {}
  /\ digests' = [digests EXCEPT ![sources[place]] = spools[sources[place]]]
  /\ IF place < Len(sources)
     THEN place' = place + 1 /\ todo' = RootsOf(sources[place + 1]) /\ UNCHANGED pc
     ELSE place' = 1 /\ pc' = "validate" /\ UNCHANGED todo
  /\ UNCHANGED <<store, into, replay, sources, spools, existing, records, merges>>

(* A spool file is truncated or altered between two passes over it.        *)
Damage(s) ==
  /\ pc \in {"validate", "check", "look"} /\ place = 1
  /\ s \in ToSet(sources) /\ spools[s] # <<>>
  /\ \/ spools' = [spools EXCEPT ![s] = Front(@)]
     \/ \E r \in Results : spools' = [spools EXCEPT ![s][Len(spools[s])].record.result = r]
  /\ UNCHANGED <<store, pc, into, replay, sources, digests, todo, place, existing, records, merges>>

Validated(s) == spools[s] = digests[s]

Abandon ==
  /\ pc' = "idle" /\ sources' = <<>> /\ place' = 1 /\ todo' = {}
  /\ existing' = Absent
  /\ spools' = [s \in Stores |-> <<>>] /\ digests' = [s \in Stores |-> <<>>]
  /\ UNCHANGED <<store, into, replay, records, merges>>

ValidateAll ==
  /\ pc = "validate"
  /\ \A s \in ToSet(sources) : Validated(s)
  /\ pc' = "check"
  /\ UNCHANGED <<store, into, replay, sources, spools, digests, todo, place, existing, records, merges>>

Source == Head(sources)
Line == spools[Source][place]
Left == place <= Len(spools[Source])
Fresh == place = 1 => Validated(Source)

(* A replay merge refuses a result the destination does not have.          *)
Refusal(line) == replay /\ Stored(into, line.node)
                   /\ ResultConflict(store[into][line.node], line.record)

CheckNode ==
  /\ pc = "check" /\ Fresh /\ Left
  /\ ~Refusal(Line)
  /\ place' = place + 1
  /\ UNCHANGED <<store, pc, into, replay, sources, spools, digests, todo, existing, records, merges>>

Checked ==
  /\ pc = "check" /\ Fresh /\ ~Left
  /\ pc' = "look" /\ place' = 1
  /\ UNCHANGED <<store, into, replay, sources, spools, digests, todo, existing, records, merges>>

(* A damaged spool, a result conflict under --replay, or the death of the  *)
(* process end the merge where it is.                                      *)
Fail ==
  /\ \/ pc = "validate" /\ \E s \in ToSet(sources) : ~Validated(s)
     \/ pc \in {"check", "look"} /\ ~Fresh
     \/ pc = "check" /\ Fresh /\ Left /\ Refusal(Line)
  /\ Abandon

Crash == pc \notin {"idle", "done"} /\ Abandon

(* The second pass: exists and get, and then the write they lead to.       *)
LookNode ==
  /\ pc = "look" /\ Fresh /\ Left
  /\ existing' = store[into][Line.node]
  /\ pc' = "write"
  /\ UNCHANGED <<store, into, replay, sources, spools, digests, todo, place, records, merges>>

WriteNode ==
  /\ pc = "write"
  /\ LET n == Line.node
         now == store[into][n]
         patch == Merged(existing, Line.record)
     IN  IF existing = Absent
         THEN /\ ParentStored(into, n)
              /\ store' = [store EXCEPT ![into][n] = PutAs(now, Line.record)]
         ELSE store' = IF patch = existing THEN store
                       ELSE [store EXCEPT ![into][n] = Patched(now, patch)]
  /\ place' = place + 1
  /\ pc' = "look"
  /\ UNCHANGED <<into, replay, sources, spools, digests, todo, existing, records, merges>>

(* The source is merged: the next one, or the end.                         *)
SourceMerged ==
  /\ pc = "look" /\ Fresh /\ ~Left
  /\ IF Len(sources) > 1
     THEN sources' = Tail(sources) /\ place' = 1 /\ pc' = "check" /\ UNCHANGED existing
     ELSE pc' = "done" /\ existing' = Absent /\ UNCHANGED <<sources, place>>
  /\ UNCHANGED <<store, into, replay, spools, digests, todo, records, merges>>

Finish == pc = "done" /\ Abandon

Orders(d) == {ss \in BoundedSeq(Stores \ {d}, MaxSources) :
                ss # <<>> /\ IsInjective(ss)}

Next ==
  \/ \E s \in Stores, n \in Nodes, r \in Results \cup {None}, v \in Values \cup {None} :
        Record(s, n, r, v)
  \/ \E d \in Stores, r \in BOOLEAN : \E ss \in Orders(d) : Start(d, ss, r)
  \/ \E n \in Nodes : PrepareNode(n)
  \/ Finalize \/ ValidateAll \/ CheckNode \/ Checked
  \/ LookNode \/ WriteNode \/ SourceMerged
  \/ Fail \/ Crash \/ Finish
  \/ \E s \in Stores : Damage(s)

Spec == Init /\ [][Next]_vars

-----------------------------------------------------------------------------
KnownResults(r) == IF r = Absent THEN {} ELSE ({r.result} \cup r.rivals) \ {None}
KnownValues(r) == IF r = Absent THEN {} ELSE ({r.value} \cup UNION r.clashes) \ {None}

(* A merge that reports success has lost nothing of what the spools of its *)
(* sources were finalized with: every result and every value is in the     *)
(* destination, as what is stored or in a recorded conflict ("Union every  *)
(* node in src into dst without discarding metadata", merge.py).           *)
MergeKeepsAll ==
  pc = "done" =>
    \A s \in Stores : \A k \in DOMAIN digests[s] :
      LET line == digests[s][k]
          here == store[into][line.node]
      IN  /\ here # Absent
          /\ KnownResults(line.record) \subseteq KnownResults(here)
          /\ KnownValues(line.record) \subseteq KnownValues(here)

(* "Repeating the exact merge is idempotent" (api-reference.md): once a    *)
(* merge is done, none of its spools would change anything.                *)
RerunIsNoop ==
  pc = "done" =>
    \A s \in Stores : \A k \in DOMAIN digests[s] :
      LET line == digests[s][k]
      IN  Merged(store[into][line.node], line.record) = store[into][line.node]

(* "replay mode rejects result conflicts" (api-reference.md): a replay     *)
(* merge that is done has left no result of a source as a rival only.      *)
ReplayRejects ==
  (pc = "done" /\ replay) =>
    \A s \in Stores : \A k \in DOMAIN digests[s] :
      ~ResultConflict(store[into][digests[s][k].node], digests[s][k].record)

(* No step of a run or of a merge, complete or abandoned, takes back a     *)
(* result or forgets a value that some store knew; nodes are never lost.   *)
NothingForgotten ==
  \A s \in Stores, n \in Nodes :
    store[s][n] # Absent =>
      /\ store'[s][n] # Absent
      /\ store'[s][n].result = store[s][n].result
      /\ KnownResults(store[s][n]) \subseteq KnownResults(store'[s][n])
      /\ KnownValues(store[s][n]) \subseteq KnownValues(store'[s][n])

(* Also while runs write to the destination, a merge that is done has left *)
(* the result of every node of its sources there, stored or as a conflict; *)
(* what it may lose then is metadata, their conflicts included.            *)
ResultsArrive ==
  pc = "done" =>
    \A s \in Stores : \A k \in DOMAIN digests[s] :
      LET line == digests[s][k]
      IN  /\ Stored(into, line.node)
          /\ line.record.result \in KnownResults(store[into][line.node]) \cup {None}

(* Whoever writes, no node vanishes and the first result of a node stays.  *)
FirstResultStays ==
  \A s \in Stores, n \in Nodes :
    Stored(s, n) => store'[s][n] # Absent /\ store'[s][n].result = store[s][n].result

-----------------------------------------------------------------------------
(* What the theorems below take from the constants; the runs check it of   *)
(* theirs.                                                                 *)
Allowed ==
  /\ IsFiniteSet(Nodes) /\ None \notin Nodes
  /\ Parent \in [Nodes -> Nodes \cup {None}]
  /\ Absent \notin Records
  /\ Live \in BOOLEAN
  /\ MaxRecords \in Nat /\ MaxMerges \in Nat /\ MaxSources \in Nat

(* The invariant.  A merge has sources, each once; before anything is      *)
(* checked, only they have digests.                                        *)
SourcesFit ==
  /\ pc = "idle" <=> sources = <<>>
  /\ \A i, j \in DOMAIN sources : sources[i] = sources[j] => i = j
  /\ pc \in {"idle", "prepare", "validate"} =>
       \A s \in Stores \ ToSet(sources) : digests[s] = <<>>

(* A spool has a node once, which is why the traversal ends.               *)
Distinct(q) == \A j, k \in DOMAIN q : q[j].node = q[k].node => j = k
NodesOnce == \A s \in Stores : Distinct(spools[s]) /\ Distinct(digests[s])

Visited == {spools[sources[place]][k].node : k \in DOMAIN spools[sources[place]]}

(* What is visited or to be visited hangs from what is visited.            *)
ParentsFirst ==
  pc = "prepare" =>
    /\ Visited \cap todo = {}
    /\ \A n \in Visited \cup todo : Parent[n] \in Visited \cup {None}
    /\ \A n \in todo : Stored(sources[place], n)
    /\ \A j \in DOMAIN sources : j > place => spools[sources[j]] = <<>>

(* A pass over a spool that was found whole finds it whole.                *)
PassesWhole ==
  /\ pc = "validate" => place = 1
  /\ pc \in {"check", "look"} => place <= Len(spools[Source]) + 1
  /\ pc = "write" => Left
  /\ pc \in {"check", "look"} /\ place > 1 => Validated(Source)
  /\ pc \in {"write", "done"} => Validated(Source)
  /\ pc = "done" => Len(sources) = 1 /\ ~Left

(* The lines that have been written by now.                                *)
Applied(s, k) ==
  \/ s \notin ToSet(sources)
  \/ s = Source /\ pc \in {"look", "write", "done"} /\ k < place

Arrived(here, record) ==
  here # Absent /\ record.result \in KnownResults(here) \cup {None}
Absorbed(here, record) == here # Absent /\ Merged(here, record) = here

AppliedArrived ==
  \A s \in Stores : \A k \in DOMAIN digests[s] : Applied(s, k) =>
    Arrived(store[into][digests[s][k].node], digests[s][k].record)

(* What the write pass has read is still so, but for what runs added.      *)
ReadStands ==
  pc = "write" =>
    LET now == store[into][Line.node]
    IN  /\ existing # Absent =>
             now # Absent /\ now.result = existing.result /\ existing.rivals \subseteq now.rivals
        /\ \A s \in Stores : \A k \in DOMAIN digests[s] :
             Applied(s, k) /\ digests[s][k].node = Line.node => Arrived(existing, digests[s][k].record)

Shape == TypeOK /\ SourcesFit /\ NodesOnce /\ ParentsFirst /\ PassesWhole
Inv == Shape /\ AppliedArrived /\ ReadStands

(* And where nobody else writes: nothing has been added, what is written   *)
(* is in, and a replay has met no other result.                            *)
ReadExact == pc = "write" => existing = store[into][Line.node]
AppliedAbsorbed ==
  \A s \in Stores : \A k \in DOMAIN digests[s] : Applied(s, k) =>
    Absorbed(store[into][digests[s][k].node], digests[s][k].record)
Screened(s, k) ==
  \/ Applied(s, k)
  \/ s = Source /\ (IF pc = "check" THEN k < place ELSE pc \in {"look", "write"})
ReplayAgrees ==
  replay => \A s \in Stores : \A k \in DOMAIN digests[s] :
    Screened(s, k) /\ Stored(into, digests[s][k].node) =>
      ~ResultConflict(store[into][digests[s][k].node], digests[s][k].record)
QuietInv == ReadExact /\ AppliedAbsorbed /\ ReplayAgrees
-----------------------------------------------------------------------------
(* The records and the shape of a merge under way.                         *)
LEMMA PutFits ==
  ASSUME NEW old \in Records \cup {Absent}, NEW new \in Records
  PROVE  PutAs(old, new) \in Records
BY DEF PutAs, Records

LEMMA MergedFits ==
  ASSUME NEW old \in Records, NEW new \in Records
  PROVE  Merged(old, new) \in Records
<1>1. Disagreement(old, new) \in SUBSET SUBSET Values
  BY DEF Disagreement, Records
<1> QED
  BY <1>1 DEF Merged, Clashes, ResultConflict, Records

LEMMA PatchedFits ==
  ASSUME NEW now \in Records, NEW patch \in Records
  PROVE  Patched(now, patch) \in Records
BY DEF Patched, Records

LEMMA NodesCount == Allowed => Cardinality(Nodes) \in Nat
BY FS_CardinalityType DEF Allowed

(* A sequence of lines with distinct nodes is no longer than there are     *)
(* nodes.                                                                  *)
LEMMA DistinctShort ==
  ASSUME Allowed, NEW q \in Seq(Lines), Distinct(q)
  PROVE  Len(q) <= Cardinality(Nodes)
<1> DEFINE f == [k \in 1 .. Len(q) |-> q[k].node]
<1>1. Len(q) \in Nat /\ DOMAIN q = 1 .. Len(q) /\ \A k \in 1 .. Len(q) : q[k] \in Lines
  OBVIOUS
<1>2. f \in [1 .. Len(q) -> Nodes]
  BY <1>1 DEF Lines
<1>3. IsInjective(f)
  BY <1>1 DEF IsInjective, Distinct
<1>4. f \in Injection(1 .. Len(q), Nodes)
  BY <1>2, <1>3 DEF Injection
<1>5. Cardinality(1 .. Len(q)) <= Cardinality(Nodes)
  <2> HIDE DEF f
  <2> QED
    BY <1>4, FS_Injection DEF Allowed
<1>6. Cardinality(1 .. Len(q)) = Len(q)
  <2>1. \A n \in Nat : Cardinality(1 .. n) = n
    BY FS_Interval
  <2> QED
    BY <1>1, <2>1
<1> QED
  BY <1>5, <1>6

LEMMA ShapeInit == Allowed /\ Init => Shape
<1> SUFFICES ASSUME Allowed, Init PROVE Shape
  OBVIOUS
<1>1. TypeOK
  <2>1. store \in [Stores -> [Nodes -> Records \cup {Absent}]] /\ existing \in Records \cup {Absent}
    BY DEF Init
  <2>2. sources \in Seq(Stores) /\ Len(sources) <= MaxSources
    BY DEF Init, Allowed
  <2>3. spools \in [Stores -> Seq(Lines)] /\ digests \in [Stores -> Seq(Lines)]
    BY DEF Init
  <2>4. place \in 1 .. Cardinality(Nodes) + 1
    BY NodesCount DEF Init
  <2>5. replay \in BOOLEAN
    BY Zenon DEF Init
  <2> QED
    BY <2>1, <2>2, <2>3, <2>4, <2>5 DEF Init, TypeOK, Phases, Allowed
<1>2. SourcesFit /\ NodesOnce /\ ParentsFirst /\ PassesWhole
  BY DEF Init, SourcesFit, NodesOnce, Distinct, ParentsFirst, PassesWhole
<1> QED
  BY <1>1, <1>2 DEF Shape

LEMMA AbandonKeepsShape == ASSUME Allowed, Shape, Abandon PROVE Shape'
<1>1. TypeOK'
  BY NodesCount DEF Abandon, Shape, TypeOK, Phases, Allowed
<1>2. (SourcesFit /\ NodesOnce /\ ParentsFirst /\ PassesWhole)'
  BY DEF Abandon, SourcesFit, NodesOnce, Distinct, ParentsFirst, PassesWhole
<1> QED
  BY <1>1, <1>2 DEF Shape

LEMMA RecordKeepsShape ==
  ASSUME Allowed, Shape, NEW t \in Stores, NEW m \in Nodes,
         NEW r \in Results \cup {None}, NEW v \in Values \cup {None}, Record(t, m, r, v)
  PROVE  Shape'
<1> DEFINE new == [result |-> r, rivals |-> {}, value |-> v, clashes |-> {}]
<1>1. new \in Records
  BY DEF Records
<1>2. PutAs(store[t][m], new) \in Records
  BY <1>1, PutFits DEF Shape, TypeOK
<1>3. TypeOK'
  <2>1. store' = [store EXCEPT ![t][m] = PutAs(store[t][m], new)]
    BY DEF Record
  <2>2. store' \in [Stores -> [Nodes -> Records \cup {Absent}]]
    <3> HIDE DEF new
    <3> QED
      BY <1>2, <2>1 DEF Shape, TypeOK
  <2>3. records' \in 0 .. MaxRecords
    BY DEF Record, Shape, TypeOK, Allowed
  <2> QED
    BY <2>2, <2>3 DEF Record, merging, Shape, TypeOK
<1>4. \A s \in Stores, n \in Nodes : Stored(s, n) => Stored(s, n)'
  BY <1>2 DEF Record, Stored, Shape, TypeOK, Allowed
<1>5. ParentsFirst'
  <2>1. Visited' = Visited /\ UNCHANGED <<pc, sources, spools, todo, place>>
    BY DEF Record, merging, Visited
  <2>2. pc = "prepare" => sources[place] \in Stores
    BY DEF Shape, TypeOK
  <2>3. pc = "prepare" => \A n \in todo : Stored(sources[place], n)'
    BY <1>4, <2>1, <2>2 DEF Shape, TypeOK, ParentsFirst
  <2> QED
    BY <2>1, <2>3 DEF Shape, ParentsFirst, Stored
<1>6. (SourcesFit /\ NodesOnce /\ PassesWhole)'
  BY DEF Record, merging, Shape, SourcesFit, NodesOnce, Distinct, PassesWhole, Source, Line, Left, Validated
<1> QED
  BY <1>3, <1>5, <1>6 DEF Shape

LEMMA StartKeepsShape ==
  ASSUME Allowed, Shape, NEW d \in Stores, NEW r \in BOOLEAN, NEW ss \in Orders(d), Start(d, ss, r)
  PROVE  Shape'
<1>1. ss \in Seq(Stores) /\ Len(ss) \in 1 .. MaxSources /\ IsInjective(ss)
  BY DEF Orders, BoundedSeq, SeqOf, Allowed
<1>2. TypeOK'
  BY <1>1 DEF Start, Shape, TypeOK, Phases, RootsOf, Allowed
<1>3. SourcesFit'
  BY <1>1 DEF Start, Shape, TypeOK, SourcesFit, IsInjective
<1>4. NodesOnce' /\ PassesWhole'
  BY DEF Start, NodesOnce, Distinct, PassesWhole
<1>5. ParentsFirst'
  <2>1. ss[1] \in Stores /\ \A j \in DOMAIN ss : ss[j] \in Stores
    BY <1>1
  <2>2. Visited' = {}
    BY <2>1 DEF Start, Visited
  <2>3. \A n \in todo' : Parent[n] = None /\ Stored(ss[1], n)
    BY DEF Start, RootsOf
  <2> QED
    BY <2>1, <2>2, <2>3 DEF Start, ParentsFirst, Stored
<1> QED
  BY <1>2, <1>3, <1>4, <1>5 DEF Shape

LEMMA PrepareKeepsShape ==
  ASSUME Allowed, Shape, NEW n \in Nodes, PrepareNode(n)
  PROVE  Shape'
<1> DEFINE s == sources[place]
           line == [node |-> n, record |-> store[s][n]]
           q == spools[s]
<1>1. place \in DOMAIN sources /\ s \in Stores /\ q \in Seq(Lines)
  BY DEF PrepareNode, Shape, TypeOK
<1>2. line \in Lines
  BY <1>1 DEF PrepareNode, Shape, TypeOK, ParentsFirst, Stored, Lines
<1>3. /\ Append(q, line) \in Seq(Lines)
      /\ DOMAIN q = 1 .. Len(q) /\ DOMAIN Append(q, line) = 1 .. Len(q) + 1 /\ Len(q) \in Nat
      /\ Append(q, line)[Len(q) + 1] = line
      /\ \A k \in 1 .. Len(q) : Append(q, line)[k] = q[k]
  BY <1>1, <1>2
<1>4. /\ spools' = [spools EXCEPT ![s] = Append(q, line)]
      /\ spools \in [Stores -> Seq(Lines)]
  BY DEF PrepareNode, Shape, TypeOK
<1>5. Visited = {q[k].node : k \in 1 .. Len(q)}
  BY <1>3 DEF Visited
<1>6. n \notin Visited /\ Distinct(q)
  BY <1>1 DEF PrepareNode, Shape, ParentsFirst, NodesOnce
<1> HIDE DEF q
<1>7. TypeOK'
  <2>1. spools' \in [Stores -> Seq(Lines)]
    BY <1>1, <1>3, <1>4
  <2> QED
    BY <2>1 DEF PrepareNode, Shape, TypeOK
<1>8. Distinct(Append(q, line))
  BY <1>3, <1>5, <1>6 DEF Distinct
<1>9. NodesOnce'
  BY <1>1, <1>4, <1>8 DEF PrepareNode, Shape, NodesOnce, Distinct
<1>10. Visited' = Visited \cup {n}
  <2>1. spools'[sources'[place']] = Append(q, line)
    BY <1>1, <1>4 DEF PrepareNode
  <2>2. Visited' = {Append(q, line)[k].node : k \in 1 .. Len(q) + 1}
    BY <1>3, <2>1 DEF Visited
  <2> QED
    BY <1>3, <1>5, <2>2
<1>11. ParentsFirst'
  <2>1. Visited' \cap todo' = {}
    <3>1. todo' = (todo \ {n}) \cup {c \in Nodes : Parent[c] = n /\ Stored(s, c)}
      BY DEF PrepareNode
    <3>2. Visited \cap todo = {} /\ \A m \in Visited : Parent[m] \in Visited \cup {None}
      BY DEF PrepareNode, Shape, ParentsFirst
    <3>3. n \in Nodes /\ Parent[n] # n /\ n # None
      BY <1>6, <3>2 DEF PrepareNode, Shape, ParentsFirst, Allowed, TypeOK
    <3> QED
      BY <1>6, <1>10, <3>1, <3>2, <3>3
  <2>2. \A m \in Visited' \cup todo' : Parent[m] \in Visited' \cup {None}
    BY <1>10 DEF PrepareNode, Shape, ParentsFirst
  <2>3. \A m \in todo' : Stored(sources[place], m)
    BY DEF PrepareNode, Shape, ParentsFirst
  <2>4. \A j \in DOMAIN sources : j > place => spools'[sources[j]] = <<>>
    <3>1. SUFFICES ASSUME NEW j \in DOMAIN sources, j > place PROVE spools'[sources[j]] = <<>>
      OBVIOUS
    <3>2. sources[j] \in Stores /\ spools[sources[j]] = <<>> /\ j # place
      BY <3>1 DEF PrepareNode, Shape, ParentsFirst, TypeOK
    <3>3. sources[j] # s
      BY <1>1, <3>2 DEF Shape, SourcesFit
    <3> QED
      BY <1>4, <3>2, <3>3
  <2> QED
    BY <2>1, <2>2, <2>3, <2>4 DEF PrepareNode, ParentsFirst, Stored
<1>12. SourcesFit' /\ PassesWhole'
  BY DEF PrepareNode, Shape, SourcesFit, PassesWhole
<1> QED
  BY <1>7, <1>9, <1>11, <1>12 DEF Shape

LEMMA FinalizeKeepsShape == ASSUME Allowed, Shape, Finalize PROVE Shape'
<1>1. place \in DOMAIN sources /\ sources[place] \in Stores /\ Len(sources) \in Nat
  BY DEF Finalize, Shape, TypeOK
<1>7. spools[sources[place]] \in Seq(Lines) /\ spools \in [Stores -> Seq(Lines)]
      /\ digests \in [Stores -> Seq(Lines)]
      /\ digests' = [digests EXCEPT ![sources[place]] = spools[sources[place]]]
  BY <1>1 DEF Finalize, Shape, TypeOK
<1>8. place < Len(sources) => /\ place + 1 \in DOMAIN sources /\ sources[place + 1] \in Stores
                              /\ place + 1 > place
  <2>1. sources \in Seq(Stores) /\ DOMAIN sources = 1 .. Len(sources) /\ place \in Nat
    BY <1>1 DEF Shape, TypeOK
  <2> QED
    BY <1>1, <2>1
<1>2. TypeOK'
  <2>1. digests' \in [Stores -> Seq(Lines)]
    BY <1>1, <1>7
  <2>2. place' \in 1 .. (IF pc' = "prepare" THEN Len(sources) ELSE Cardinality(Nodes) + 1)
    BY <1>1, <1>8, NodesCount DEF Finalize
  <2>3. todo' \subseteq Nodes /\ pc' \in Phases
    BY DEF Finalize, Shape, TypeOK, Phases, RootsOf
  <2> QED
    BY <2>1, <2>2, <2>3 DEF Finalize, Shape, TypeOK
<1>3. SourcesFit'
  BY <1>1 DEF Finalize, Shape, SourcesFit, TypeOK, ToSet
<1>4. NodesOnce'
  <2>1. \A s \in Stores : Distinct(spools[s]) /\ Distinct(digests[s])
    BY DEF Shape, NodesOnce
  <2>2. \A s \in Stores : digests'[s] \in {digests[s], spools[s]} /\ spools' = spools
    BY <1>1, <1>7 DEF Finalize
  <2> QED
    BY <2>1, <2>2 DEF NodesOnce
<1>5. ParentsFirst'
  <2>1. CASE place < Len(sources)
    <3> DEFINE s == sources[place + 1]
    <3>1. /\ \A j \in DOMAIN sources : j > place => spools[sources[j]] = <<>>
          /\ UNCHANGED <<pc, sources, spools, store>> /\ place' = place + 1 /\ todo' = RootsOf(s)
      BY <2>1 DEF Finalize, Shape, ParentsFirst
    <3>2. Visited' = {}
      BY <1>8, <2>1, <3>1 DEF Visited
    <3>3. \A n \in todo' : Parent[n] = None /\ Stored(s, n)
      BY <3>1 DEF RootsOf
    <3>4. \A j \in DOMAIN sources : j > place + 1 => spools[sources[j]] = <<>>
      BY <1>1, <3>1
    <3> QED
      BY <3>1, <3>2, <3>3, <3>4 DEF ParentsFirst, Stored
  <2>2. CASE ~(place < Len(sources))
    BY <2>2 DEF Finalize, ParentsFirst
  <2> QED
    BY <2>1, <2>2
<1>6. PassesWhole'
  BY DEF Finalize, PassesWhole
<1> QED
  BY <1>2, <1>3, <1>4, <1>5, <1>6 DEF Shape

(* A sequence of lines keeps its nodes when it loses its last one, or the  *)
(* last one's result.                                                      *)
LEMMA DamagedLines ==
  ASSUME NEW q \in Seq(Lines), q # <<>>, Distinct(q),
         NEW p, p = Front(q) \/ \E r \in Results : p = [q EXCEPT ![Len(q)].record.result = r]
  PROVE  p \in Seq(Lines) /\ Distinct(p)
<1>1. Len(q) \in Nat \ {0} /\ DOMAIN q = 1 .. Len(q)
  OBVIOUS
<1>2. CASE p = Front(q)
  <2>1. p \in Seq(Lines) /\ DOMAIN p = 1 .. Len(q) - 1 /\ \A k \in DOMAIN p : p[k] = q[k]
    BY <1>1, <1>2 DEF Front
  <2>2. \A k \in DOMAIN p : k \in DOMAIN q
    <3>1. \A k \in 1 .. Len(q) - 1 : k \in 1 .. Len(q)
      BY <1>1
    <3> QED
      BY <1>1, <2>1, <3>1, Zenon
  <2>3. \A j, k \in DOMAIN q : q[j].node = q[k].node => j = k
    BY DEF Distinct
  <2>4. \A j, k \in DOMAIN p : p[j].node = p[k].node => j = k
    BY <2>1, <2>2, <2>3
  <2> QED
    BY <2>1, <2>4 DEF Distinct
<1>3. ASSUME NEW r \in Results, p = [q EXCEPT ![Len(q)].record.result = r]
      PROVE  p \in Seq(Lines) /\ Distinct(p)
  <2> DEFINE last == [q[Len(q)] EXCEPT !.record.result = r]
  <2>1. p = [q EXCEPT ![Len(q)] = last]
    BY <1>1, <1>3
  <2>2. last \in Lines /\ last.node = q[Len(q)].node
    <3>1. q[Len(q)] \in Lines
      BY <1>1
    <3>2. [q[Len(q)].record EXCEPT !.result = r] \in Records
      BY <3>1 DEF Lines, Records
    <3>3. last = [q[Len(q)] EXCEPT !.record = [q[Len(q)].record EXCEPT !.result = r]]
      BY <3>1 DEF Lines
    <3> QED
      BY <3>1, <3>2, <3>3 DEF Lines
  <2> HIDE DEF last
  <2>3. p \in Seq(Lines) /\ DOMAIN p = DOMAIN q /\ \A k \in DOMAIN p : p[k].node = q[k].node
    BY <1>1, <2>1, <2>2
  <2> QED
    BY <2>3 DEF Distinct
<1> QED
  BY <1>2, <1>3

LEMMA DamageKeepsShape ==
  ASSUME Allowed, Shape, NEW t \in Stores, Damage(t)
  PROVE  Shape'
<1>1. spools[t] \in Seq(Lines) /\ spools[t] # <<>> /\ Distinct(spools[t])
  BY DEF Damage, Shape, TypeOK, NodesOnce
<1>2. PICK p : /\ spools' = [spools EXCEPT ![t] = p]
               /\ p = Front(spools[t]) \/ \E r \in Results : p = [spools[t] EXCEPT ![Len(spools[t])].record.result = r]
  <2>1. CASE spools' = [spools EXCEPT ![t] = Front(@)]
    BY <2>1
  <2>2. ASSUME NEW r \in Results, spools' = [spools EXCEPT ![t][Len(spools[t])].record.result = r]
        PROVE  spools' = [spools EXCEPT ![t] = [spools[t] EXCEPT ![Len(spools[t])].record.result = r]]
    BY <2>2
  <2> QED
    BY <2>1, <2>2 DEF Damage
<1>3. p \in Seq(Lines) /\ Distinct(p)
  BY <1>1, <1>2, DamagedLines
<1>4. TypeOK'
  BY <1>2, <1>3 DEF Damage, Shape, TypeOK
<1>5. NodesOnce'
  BY <1>2, <1>3 DEF Damage, Shape, TypeOK, NodesOnce
<1>6. PassesWhole'
  <2>1. Source' \in Stores /\ place' = 1 /\ Len(spools'[Source']) \in Nat
    <3>1. sources # <<>> /\ sources \in Seq(Stores)
      BY DEF Damage, Shape, SourcesFit, TypeOK
    <3>2. Source' \in Stores /\ place' = 1
      BY <3>1 DEF Damage, Source
    <3>3. spools' \in [Stores -> Seq(Lines)]
      BY <1>4 DEF TypeOK
    <3> QED
      BY <3>2, <3>3
  <2> QED
    BY <2>1 DEF Damage, PassesWhole, Line, Left
<1>7. SourcesFit' /\ ParentsFirst'
  BY DEF Damage, Shape, SourcesFit, ParentsFirst
<1> QED
  BY <1>4, <1>5, <1>6, <1>7 DEF Shape

LEMMA TailFacts ==
  ASSUME NEW S, NEW q \in Seq(S), Len(q) > 1
  PROVE  /\ Tail(q) \in Seq(S) /\ Len(Tail(q)) = Len(q) - 1 /\ Tail(q) # <<>>
         /\ \A i \in 1 .. Len(q) - 1 : Tail(q)[i] = q[i + 1]
<1>1. Len(q) \in Nat
  OBVIOUS
<1>2. Tail(q) \in Seq(S) /\ Len(Tail(q)) = Len(q) - 1
  BY <1>1
<1>3. \A i \in 1 .. Len(q) - 1 : Tail(q)[i] = q[i + 1]
  BY <1>1
<1>4. Tail(q) # <<>>
  <2>1. Len(Tail(q)) > 0
    BY <1>1, <1>2
  <2>2. \A p \in Seq(S) : Len(p) > 0 => p # <<>>
    OBVIOUS
  <2> QED
    BY <1>2, <2>1, <2>2
<1> QED
  BY <1>2, <1>3, <1>4

LEMMA PassKeepsShape ==
  ASSUME Allowed, Shape, ValidateAll \/ CheckNode \/ Checked \/ LookNode \/ SourceMerged
  PROVE  Shape'
<1>1. CASE ValidateAll
  <2>1. sources # <<>>
    BY <1>1 DEF ValidateAll, Shape, SourcesFit
  <2>2. TypeOK'
    BY <1>1, NodesCount DEF ValidateAll, Shape, TypeOK, Phases
  <2>3. Source \in Stores /\ spools[Source] \in Seq(Lines)
    BY <2>1 DEF Shape, TypeOK, Source
  <2>4. PassesWhole'
    BY <1>1, <2>3 DEF ValidateAll, Shape, PassesWhole, Source
  <2> QED
    BY <1>1, <2>2, <2>4 DEF ValidateAll, Shape, SourcesFit, NodesOnce, ParentsFirst
<1>2. CASE CheckNode
  <2>1. Source \in Stores /\ spools[Source] \in Seq(Lines) /\ Distinct(spools[Source])
    BY <1>2 DEF CheckNode, Shape, TypeOK, NodesOnce, SourcesFit, Source
  <2>2. Len(spools[Source]) \in Nat /\ Len(spools[Source]) <= Cardinality(Nodes)
    BY <2>1, DistinctShort
  <2>3. TypeOK'
    <3>1. place' \in 1 .. Cardinality(Nodes) + 1 /\ pc' = "check"
      BY <1>2, <2>2, NodesCount DEF CheckNode, Left, Shape, TypeOK
    <3> QED
      BY <1>2, <3>1 DEF CheckNode, Shape, TypeOK, Phases
  <2>4. PassesWhole'
    BY <1>2, <2>2 DEF CheckNode, Left, Fresh, Validated, Source, Shape, TypeOK, PassesWhole
  <2> QED
    BY <1>2, <2>3, <2>4 DEF CheckNode, Shape, SourcesFit, NodesOnce, ParentsFirst
<1>3. CASE Checked
  <2>1. Source \in Stores /\ spools[Source] \in Seq(Lines)
    BY <1>3 DEF Checked, Shape, TypeOK, SourcesFit, Source
  <2>2. TypeOK'
    BY <1>3, NodesCount DEF Checked, Shape, TypeOK, Phases
  <2>3. PassesWhole'
    BY <1>3, <2>1 DEF Checked, PassesWhole, Source
  <2> QED
    BY <1>3, <2>2, <2>3 DEF Checked, Shape, SourcesFit, NodesOnce, ParentsFirst
<1>4. CASE LookNode
  <2>1. Source \in Stores /\ spools[Source] \in Seq(Lines)
    BY <1>4 DEF LookNode, Shape, TypeOK, SourcesFit, Source
  <2>2. Line \in Lines
    BY <1>4, <2>1 DEF LookNode, Left, Line, Shape, TypeOK
  <2>3. TypeOK'
    <3>1. existing' \in Records \cup {Absent}
      BY <1>4, <2>2 DEF LookNode, Shape, TypeOK, Lines
    <3> QED
      BY <1>4, <3>1 DEF LookNode, Shape, TypeOK, Phases
  <2>4. PassesWhole'
    BY <1>4, <2>1 DEF LookNode, Left, Fresh, Validated, Source, Shape, TypeOK, PassesWhole
  <2> QED
    BY <1>4, <2>3, <2>4 DEF LookNode, Shape, SourcesFit, NodesOnce, ParentsFirst
<1>5. CASE SourceMerged
  <2>1. Len(sources) \in Nat /\ Len(sources) > 0 /\ sources \in Seq(Stores)
    BY <1>5 DEF SourceMerged, Shape, TypeOK, SourcesFit
  <2>2. CASE Len(sources) > 1
    <3> DEFINE rest == Tail(sources)
    <3>1. rest \in Seq(Stores) /\ Len(rest) = Len(sources) - 1 /\ rest # <<>>
      BY <2>1, <2>2, TailFacts
    <3>2. \A i \in 1 .. Len(sources) - 1 : rest[i] = sources[i + 1]
      BY <2>1, <2>2, TailFacts
    <3> HIDE DEF rest
    <3>3. TypeOK'
      <4>1. sources' = rest /\ place' = 1 /\ pc' = "check"
        BY <1>5, <2>2 DEF SourceMerged, rest
      <4>2. Len(sources) <= MaxSources
        BY DEF Shape, TypeOK
      <4>3. Len(rest) <= MaxSources
        BY <2>1, <3>1, <4>2 DEF Allowed
      <4> QED
        <5>1. sources' \in Seq(Stores) /\ Len(sources') <= MaxSources
          BY <3>1, <4>1, <4>3
        <5>2. place' \in 1 .. (IF pc' = "prepare" THEN Len(sources') ELSE Cardinality(Nodes) + 1)
          BY <4>1, NodesCount
        <5>3. pc' \in Phases /\ UNCHANGED existing
          BY <1>5, <2>2, <4>1 DEF SourceMerged, Phases
        <5> QED
          BY <1>5, <5>1, <5>2, <5>3 DEF SourceMerged, Shape, TypeOK
    <3>4. SourcesFit'
      <4>1. sources' = rest /\ pc' = "check"
        BY <1>5, <2>2 DEF SourceMerged, rest
      <4>2. \A i, j \in DOMAIN rest : rest[i] = rest[j] => i = j
        <5>1. DOMAIN rest = 1 .. Len(sources) - 1 /\ DOMAIN sources = 1 .. Len(sources)
          BY <2>1, <3>1
        <5>2. \A i, j \in 1 .. Len(sources) - 1 :
                i + 1 \in 1 .. Len(sources) /\ j + 1 \in 1 .. Len(sources) /\ (i + 1 = j + 1 => i = j)
          BY <2>1
        <5>3. \A i, j \in DOMAIN sources : sources[i] = sources[j] => i = j
          BY DEF Shape, SourcesFit
        <5> QED
          BY <3>2, <5>1, <5>2, <5>3
      <4> QED
        BY <3>1, <4>1, <4>2 DEF SourcesFit
    <3>5. Source' \in Stores /\ Len(spools'[Source']) \in Nat
      <4>1. sources' \in Seq(Stores) /\ sources' # <<>>
        BY <3>3, <3>4, <1>5, <2>2 DEF SourceMerged, TypeOK, SourcesFit
      <4>2. Source' \in Stores
        BY <4>1 DEF Source
      <4> QED
        BY <3>3, <4>2 DEF TypeOK
    <3>6. PassesWhole'
      BY <1>5, <2>2, <3>5 DEF SourceMerged, PassesWhole
    <3> QED
      BY <1>5, <2>2, <3>3, <3>4, <3>6 DEF SourceMerged, Shape, NodesOnce, ParentsFirst
  <2>3. CASE ~(Len(sources) > 1)
    <3>1. TypeOK'
      BY <1>5, <2>3 DEF SourceMerged, Shape, TypeOK, Phases
    <3>2. Validated(Source) /\ ~Left /\ Len(sources) = 1
      <4>1. Len(sources) = 1
        <5>1. \A n \in Nat : n > 0 /\ ~(n > 1) => n = 1
          OBVIOUS
        <5>2. Len(sources) \in Nat /\ Len(sources) > 0
          BY <2>1
        <5> QED
          BY <2>3, <5>1, <5>2
      <4>2. place = 1 \/ place > 1
        BY DEF Shape, TypeOK
      <4> QED
        BY <1>5, <4>1, <4>2 DEF SourceMerged, Shape, PassesWhole, Fresh
    <3>3. PassesWhole'
      BY <1>5, <2>3, <3>2 DEF SourceMerged, PassesWhole, Left, Validated, Source
    <3> QED
      BY <1>5, <2>3, <3>1, <3>3 DEF SourceMerged, Shape, SourcesFit, NodesOnce, ParentsFirst
  <2> QED
    BY <2>2, <2>3
<1> QED
  BY <1>1, <1>2, <1>3, <1>4, <1>5

(* What a write makes of the destination: everywhere else nothing changes. *)
Put == PutAs(store[into][Line.node], Line.record)
Unchangeable == Merged(existing, Line.record) = existing
Update == Patched(store[into][Line.node], Merged(existing, Line.record))

LEMMA DigestLines ==
  ASSUME Shape, NEW s \in Stores, NEW k \in DOMAIN digests[s]
  PROVE  k \in Nat /\ k >= 1 /\ digests[s][k].node \in Nodes /\ digests[s][k].record \in Records
<1>1. digests[s] \in Seq(Lines)
  BY DEF Shape, TypeOK
<1>2. k \in Nat /\ k >= 1 /\ digests[s][k] \in Lines
  BY <1>1
<1> QED
  BY <1>2 DEF Lines

LEMMA LineFits ==
  ASSUME Shape, pc = "write"
  PROVE  /\ Source \in Stores /\ Len(spools[Source]) \in Nat /\ DOMAIN spools[Source] = 1 .. Len(spools[Source])
         /\ place \in DOMAIN spools[Source]
         /\ Line \in Lines /\ Line.node \in Nodes /\ Line.record \in Records
<1>1. sources # <<>> /\ sources \in Seq(Stores)
  BY DEF Shape, TypeOK, SourcesFit
<1>2. Source \in Stores /\ spools[Source] \in Seq(Lines)
  BY <1>1 DEF Shape, TypeOK, Source
<1>3. place \in DOMAIN spools[Source]
  BY <1>2 DEF Shape, TypeOK, PassesWhole, Left
<1>4. Line \in Lines
  BY <1>2, <1>3 DEF Line
<1> QED
  BY <1>2, <1>3, <1>4 DEF Lines

LEMMA WriteFits ==
  ASSUME Allowed, Inv, WriteNode
  PROVE  /\ Source \in Stores /\ Len(spools[Source]) \in Nat /\ DOMAIN spools[Source] = 1 .. Len(spools[Source])
         /\ Line \in Lines /\ Line.node \in Nodes /\ Line.record \in Records /\ place \in DOMAIN spools[Source]
         /\ Put \in Records
         /\ existing # Absent => existing \in Records /\ Merged(existing, Line.record) \in Records
                                 /\ store[into][Line.node] \in Records /\ Update \in Records
<1>3. /\ Source \in Stores /\ Len(spools[Source]) \in Nat /\ DOMAIN spools[Source] = 1 .. Len(spools[Source])
      /\ Line \in Lines /\ Line.node \in Nodes /\ Line.record \in Records /\ place \in DOMAIN spools[Source]
  BY LineFits DEF WriteNode, Inv
<1>4. store[into][Line.node] \in Records \cup {Absent} /\ existing \in Records \cup {Absent}
  BY <1>3 DEF Inv, Shape, TypeOK
<1>5. Put \in Records
  BY <1>3, <1>4, PutFits DEF Put
<1>6. ASSUME existing # Absent PROVE store[into][Line.node] \in Records
  BY <1>4, <1>6 DEF WriteNode, Inv, ReadStands
<1>7. ASSUME existing # Absent
      PROVE  existing \in Records /\ Merged(existing, Line.record) \in Records /\ Update \in Records
  BY <1>3, <1>4, <1>6, <1>7, MergedFits, PatchedFits DEF Update
<1> QED
  BY <1>3, <1>5, <1>6, <1>7

LEMMA WriteDone ==
  ASSUME Allowed, Inv, WriteNode
  PROVE  /\ store' \in [Stores -> [Nodes -> Records \cup {Absent}]]
         /\ \A s \in Stores, n \in Nodes : s # into \/ n # Line.node => store'[s][n] = store[s][n]
         /\ store'[into][Line.node] =
              IF existing = Absent THEN Put
              ELSE IF Unchangeable THEN store[into][Line.node] ELSE Update
<1>1. into \in Stores /\ store \in [Stores -> [Nodes -> Records \cup {Absent}]]
  BY DEF Inv, Shape, TypeOK
<1>2. CASE existing = Absent
  <2>1. store' = [store EXCEPT ![into][Line.node] = Put]
    BY <1>2 DEF WriteNode, Put
  <2> QED
    BY <1>1, <1>2, <2>1, WriteFits
<1>3. CASE existing # Absent /\ Unchangeable
  <2>1. store' = store
    BY <1>3 DEF WriteNode, Unchangeable
  <2> QED
    BY <1>1, <1>3, <2>1
<1>4. CASE existing # Absent /\ ~Unchangeable
  <2>1. store' = [store EXCEPT ![into][Line.node] = Update]
    BY <1>4 DEF WriteNode, Unchangeable, Update
  <2> QED
    BY <1>1, <1>4, <2>1, WriteFits
<1> QED
  BY <1>2, <1>3, <1>4

LEMMA WriteKeepsShape == ASSUME Allowed, Inv, WriteNode PROVE Shape'
<1>1. Len(spools[Source]) <= Cardinality(Nodes)
  BY WriteFits, DistinctShort DEF Inv, Shape, TypeOK, NodesOnce
<1>2. TypeOK'
  <2>1. store' \in [Stores -> [Nodes -> Records \cup {Absent}]]
    BY WriteDone
  <2>2. place' \in 1 .. Cardinality(Nodes) + 1
    BY <1>1, WriteFits, NodesCount DEF WriteNode
  <2>3. pc' = "look" /\ UNCHANGED <<into, replay, sources, spools, digests, todo, existing, records, merges>>
    BY DEF WriteNode
  <2> QED
    BY <2>1, <2>2, <2>3 DEF Inv, Shape, TypeOK, Phases
<1>3. PassesWhole'
  BY WriteFits DEF WriteNode, Inv, Shape, TypeOK, PassesWhole, Source, Left, Validated
<1> QED
  BY <1>2, <1>3 DEF WriteNode, Inv, Shape, SourcesFit, NodesOnce, ParentsFirst

LEMMA ShapeStep == ASSUME Allowed, Inv, [Next]_vars PROVE Shape'
<1>1. Shape
  BY DEF Inv
<1>2. ASSUME NEW s \in Stores, NEW n \in Nodes, NEW r \in Results \cup {None},
             NEW v \in Values \cup {None}, Record(s, n, r, v)
      PROVE  Shape'
  BY <1>1, <1>2, RecordKeepsShape
<1>3. ASSUME NEW d \in Stores, NEW r \in BOOLEAN, NEW ss \in Orders(d), Start(d, ss, r)
      PROVE  Shape'
  BY <1>1, <1>3, StartKeepsShape
<1>4. ASSUME NEW n \in Nodes, PrepareNode(n) PROVE Shape'
  BY <1>1, <1>4, PrepareKeepsShape
<1>5. CASE Finalize
  BY <1>1, <1>5, FinalizeKeepsShape
<1>6. CASE ValidateAll \/ CheckNode \/ Checked \/ LookNode \/ SourceMerged
  BY <1>1, <1>6, PassKeepsShape
<1>7. CASE WriteNode
  BY <1>7, WriteKeepsShape
<1>8. CASE Fail \/ Crash \/ Finish
  BY <1>1, <1>8, AbandonKeepsShape DEF Fail, Crash, Finish
<1>9. ASSUME NEW s \in Stores, Damage(s) PROVE Shape'
  BY <1>1, <1>9, DamageKeepsShape
<1>10. CASE UNCHANGED vars
  <2>1. TypeOK' /\ SourcesFit'
    BY <1>1, <1>10 DEF vars, merging, Shape, TypeOK, SourcesFit
  <2>2. NodesOnce' /\ ParentsFirst'
    BY <1>1, <1>10 DEF vars, merging, Shape, NodesOnce, ParentsFirst, Visited, Stored
  <2>3. PassesWhole'
    BY <1>1, <1>10 DEF vars, merging, Shape, PassesWhole, Source, Left, Validated
  <2> QED
    BY <2>1, <2>2, <2>3 DEF Shape
<1> QED
  BY <1>2, <1>3, <1>4, <1>5, <1>6, <1>7, <1>8, <1>9, <1>10 DEF Next

-----------------------------------------------------------------------------
(* Results arrive.                                                         *)

(* Until the spools are validated nothing has been applied.                *)
LEMMA EarlyArrived ==
  ASSUME Shape, pc \in {"idle", "prepare", "validate"}
  PROVE  AppliedArrived /\ ReadStands
<1>1. ASSUME NEW s \in Stores, NEW k \in DOMAIN digests[s] PROVE ~Applied(s, k)
  BY <1>1 DEF Shape, SourcesFit, Applied
<1> QED
  BY <1>1 DEF AppliedArrived, ReadStands

LEMMA PutKeepsResults ==
  ASSUME Allowed, NEW old \in Records \cup {Absent}, NEW new \in Records
  PROVE  /\ PutAs(old, new) # Absent
         /\ old # Absent => /\ PutAs(old, new).result = old.result
                            /\ old.rivals \subseteq PutAs(old, new).rivals
                            /\ PutAs(old, new).value = old.value /\ PutAs(old, new).clashes = old.clashes
         /\ Arrived(PutAs(old, new), new)
         /\ \A record \in Records : Arrived(old, record) => Arrived(PutAs(old, new), record)
<1>1. PutAs(old, new) \in Records
  BY PutFits
<1>2. CASE old = Absent
  BY <1>1, <1>2 DEF PutAs, Allowed, Arrived, KnownResults
<1>3. CASE old # Absent
  <2>1. PutAs(old, new) = [old EXCEPT !.rivals = old.rivals \cup ({new.result} \ {None, old.result})]
    BY <1>3 DEF PutAs
  <2>2. /\ PutAs(old, new).result = old.result
        /\ PutAs(old, new).rivals = old.rivals \cup ({new.result} \ {None, old.result})
        /\ PutAs(old, new).value = old.value /\ PutAs(old, new).clashes = old.clashes
    BY <1>3, <2>1 DEF Records
  <2> QED
    BY <1>1, <1>3, <2>2 DEF Allowed, Arrived, KnownResults
<1> QED
  BY <1>2, <1>3

(* A patch written on what was read, or on what runs made of it since,     *)
(* keeps the results that had been read, and adds the line's.              *)
LEMMA PatchKeepsResults ==
  ASSUME Allowed, NEW read \in Records, NEW now \in Records, NEW line \in Records,
         now.result = read.result, read.rivals \subseteq now.rivals,
         NEW new, new = Patched(now, Merged(read, line)) \/ (Merged(read, line) = read /\ new = now)
  PROVE  /\ new # Absent /\ new.result = now.result
         /\ Arrived(new, line)
         /\ \A record \in Records : Arrived(read, record) => Arrived(new, record)
<1>1. /\ Merged(read, line).result = read.result
      /\ Merged(read, line).rivals =
           read.rivals \cup line.rivals \cup (IF ResultConflict(read, line) THEN {line.result} ELSE {})
  BY DEF Merged
<1>2. new \in Records /\ new.result = now.result
  BY MergedFits, PatchedFits DEF Patched
<1>3. read.rivals \subseteq new.rivals
  BY <1>1 DEF Patched
<1>4. ResultConflict(read, line) => line.result \in new.rivals
  BY <1>1 DEF Patched
<1> QED
  BY <1>2, <1>3, <1>4 DEF Allowed, Arrived, KnownResults, ResultConflict

LEMMA RecordKeepsArrived ==
  ASSUME Allowed, Inv, Shape', NEW t \in Stores, NEW m \in Nodes,
         NEW r \in Results \cup {None}, NEW v \in Values \cup {None}, Record(t, m, r, v)
  PROVE  AppliedArrived' /\ ReadStands'
<1> DEFINE new == [result |-> r, rivals |-> {}, value |-> v, clashes |-> {}]
<1>1. new \in Records
  BY DEF Records
<1>2. store \in [Stores -> [Nodes -> Records \cup {Absent}]] /\ into \in Stores
  BY DEF Inv, Shape, TypeOK
<1>3. \A s \in Stores, n \in Nodes : store'[s][n] = store[s][n] \/ store'[s][n] = PutAs(store[s][n], new)
  BY <1>2 DEF Record
<1> HIDE DEF new
<1>4. \A s \in Stores : \A k \in DOMAIN digests[s] :
        digests[s][k].node \in Nodes /\ digests[s][k].record \in Records
  BY DigestLines DEF Inv
<1>5. UNCHANGED <<merging, merges>> /\ \A s, k : Applied(s, k)' <=> Applied(s, k)
  BY DEF Record, merging, Applied, Source
<1>6. AppliedArrived'
  <2> SUFFICES ASSUME NEW s \in Stores, NEW k \in DOMAIN digests[s], Applied(s, k)
               PROVE  Arrived(store'[into][digests[s][k].node], digests[s][k].record)
    BY <1>5 DEF AppliedArrived, merging
  <2>1. Arrived(store[into][digests[s][k].node], digests[s][k].record)
    BY DEF Inv, AppliedArrived
  <2>2. digests[s][k].node \in Nodes /\ digests[s][k].record \in Records
    BY <1>4
  <2>3. store[into][digests[s][k].node] \in Records \cup {Absent}
    BY <1>2, <2>2
  <2>4. Arrived(PutAs(store[into][digests[s][k].node], new), digests[s][k].record)
    BY <1>1, <2>1, <2>2, <2>3, PutKeepsResults
  <2> QED
    BY <1>2, <1>3, <2>1, <2>2, <2>4
<1>7. ReadStands'
  <2> SUFFICES ASSUME pc = "write" PROVE ReadStands'
    BY <1>5 DEF ReadStands, merging
  <2>1. Line.node \in Nodes /\ Line' = Line
    BY <1>5, LineFits DEF Line, Source, merging, Inv
  <2>2. existing # Absent =>
          /\ store[into][Line.node] # Absent /\ store[into][Line.node].result = existing.result
          /\ existing.rivals \subseteq store[into][Line.node].rivals
    BY DEF Inv, ReadStands
  <2>3. existing # Absent =>
          /\ store'[into][Line.node] # Absent /\ store'[into][Line.node].result = existing.result
          /\ existing.rivals \subseteq store'[into][Line.node].rivals
    <3>1. store[into][Line.node] \in Records \cup {Absent}
      BY <1>2, <2>1
    <3>2. CASE store'[into][Line.node] = store[into][Line.node]
      BY <2>2, <3>2
    <3>3. CASE store'[into][Line.node] = PutAs(store[into][Line.node], new)
      <4>1. store[into][Line.node] # Absent =>
              /\ store'[into][Line.node] # Absent
              /\ store'[into][Line.node].result = store[into][Line.node].result
              /\ store[into][Line.node].rivals \subseteq store'[into][Line.node].rivals
        BY <1>1, <3>1, <3>3, PutKeepsResults
      <4> QED
        BY <2>2, <4>1
    <3> QED
      BY <1>2, <1>3, <2>1, <3>2, <3>3
  <2> QED
    BY <1>5, <2>1, <2>3 DEF Inv, ReadStands, merging
<1> QED
  BY <1>6, <1>7

LEMMA PassKeepsArrived ==
  ASSUME Allowed, Inv, Shape', ValidateAll \/ CheckNode \/ Checked \/ LookNode
  PROVE  AppliedArrived' /\ ReadStands'
<1>1. \A s \in Stores : \A k \in DOMAIN digests[s] : k \in Nat /\ k >= 1
  BY DigestLines DEF Inv
<1>2. store' = store /\ into' = into /\ digests' = digests /\ spools' = spools /\ sources' = sources
  BY DEF ValidateAll, CheckNode, Checked, LookNode
<1>3. \A s \in Stores : \A k \in DOMAIN digests[s] : Applied(s, k)' => Applied(s, k)
  <2>1. CASE ValidateAll \/ CheckNode
    BY <1>2, <2>1 DEF ValidateAll, CheckNode, Applied, Source
  <2>2. CASE Checked
    BY <1>1, <1>2, <2>2 DEF Checked, Applied, Source
  <2>3. CASE LookNode
    BY <1>2, <2>3 DEF LookNode, Applied, Source
  <2> QED
    BY <2>1, <2>2, <2>3
<1>4. AppliedArrived'
  BY <1>2, <1>3 DEF Inv, AppliedArrived
<1>5. CASE LookNode
  <2>1. Line' = Line /\ place' = place /\ existing' = store[into][Line.node]
    BY <1>2, <1>5 DEF LookNode, Line, Source
  <2> QED
    BY <1>2, <1>3, <1>4, <2>1 DEF AppliedArrived, ReadStands
<1>6. CASE ValidateAll \/ CheckNode \/ Checked
  <2>1. pc' # "write"
    BY <1>6 DEF ValidateAll, CheckNode, Checked
  <2> QED
    BY <1>4, <2>1 DEF ReadStands
<1> QED
  BY <1>4, <1>5, <1>6

LEMMA DamageKeepsArrived ==
  ASSUME Allowed, Inv, NEW t \in Stores, Damage(t)
  PROVE  AppliedArrived' /\ ReadStands'
<1>1. \A s, k : Applied(s, k)' <=> Applied(s, k)
  BY DEF Damage, Applied, Source
<1> QED
  BY <1>1 DEF Damage, Inv, AppliedArrived, ReadStands

LEMMA WriteKeepsArrived ==
  ASSUME Allowed, Inv, WriteNode
  PROVE  /\ Arrived(store'[into][Line.node], Line.record)
         /\ AppliedArrived' /\ ReadStands'
<1> DEFINE now == store[into][Line.node]
           later == store'[into][Line.node]
<1>1. now \in Records \cup {Absent} /\ into \in Stores
  BY WriteFits DEF Inv, Shape, TypeOK
<1>2. /\ Arrived(later, Line.record)
      /\ \A record \in Records :
           Arrived(IF existing = Absent THEN now ELSE existing, record) => Arrived(later, record)
  <2>1. CASE existing = Absent
    <3>1. later = PutAs(now, Line.record)
      BY <2>1, WriteDone DEF Put
    <3> QED
      BY <1>1, <2>1, <3>1, WriteFits, PutKeepsResults
  <2>2. CASE existing # Absent
    <3>1. now.result = existing.result /\ existing.rivals \subseteq now.rivals
      BY <2>2 DEF WriteNode, Inv, ReadStands
    <3>2. later = Patched(now, Merged(existing, Line.record))
            \/ (Merged(existing, Line.record) = existing /\ later = now)
      BY <2>2, WriteDone DEF Update, Unchangeable
    <3>3. existing \in Records /\ now \in Records /\ Line.record \in Records
      BY <2>2, WriteFits
    <3> HIDE DEF now, later
    <3> QED
      BY <2>2, <3>1, <3>2, <3>3, PatchKeepsResults
  <2> QED
    BY <2>1, <2>2
<1>3. UNCHANGED <<into, sources, spools, digests>> /\ pc' = "look" /\ place' = place + 1 /\ pc = "write"
  BY DEF WriteNode
<1>4. AppliedArrived'
  <2> SUFFICES ASSUME NEW s \in Stores, NEW k \in DOMAIN digests[s], Applied(s, k)'
               PROVE  Arrived(store'[into][digests[s][k].node], digests[s][k].record)
    BY <1>3 DEF AppliedArrived
  <2>1. k \in Nat /\ place \in Nat /\ digests[s][k].node \in Nodes /\ digests[s][k].record \in Records
    BY <1>3, DigestLines, LineFits DEF Inv
  <2>2. Applied(s, k) \/ (s = Source /\ k = place)
    BY <1>3, <2>1 DEF Applied, Source
  <2>3. CASE s = Source /\ k = place
    <3>1. digests[s][k] = Line
      BY <1>3, <2>3 DEF Inv, Shape, PassesWhole, Validated, Line
    <3> QED
      BY <1>2, <3>1
  <2>4. CASE Applied(s, k) /\ digests[s][k].node # Line.node
    BY <1>1, <2>1, <2>4, WriteDone DEF Inv, AppliedArrived
  <2>5. CASE Applied(s, k) /\ digests[s][k].node = Line.node
    <3>1. Arrived(now, digests[s][k].record)
      BY <2>5 DEF Inv, AppliedArrived
    <3>2. Arrived(existing, digests[s][k].record)
      BY <1>3, <2>5 DEF Inv, ReadStands
    <3> QED
      BY <1>2, <2>1, <2>5, <3>1, <3>2
  <2> QED
    BY <2>2, <2>3, <2>4, <2>5
<1> QED
  BY <1>2, <1>3, <1>4 DEF ReadStands

(* When the pass over a source ends, all of its lines are applied.         *)
LEMMA MergedApplied ==
  ASSUME Allowed, Inv, SourceMerged, NEW s \in Stores, NEW k \in DOMAIN digests[s], Applied(s, k)'
  PROVE  Applied(s, k)
<1>1. /\ Len(sources) \in Nat /\ sources \in Seq(Stores) /\ sources # <<>>
      /\ DOMAIN sources = 1 .. Len(sources)
  BY DEF SourceMerged, Inv, Shape, TypeOK, SourcesFit
<1>2. Validated(Source) /\ ~Left /\ pc = "look"
  <2>1. place = 1 \/ place > 1
    BY DEF Inv, Shape, TypeOK
  <2> QED
    BY <2>1 DEF SourceMerged, Inv, Shape, PassesWhole, Fresh
<1>3. s = Source => k < place
  BY <1>2 DEF Validated, Left, Inv, Shape, TypeOK
<1>4. CASE Len(sources) > 1
  <2>1. sources' = Tail(sources) /\ pc' = "check"
    BY <1>4 DEF SourceMerged
  <2>2. s \notin ToSet(Tail(sources))
    BY <2>1 DEF Applied
  <2>3. \A i \in 1 .. Len(sources) - 1 : Tail(sources)[i] = sources[i + 1]
    BY <1>1, <1>4, TailFacts
  <2>4. DOMAIN Tail(sources) = 1 .. Len(sources) - 1
    BY <1>1, <1>4, TailFacts
  <2>5. s \notin ToSet(sources) \/ s = sources[1]
    <3> SUFFICES ASSUME NEW j \in 2 .. Len(sources), s = sources[j] PROVE FALSE
      BY <1>1 DEF ToSet
    <3>1. j - 1 \in 1 .. Len(sources) - 1 /\ (j - 1) + 1 = j
      BY <1>1
    <3>2. Tail(sources)[j - 1] = s
      BY <2>3, <3>1
    <3> QED
      BY <2>2, <2>4, <3>1, <3>2 DEF ToSet
  <2>6. Source = sources[1]
    BY <1>1 DEF Source
  <2> QED
    BY <1>2, <1>3, <2>5, <2>6 DEF Applied
<1>5. CASE ~(Len(sources) > 1)
  <2>1. sources' = sources
    BY <1>5 DEF SourceMerged
  <2> QED
    BY <1>2, <1>3, <2>1 DEF Applied, Source
<1> QED
  BY <1>4, <1>5

LEMMA SourceMergedKeepsArrived ==
  ASSUME Allowed, Inv, SourceMerged
  PROVE  AppliedArrived' /\ ReadStands'
<1>1. store' = store /\ into' = into /\ digests' = digests /\ pc' # "write"
  BY DEF SourceMerged
<1>2. AppliedArrived'
  BY <1>1, MergedApplied DEF Inv, AppliedArrived
<1> QED
  BY <1>1, <1>2 DEF ReadStands

LEMMA InvInit == Allowed /\ Init => Inv
<1>1. Init => pc = "idle"
  BY DEF Init
<1> QED
  BY <1>1, ShapeInit, EarlyArrived DEF Inv

LEMMA InvStep == ASSUME Allowed, Inv, [Next]_vars PROVE Inv'
<1>1. Shape'
  BY ShapeStep
<1>2. CASE pc' \in {"idle", "prepare", "validate"}
  <2>1. (Shape /\ pc \in {"idle", "prepare", "validate"} => AppliedArrived /\ ReadStands)'
    BY EarlyArrived, PTL
  <2> QED
    BY <1>1, <1>2, <2>1 DEF Inv
<1>3. ASSUME NEW s \in Stores, NEW n \in Nodes, NEW r \in Results \cup {None},
             NEW v \in Values \cup {None}, Record(s, n, r, v)
      PROVE  Inv'
  BY <1>1, <1>3, RecordKeepsArrived DEF Inv
<1>4. CASE ValidateAll \/ CheckNode \/ Checked \/ LookNode
  BY <1>1, <1>4, PassKeepsArrived DEF Inv
<1>5. CASE WriteNode
  BY <1>1, <1>5, WriteKeepsArrived DEF Inv
<1>6. CASE SourceMerged
  BY <1>1, <1>6, SourceMergedKeepsArrived DEF Inv
<1>7. ASSUME NEW s \in Stores, Damage(s) PROVE Inv'
  BY <1>1, <1>7, DamageKeepsArrived DEF Inv
<1>8. CASE UNCHANGED vars
  BY <1>1, <1>8 DEF vars, merging, Inv, AppliedArrived, ReadStands, Applied, Source, Line
<1>9. CASE \/ \E d \in Stores, r \in BOOLEAN : \E ss \in Orders(d) : Start(d, ss, r)
           \/ \E n \in Nodes : PrepareNode(n)
           \/ Finalize \/ Fail \/ Crash \/ Finish
  <2>1. pc' \in {"idle", "prepare", "validate"}
    BY <1>9 DEF Start, PrepareNode, Finalize, Fail, Crash, Finish, Abandon
  <2> QED
    BY <1>2, <2>1
<1> QED
  BY <1>3, <1>4, <1>5, <1>6, <1>7, <1>8, <1>9 DEF Next

LEMMA Inductive == ASSUME Allowed PROVE Spec => []Inv
<1>1. Init => Inv
  BY InvInit
<1>2. Inv /\ [Next]_vars => Inv'
  BY InvStep
<1> QED
  BY <1>1, <1>2, PTL DEF Spec

(* When the merge is done, every line of every source has been applied.    *)
LEMMA DoneApplied ==
  ASSUME Shape, pc = "done", NEW s \in Stores, NEW k \in DOMAIN digests[s]
  PROVE  Applied(s, k)
<1>1. sources \in Seq(Stores) /\ Len(sources) = 1 /\ Validated(Source) /\ ~Left
  BY DEF Shape, TypeOK, PassesWhole
<1>2. ToSet(sources) = {Source}
  BY <1>1 DEF ToSet, Source
<1>3. CASE s = Source
  <2>1. spools[s] \in Seq(Lines) /\ place \in Nat /\ DOMAIN digests[s] = 1 .. Len(spools[s])
    BY <1>1, <1>3 DEF Shape, TypeOK, Validated
  <2>2. k < place
    BY <1>1, <1>3, <2>1 DEF Left
  <2> QED
    BY <1>3, <2>2 DEF Applied
<1> QED
  BY <1>2, <1>3 DEF Applied

(* The types (union_stores, TransferSpool).                                *)
THEOREM MergeTypes == ASSUME Allowed PROVE Spec => []TypeOK
<1>1. Inv => TypeOK
  BY DEF Inv, Shape
<1> QED
  BY <1>1, Inductive, PTL

(* The sources' results are in the destination of a merge that is done,    *)
(* also when runs wrote to it meanwhile (_merge_source).                   *)
THEOREM ResultsReachDestination == ASSUME Allowed PROVE Spec => []ResultsArrive
<1>1. Inv => ResultsArrive
  BY DoneApplied DEF Inv, AppliedArrived, Arrived, ResultsArrive, Stored
<1> QED
  BY <1>1, Inductive, PTL

LEMMA WriteKeepsResult ==
  ASSUME Allowed, Inv, WriteNode, Stored(into, Line.node)
  PROVE  /\ store'[into][Line.node] # Absent
         /\ store'[into][Line.node].result = store[into][Line.node].result
<1> DEFINE now == store[into][Line.node]
<1>1. now \in Records
  BY WriteFits DEF Stored, Inv, Shape, TypeOK
<1>2. CASE existing = Absent
  BY <1>1, <1>2, WriteFits, WriteDone, PutKeepsResults DEF Put, Allowed
<1>3. CASE existing # Absent
  BY <1>1, <1>3, WriteFits, WriteDone DEF Update, Patched, Allowed
<1> QED
  BY <1>2, <1>3

LEMMA StoreUntouched ==
  ASSUME \/ \E d \in Stores, r \in BOOLEAN : \E ss \in Orders(d) : Start(d, ss, r)
         \/ \E n \in Nodes : PrepareNode(n)
         \/ Finalize \/ ValidateAll \/ CheckNode \/ Checked \/ LookNode \/ SourceMerged
         \/ Fail \/ Crash \/ Finish
         \/ \E s \in Stores : Damage(s)
  PROVE  store' = store
BY DEF Start, PrepareNode, Finalize, ValidateAll, CheckNode, Checked, LookNode, SourceMerged,
       Fail, Crash, Finish, Abandon, Damage

LEMMA RecordPuts ==
  ASSUME Inv, NEW t \in Stores, NEW m \in Nodes,
         NEW r \in Results \cup {None}, NEW v \in Values \cup {None}, Record(t, m, r, v)
  PROVE  \E new \in Records : \A s \in Stores, n \in Nodes :
           store'[s][n] = store[s][n] \/ store'[s][n] = PutAs(store[s][n], new)
<1> DEFINE new == [result |-> r, rivals |-> {}, value |-> v, clashes |-> {}]
<1>1. new \in Records
  BY DEF Records
<1>2. \A s \in Stores, n \in Nodes : store'[s][n] = store[s][n] \/ store'[s][n] = PutAs(store[s][n], new)
  BY DEF Record, Inv, Shape, TypeOK
<1> QED
  BY <1>1, <1>2

(* No step of anyone loses a node or changes its result (put,              *)
(* update_meta).                                                           *)
THEOREM FirstResultsStand == ASSUME Allowed PROVE Spec => [][FirstResultStays]_vars
<1>1. Inv /\ [Next]_vars => [FirstResultStays]_vars
  <2> SUFFICES ASSUME Inv, Next, NEW s \in Stores, NEW n \in Nodes, Stored(s, n)
               PROVE  store'[s][n] # Absent /\ store'[s][n].result = store[s][n].result
    BY DEF FirstResultStays
  <2>1. store[s][n] \in Records
    BY DEF Stored, Inv, Shape, TypeOK
  <2>2. ASSUME NEW t \in Stores, NEW m \in Nodes, NEW r \in Results \cup {None},
               NEW v \in Values \cup {None}, Record(t, m, r, v)
        PROVE  store'[s][n] # Absent /\ store'[s][n].result = store[s][n].result
    BY <2>1, <2>2, RecordPuts, PutKeepsResults DEF Stored
  <2>3. CASE WriteNode
    BY <2>1, <2>3, WriteDone, WriteKeepsResult DEF Stored
  <2>4. CASE store' = store
    BY <2>4 DEF Stored
  <2> QED
    BY <2>2, <2>3, <2>4, StoreUntouched DEF Next
<1> QED
  BY <1>1, Inductive, PTL DEF Spec

-----------------------------------------------------------------------------
(* Where nobody else writes to the destination.                            *)

LEMMA AbsorbedMeans ==
  ASSUME NEW here \in Records, NEW record \in Records
  PROVE  Merged(here, record) = here <=>
           /\ record.rivals \subseteq here.rivals
           /\ record.result \in {None, here.result} \cup here.rivals
           /\ here.value = None => record.value = None
           /\ record.clashes \subseteq here.clashes
           /\ Disagreement(here, record) \subseteq here.clashes
<1>1. here = [result |-> here.result, rivals |-> here.rivals, value |-> here.value, clashes |-> here.clashes]
  BY DEF Records
<1>2. Merged(here, record) = here <=>
        /\ here.rivals \cup record.rivals \cup (IF ResultConflict(here, record) THEN {record.result} ELSE {})
             = here.rivals
        /\ (IF here.value = None THEN record.value ELSE here.value) = here.value
        /\ Clashes(here, record) = here.clashes
  BY <1>1 DEF Merged
<1>3. here.rivals \cup record.rivals \cup (IF ResultConflict(here, record) THEN {record.result} ELSE {})
        = here.rivals
      <=> record.rivals \subseteq here.rivals /\ record.result \in {None, here.result} \cup here.rivals
  BY DEF ResultConflict
<1>4. (IF here.value = None THEN record.value ELSE here.value) = here.value
      <=> (here.value = None => record.value = None)
  OBVIOUS
<1>5. Clashes(here, record) = here.clashes
      <=> record.clashes \subseteq here.clashes /\ Disagreement(here, record) \subseteq here.clashes
  BY DEF Clashes
<1> QED
  BY <1>2, <1>3, <1>4, <1>5

(* What is written on what was read is the merge of the two: it has the    *)
(* line, keeps what was in, and what is in would change nothing.           *)
LEMMA PatchIsMerge ==
  ASSUME NEW now \in Records, NEW line \in Records
  PROVE  Patched(now, Merged(now, line)) = Merged(now, line)
<1>1. /\ now.rivals \subseteq Merged(now, line).rivals
      /\ now.clashes \subseteq Merged(now, line).clashes
      /\ Merged(now, line).result = now.result
      /\ Merged(now, line).value = None => now.value = None
  BY DEF Merged, Clashes
<1>2. Merged(now, line) = [result |-> Merged(now, line).result, rivals |-> Merged(now, line).rivals,
                           value |-> Merged(now, line).value, clashes |-> Merged(now, line).clashes]
  BY DEF Merged
<1> DEFINE patch == Merged(now, line)
<1> HIDE DEF patch
<1>3. /\ (IF patch.rivals = {} THEN now.rivals ELSE patch.rivals) = patch.rivals
      /\ (IF patch.value = None THEN now.value ELSE patch.value) = patch.value
      /\ (IF patch.clashes = {} THEN now.clashes ELSE patch.clashes) = patch.clashes
  BY <1>1 DEF patch
<1> QED
  BY <1>1, <1>2, <1>3 DEF patch, Patched

LEMMA MergeAbsorbs ==
  ASSUME NEW now \in Records, NEW line \in Records
  PROVE  /\ Merged(Merged(now, line), line) = Merged(now, line)
         /\ Merged(line, line) = line
         /\ \A record \in Records :
              Merged(now, record) = now => Merged(Merged(now, line), record) = Merged(now, line)
<1> DEFINE new == Merged(now, line)
<1>1. new \in Records
  BY MergedFits
<1>2. /\ new.result = now.result
      /\ new.rivals = now.rivals \cup line.rivals
                        \cup (IF ResultConflict(now, line) THEN {line.result} ELSE {})
      /\ new.value = (IF now.value = None THEN line.value ELSE now.value)
      /\ new.clashes = now.clashes \cup line.clashes \cup Disagreement(now, line)
  BY DEF Merged, Clashes
<1> HIDE DEF new
<1>3. Disagreement(new, line) \subseteq Disagreement(now, line)
  BY <1>2 DEF Disagreement
<1>4. Merged(new, line) = new
  BY <1>1, <1>2, <1>3, AbsorbedMeans DEF ResultConflict
<1>5. Disagreement(line, line) = {}
  BY DEF Disagreement
<1>6. Merged(line, line) = line
  BY <1>5, AbsorbedMeans
<1>7. ASSUME NEW record \in Records, Merged(now, record) = now PROVE Merged(new, record) = new
  <2>1. /\ record.rivals \subseteq now.rivals
        /\ record.result \in {None, now.result} \cup now.rivals
        /\ now.value = None => record.value = None
        /\ record.clashes \subseteq now.clashes
        /\ Disagreement(now, record) \subseteq now.clashes
    BY <1>7, AbsorbedMeans
  <2>2. Disagreement(new, record) \subseteq Disagreement(now, record)
    BY <1>2, <2>1 DEF Disagreement
  <2> QED
    BY <1>1, <1>2, <2>1, <2>2, AbsorbedMeans
<1> QED
  BY <1>4, <1>6, <1>7 DEF new

LEMMA WriteExact ==
  ASSUME Allowed, Inv, ReadExact, WriteNode
  PROVE  store'[into][Line.node] =
           IF Stored(into, Line.node) THEN Merged(store[into][Line.node], Line.record) ELSE Line.record
<1>1. existing = store[into][Line.node]
  BY DEF WriteNode, ReadExact
<1>2. CASE existing = Absent
  BY <1>1, <1>2, WriteDone DEF Put, PutAs, Stored
<1>3. CASE existing # Absent /\ Unchangeable
  BY <1>1, <1>3, WriteDone DEF Unchangeable, Stored
<1>4. CASE existing # Absent /\ ~Unchangeable
  <2>1. Update = Merged(existing, Line.record)
    BY <1>1, <1>4, WriteFits, PatchIsMerge DEF Update
  <2> QED
    BY <1>1, <1>4, <2>1, WriteDone DEF Stored
<1> QED
  BY <1>2, <1>3, <1>4

LEMMA EarlyQuiet ==
  ASSUME Shape, pc \in {"idle", "prepare", "validate"}
  PROVE  QuietInv
<1>1. ASSUME NEW s \in Stores, NEW k \in DOMAIN digests[s] PROVE ~Screened(s, k)
  BY <1>1 DEF Shape, SourcesFit, Applied, Screened
<1>2. ASSUME NEW s \in Stores, NEW k \in DOMAIN digests[s] PROVE ~Applied(s, k)
  BY <1>1 DEF Screened
<1> QED
  BY <1>1, <1>2 DEF QuietInv, ReadExact, AppliedAbsorbed, ReplayAgrees

(* What is kept by a step that leaves the destination and the digests.     *)
LEMMA QuietKept ==
  ASSUME QuietInv, UNCHANGED <<into, replay, digests>>, \A n \in Nodes : store'[into][n] = store[into][n],
         Shape, ReadExact',
         \A s \in Stores : \A k \in DOMAIN digests[s] : Applied(s, k)' => Applied(s, k),
         \A s \in Stores : \A k \in DOMAIN digests[s] :
           replay /\ Screened(s, k)' =>
             Screened(s, k) \/ (Stored(into, digests[s][k].node) =>
                                  ~ResultConflict(store[into][digests[s][k].node], digests[s][k].record))
  PROVE  QuietInv'
<1>1. \A s \in Stores : \A k \in DOMAIN digests[s] : digests[s][k].node \in Nodes
  BY DigestLines
<1>2. AppliedAbsorbed'
  BY <1>1 DEF QuietInv, AppliedAbsorbed
<1>3. ReplayAgrees'
  BY <1>1 DEF QuietInv, ReplayAgrees, Stored
<1> QED
  BY <1>2, <1>3 DEF QuietInv

LEMMA RecordKeepsQuiet ==
  ASSUME Allowed, ~Live, Inv, Inv', QuietInv, NEW t \in Stores, NEW m \in Nodes,
         NEW r \in Results \cup {None}, NEW v \in Values \cup {None}, Record(t, m, r, v)
  PROVE  QuietInv'
<1>1. CASE pc \in {"idle", "prepare", "validate"}
  <2>1. (Shape /\ pc \in {"idle", "prepare", "validate"} => QuietInv)'
    BY EarlyQuiet, PTL
  <2> QED
    BY <1>1, <2>1 DEF Record, merging, Inv
<1>2. CASE pc \notin {"idle", "prepare", "validate"}
  <2>1. t # into
    BY <1>2 DEF Record
  <2>2. \A n \in Nodes : store'[into][n] = store[into][n]
    BY <2>1 DEF Record, Inv, Shape, TypeOK
  <2>3. UNCHANGED merging
    BY DEF Record
  <2>4. ReadExact'
    <3>1. pc = "write" => Line' = Line /\ Line.node \in Nodes
      BY <2>3, LineFits DEF Line, Source, merging, Inv
    <3> QED
      BY <2>2, <2>3, <3>1 DEF QuietInv, ReadExact, merging
  <2>5. \A s, k : (Applied(s, k)' <=> Applied(s, k)) /\ (Screened(s, k)' <=> Screened(s, k))
    BY <2>3 DEF Applied, Screened, Source, merging
  <2>6. UNCHANGED <<into, replay, digests>>
    BY <2>3 DEF merging
  <2> QED
    BY <2>2, <2>4, <2>5, <2>6, QuietKept DEF Inv
<1> QED
  BY <1>1, <1>2

LEMMA PassKeepsQuiet ==
  ASSUME Allowed, Inv, Inv', QuietInv, ValidateAll \/ CheckNode \/ Checked \/ LookNode \/ SourceMerged
  PROVE  QuietInv'
<1>1. UNCHANGED <<into, replay, digests>> /\ store' = store
  BY DEF ValidateAll, CheckNode, Checked, LookNode, SourceMerged
<1>2. \A s \in Stores : \A k \in DOMAIN digests[s] : k \in Nat /\ k >= 1
  BY DigestLines DEF Inv
<1>3. place \in Nat /\ place >= 1
  BY DEF Inv, Shape, TypeOK
<1>4. CASE ValidateAll
  <2>1. \A s \in Stores : \A k \in DOMAIN digests[s] :
          (Applied(s, k)' => Applied(s, k)) /\ (Screened(s, k)' => Screened(s, k))
    BY <1>2, <1>4 DEF ValidateAll, Applied, Screened, Source, Inv, Shape, PassesWhole
  <2>2. ReadExact'
    BY <1>4 DEF ValidateAll, ReadExact
  <2> QED
    BY <1>1, <2>1, <2>2, QuietKept DEF Inv
<1>5. CASE CheckNode
  <2>1. \A s \in Stores : \A k \in DOMAIN digests[s] :
          (Applied(s, k)' => Applied(s, k)) /\ (Screened(s, k)' => Screened(s, k) \/ (s = Source /\ k = place))
    BY <1>2, <1>3, <1>5 DEF CheckNode, Applied, Screened, Source
  <2>2. Validated(Source)
    BY <1>3, <1>5 DEF CheckNode, Fresh, Inv, Shape, PassesWhole
  <2>3. digests[Source][place] = Line
    BY <2>2 DEF Validated, Line
  <2>4. replay /\ Stored(into, Line.node) => ~ResultConflict(store[into][Line.node], Line.record)
    BY <1>5 DEF CheckNode, Refusal
  <2>5. ReadExact'
    BY <1>5 DEF CheckNode, ReadExact
  <2> QED
    BY <1>1, <2>1, <2>3, <2>4, <2>5, QuietKept DEF Inv
<1>6. CASE Checked
  <2>1. Source \in Stores /\ Validated(Source) /\ ~Left /\ sources # <<>>
    BY <1>3, <1>6 DEF Checked, Fresh, Inv, Shape, TypeOK, SourcesFit, PassesWhole, Source
  <2>2. \A k \in DOMAIN digests[Source] : k < place
    <3>1. digests[Source] = spools[Source] /\ ~(place <= Len(spools[Source]))
      BY <2>1 DEF Validated, Left
    <3>2. spools[Source] \in Seq(Lines)
      BY <2>1 DEF Inv, Shape, TypeOK
    <3> QED
      BY <1>3, <3>1, <3>2
  <2>3. \A s \in Stores : \A k \in DOMAIN digests[s] :
          (Applied(s, k)' => Applied(s, k)) /\ (Screened(s, k)' => Screened(s, k))
    BY <1>2, <1>6, <2>2 DEF Checked, Applied, Screened, Source
  <2>4. ReadExact'
    BY <1>6 DEF Checked, ReadExact
  <2> QED
    BY <1>1, <2>3, <2>4, QuietKept DEF Inv
<1>7. CASE LookNode
  <2>1. \A s \in Stores : \A k \in DOMAIN digests[s] :
          (Applied(s, k)' => Applied(s, k)) /\ (Screened(s, k)' => Screened(s, k))
    BY <1>7 DEF LookNode, Applied, Screened, Source
  <2>2. ReadExact'
    BY <1>7 DEF LookNode, ReadExact, Line, Source
  <2> QED
    BY <1>1, <2>1, <2>2, QuietKept DEF Inv
<1>8. CASE SourceMerged
  <2>1. \A s \in Stores : \A k \in DOMAIN digests[s] : Applied(s, k)' => Applied(s, k)
    BY <1>8, MergedApplied
  <2>2. \A s \in Stores : \A k \in DOMAIN digests[s] : Screened(s, k)' => Applied(s, k)'
    BY <1>2, <1>8 DEF SourceMerged, Screened
  <2>3. \A s \in Stores : \A k \in DOMAIN digests[s] : Screened(s, k)' => Screened(s, k)
    BY <2>1, <2>2 DEF Screened
  <2>4. ReadExact'
    BY <1>8 DEF SourceMerged, ReadExact
  <2> QED
    BY <1>1, <2>1, <2>3, <2>4, QuietKept DEF Inv
<1> QED
  BY <1>4, <1>5, <1>6, <1>7, <1>8

LEMMA DamageKeepsQuiet ==
  ASSUME Inv, QuietInv, NEW t \in Stores, Damage(t)
  PROVE  QuietInv'
<1>1. \A s, k : (Applied(s, k)' <=> Applied(s, k)) /\ (Screened(s, k)' <=> Screened(s, k))
  BY DEF Damage, Applied, Screened, Source
<1>2. ReadExact'
  BY DEF Damage, ReadExact
<1>3. UNCHANGED <<into, replay, digests>> /\ store' = store
  BY DEF Damage
<1> QED
  BY <1>1, <1>2, <1>3, QuietKept DEF Inv

LEMMA WriteKeepsQuiet ==
  ASSUME Allowed, Inv, QuietInv, WriteNode
  PROVE  QuietInv'
<1> DEFINE now == store[into][Line.node]
           later == store'[into][Line.node]
<1>1. UNCHANGED <<into, replay, sources, spools, digests>> /\ pc' = "look" /\ place' = place + 1 /\ pc = "write"
  BY DEF WriteNode
<1>2. now \in Records \cup {Absent} /\ Line.record \in Records /\ into \in Stores
  BY WriteFits DEF Inv, Shape, TypeOK
<1>3. later = IF now # Absent THEN Merged(now, Line.record) ELSE Line.record
  BY WriteExact DEF QuietInv, Stored
<1>4. later # Absent
  BY <1>2, <1>3, MergedFits DEF Allowed
<1> HIDE DEF now, later
<1>5. Absorbed(later, Line.record)
  BY <1>2, <1>3, <1>4, MergeAbsorbs DEF Absorbed
<1>6. \A record \in Records : Absorbed(now, record) => Absorbed(later, record)
  BY <1>2, <1>3, <1>4, MergeAbsorbs DEF Absorbed
<1>7. \A s \in Stores : \A k \in DOMAIN digests[s] :
        /\ k \in Nat /\ digests[s][k].node \in Nodes /\ digests[s][k].record \in Records
        /\ Applied(s, k)' => Applied(s, k) \/ (s = Source /\ k = place)
        /\ Screened(s, k)' => Screened(s, k)
        /\ Screened(s, k) => Applied(s, k) \/ s = Source
        /\ digests[s][k].node # Line.node =>
             store'[into][digests[s][k].node] = store[into][digests[s][k].node]
  <2> TAKE s \in Stores
  <2> TAKE k \in DOMAIN digests[s]
  <2>1. k \in Nat /\ place \in Nat /\ digests[s][k].node \in Nodes /\ digests[s][k].record \in Records
    BY <1>1, DigestLines, LineFits DEF Inv
  <2>2. Applied(s, k)' => Applied(s, k) \/ (s = Source /\ k = place)
    BY <1>1, <2>1 DEF Applied, Source
  <2>3. Screened(s, k)' => Screened(s, k)
    BY <1>1, <2>2 DEF Screened, Source
  <2>4. Screened(s, k) => Applied(s, k) \/ s = Source
    BY DEF Screened
  <2> QED
    BY <1>2, <2>1, <2>2, <2>3, <2>4, WriteDone
<1>8. digests[Source][place] = Line
  BY <1>1 DEF Inv, Shape, PassesWhole, Validated, Line
<1>9. AppliedAbsorbed'
  <2> SUFFICES ASSUME NEW s \in Stores, NEW k \in DOMAIN digests[s], Applied(s, k)'
               PROVE  Absorbed(store'[into][digests[s][k].node], digests[s][k].record)
    BY <1>1 DEF AppliedAbsorbed
  <2>1. CASE s = Source /\ k = place
    BY <1>5, <1>8, <2>1 DEF later
  <2>2. CASE Applied(s, k)
    <3>1. Absorbed(store[into][digests[s][k].node], digests[s][k].record)
      BY <2>2 DEF QuietInv, AppliedAbsorbed
    <3> QED
      BY <1>6, <1>7, <3>1 DEF now, later
  <2> QED
    BY <1>7, <2>1, <2>2
<1>10. ReplayAgrees'
  <2> SUFFICES ASSUME replay, NEW s \in Stores, NEW k \in DOMAIN digests[s], Screened(s, k)',
                      Stored(into, digests[s][k].node)'
               PROVE  ~ResultConflict(store'[into][digests[s][k].node], digests[s][k].record)
    BY <1>1 DEF ReplayAgrees
  <2>1. Screened(s, k)
    BY <1>7
  <2>2. CASE digests[s][k].node # Line.node
    BY <1>1, <1>7, <2>1, <2>2 DEF QuietInv, ReplayAgrees, Stored
  <2>3. CASE digests[s][k].node = Line.node /\ now # Absent
    <3>1. ~ResultConflict(now, digests[s][k].record)
      BY <2>1, <2>3 DEF QuietInv, ReplayAgrees, Stored, now
    <3>2. later.result = now.result
      BY <1>3, <2>3 DEF Merged
    <3> QED
      BY <2>3, <3>1, <3>2 DEF ResultConflict, later
  <2>4. CASE digests[s][k].node = Line.node /\ now = Absent
    <3>1. later = Line.record
      BY <1>3, <2>4
    <3>2. ~Applied(s, k)
      BY <2>4 DEF Inv, AppliedArrived, Arrived, now
    <3>3. s = Source /\ place \in DOMAIN digests[s]
      BY <1>1, <1>7, <2>1, <3>2, LineFits DEF Inv, Shape, PassesWhole, Validated
    <3>4. Distinct(digests[s])
      BY DEF Inv, Shape, NodesOnce
    <3>5. k = place
      BY <1>8, <2>4, <3>3, <3>4 DEF Distinct
    <3>6. digests[s][k] = Line
      BY <1>8, <3>3, <3>5
    <3> QED
      BY <3>1, <3>6 DEF ResultConflict, later
  <2> QED
    BY <2>2, <2>3, <2>4
<1> QED
  BY <1>1, <1>9, <1>10 DEF QuietInv, ReadExact

LEMMA QuietStep == ASSUME Allowed, ~Live, Inv, Inv', QuietInv, [Next]_vars PROVE QuietInv'
<1>1. CASE pc' \in {"idle", "prepare", "validate"}
  <2>1. (Shape /\ pc \in {"idle", "prepare", "validate"} => QuietInv)'
    BY EarlyQuiet, PTL
  <2> QED
    BY <1>1, <2>1 DEF Inv
<1>2. ASSUME NEW s \in Stores, NEW n \in Nodes, NEW r \in Results \cup {None},
             NEW v \in Values \cup {None}, Record(s, n, r, v)
      PROVE  QuietInv'
  BY <1>2, RecordKeepsQuiet
<1>3. CASE ValidateAll \/ CheckNode \/ Checked \/ LookNode \/ SourceMerged
  BY <1>3, PassKeepsQuiet
<1>4. CASE WriteNode
  BY <1>4, WriteKeepsQuiet
<1>5. ASSUME NEW s \in Stores, Damage(s) PROVE QuietInv'
  BY <1>5, DamageKeepsQuiet
<1>6. CASE UNCHANGED vars
  BY <1>6 DEF vars, merging, QuietInv, ReadExact, AppliedAbsorbed, ReplayAgrees, Applied, Screened, Stored, Source, Line
<1>7. CASE \/ \E d \in Stores, r \in BOOLEAN : \E ss \in Orders(d) : Start(d, ss, r)
           \/ \E n \in Nodes : PrepareNode(n)
           \/ Finalize \/ Fail \/ Crash \/ Finish
  <2>1. pc' \in {"idle", "prepare", "validate"}
    BY <1>7 DEF Start, PrepareNode, Finalize, Fail, Crash, Finish, Abandon
  <2> QED
    BY <1>1, <2>1
<1> QED
  BY <1>2, <1>3, <1>4, <1>5, <1>6, <1>7 DEF Next

LEMMA QuietInductive == ASSUME Allowed, ~Live PROVE Spec => []QuietInv
<1>1. Init => QuietInv
  <2>1. Init => pc = "idle"
    BY DEF Init
  <2> QED
    BY <2>1, ShapeInit, EarlyQuiet
<1>2. Inv /\ Inv' /\ QuietInv /\ [Next]_vars => QuietInv'
  BY QuietStep
<1> QED
  BY <1>1, <1>2, Inductive, PTL DEF Spec

(* A merge that is done has lost nothing of its sources, unless somebody   *)
(* wrote to the destination meanwhile (_merge_meta).                       *)
THEOREM NothingLost == ASSUME Allowed, ~Live PROVE Spec => []MergeKeepsAll
<1>1. Inv /\ QuietInv => MergeKeepsAll
  <2> SUFFICES ASSUME Inv, QuietInv, pc = "done", NEW s \in Stores, NEW k \in DOMAIN digests[s]
               PROVE  /\ store[into][digests[s][k].node] # Absent
                      /\ KnownResults(digests[s][k].record) \subseteq KnownResults(store[into][digests[s][k].node])
                      /\ KnownValues(digests[s][k].record) \subseteq KnownValues(store[into][digests[s][k].node])
    BY DEF MergeKeepsAll
  <2> DEFINE here == store[into][digests[s][k].node]
             record == digests[s][k].record
  <2>1. here # Absent /\ Merged(here, record) = here
    BY DoneApplied DEF Inv, QuietInv, AppliedAbsorbed, Absorbed
  <2>2. here \in Records /\ record \in Records
    BY <2>1, DigestLines DEF Inv, Shape, TypeOK
  <2> HIDE DEF here, record
  <2>3. /\ record.rivals \subseteq here.rivals
        /\ record.result \in {None, here.result} \cup here.rivals
        /\ here.value = None => record.value = None
        /\ record.clashes \subseteq here.clashes
        /\ Disagreement(here, record) \subseteq here.clashes
    BY <2>1, <2>2, AbsorbedMeans
  <2>4. record # Absent
    BY <2>2 DEF Allowed
  <2>5. KnownResults(record) \subseteq KnownResults(here)
    BY <2>1, <2>3, <2>4 DEF KnownResults
  <2>6. record.value \in {None, here.value} \cup UNION here.clashes
    BY <2>3 DEF Disagreement
  <2>7. KnownValues(record) \subseteq KnownValues(here)
    BY <2>1, <2>3, <2>4, <2>6 DEF KnownValues
  <2> QED
    BY <2>1, <2>5, <2>7 DEF here, record
<1> QED
  BY <1>1, Inductive, QuietInductive, PTL

(* The same merge again would change nothing (union_stores).               *)
THEOREM RerunChangesNothing == ASSUME Allowed, ~Live PROVE Spec => []RerunIsNoop
<1>1. Inv /\ QuietInv => RerunIsNoop
  BY DoneApplied DEF Inv, QuietInv, AppliedAbsorbed, Absorbed, RerunIsNoop
<1> QED
  BY <1>1, Inductive, QuietInductive, PTL

(* A replay that is done has met no other result, in any of its sources    *)
(* (_merge_source with mode "replay").                                     *)
THEOREM ReplaysAgree == ASSUME Allowed, ~Live PROVE Spec => []ReplayRejects
<1>1. Inv /\ QuietInv => ReplayRejects
  BY DoneApplied DEF Inv, QuietInv, AppliedArrived, Arrived, ReplayAgrees, Screened, Stored, ReplayRejects
<1> QED
  BY <1>1, Inductive, QuietInductive, PTL

(* And no step, of a run or of a merge that may be abandoned, takes back   *)
(* what a store knew (put, update_meta).                                   *)
THEOREM KnowledgeStays == ASSUME Allowed, ~Live PROVE Spec => [][NothingForgotten]_vars
<1>1. Inv /\ QuietInv /\ [Next]_vars => [NothingForgotten]_vars
  <2> SUFFICES ASSUME Inv, QuietInv, Next, NEW s \in Stores, NEW n \in Nodes, store[s][n] # Absent
               PROVE  /\ store'[s][n] # Absent
                      /\ store'[s][n].result = store[s][n].result
                      /\ KnownResults(store[s][n]) \subseteq KnownResults(store'[s][n])
                      /\ KnownValues(store[s][n]) \subseteq KnownValues(store'[s][n])
    BY DEF NothingForgotten
  <2> DEFINE old == store[s][n]
             new == store'[s][n]
             Grown == /\ new # Absent /\ new.result = old.result
                      /\ KnownResults(old) \subseteq KnownResults(new)
                      /\ KnownValues(old) \subseteq KnownValues(new)
  <2>1. old \in Records
    BY DEF Inv, Shape, TypeOK
  <2> SUFFICES Grown
    OBVIOUS
  <2>2. CASE new = old
    BY <2>2
  <2>3. ASSUME NEW line \in Records, new = PutAs(old, line) PROVE Grown
    <3>1. /\ new # Absent /\ new.result = old.result /\ old.rivals \subseteq new.rivals
          /\ new.value = old.value /\ new.clashes = old.clashes
      BY <2>1, <2>3, PutKeepsResults
    <3> QED
      BY <3>1 DEF KnownResults, KnownValues
  <2>4. ASSUME NEW line \in Records, new = Merged(old, line) PROVE Grown
    <3>1. new \in Records /\ new # Absent
      BY <2>1, <2>4, MergedFits DEF Allowed
    <3>2. /\ new.result = old.result /\ old.rivals \subseteq new.rivals
          /\ old.value \in {None, new.value} /\ old.clashes \subseteq new.clashes
      BY <2>4 DEF Merged, Clashes
    <3> QED
      BY <3>1, <3>2 DEF KnownResults, KnownValues
  <2>5. ASSUME NEW t \in Stores, NEW m \in Nodes, NEW r \in Results \cup {None},
               NEW v \in Values \cup {None}, Record(t, m, r, v)
        PROVE  Grown
    <3>1. PICK line \in Records : new = old \/ new = PutAs(old, line)
      BY <2>5, RecordPuts
    <3> QED
      BY <3>1, <2>2, <2>3
  <2>6. CASE WriteNode
    <3>1. CASE s = into /\ n = Line.node
      <4>1. new = Merged(old, Line.record)
        BY <2>6, <3>1, WriteExact DEF QuietInv, Stored
      <4>2. Line.record \in Records
        BY <2>6, WriteFits
      <4> QED
        BY <4>1, <4>2, <2>4
    <3>2. CASE ~(s = into /\ n = Line.node)
      BY <2>2, <2>6, <3>2, WriteDone
    <3> QED
      BY <3>1, <3>2
  <2>7. CASE store' = store
    BY <2>2, <2>7
  <2> QED
    BY <2>5, <2>6, <2>7, StoreUntouched DEF Next
<1> QED
  BY <1>1, Inductive, QuietInductive, PTL DEF Spec

=============================================================================
