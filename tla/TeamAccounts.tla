----------------------------- MODULE TeamAccounts -----------------------------
(***************************************************************************)
(* Dependency notes between the results of a team, and the report that     *)
(* attributes the team's work to its agents (dependencies.py and           *)
(* team_reports.py), while calls are recorded, pruned branches are         *)
(* collected, stores are merged and nodes are damaged.                     *)
(*                                                                         *)
(* A node stands for the identity it hashes, and a result for its digest.  *)
(* A dependency note is a leaf, with the node it is below.  Charges and    *)
(* usage are sums over the nodes a report counted, and are left out.       *)
(***************************************************************************)
EXTENDS Naturals, Sequences, FiniteSets, SequencesExt

CONSTANTS
  Stores,      \* stores the team's tree is in
  Reported,    \* the one of them that is read
  Nodes,
  Parent,      \* node -> its parent, or itself
  Kind,        \* node -> "root", "anchor" (a team actor), "malformed" or "call"
  Root,        \* the team's root
  Results, NoResult,  \* a dry run has no result
  Absent,      \* no node
  Targets,     \* nodes a reference may name
  Initially,   \* nodes that are stored everywhere at first
  MaxOps       \* bound: changes of the stores

RECURSIVE Up(_)
Up(n) == IF Parent[n] = n THEN <<n>> ELSE <<n>> \o Up(Parent[n])
Ancestry(n) == Range(Up(n))
RootOf(n) == Last(Up(n))
CallNodes == {n \in Nodes : Kind[n] = "call"}
Refs == [target : Targets, digest : Results]
Notes == [at : Nodes, refs : {{q, r} : q \in Refs, r \in Refs}]

VARIABLES
  stored,    \* store -> node -> its result, or Absent
  notes,     \* store -> its dependency notes
  pruned,    \* store -> the nodes marked so
  damaged,   \* store -> the nodes whose content is not what their digests say
  report,    \* the report at work
  own,       \* store -> the notes recorded in it, and kept since (history)
  dropped,   \* the nodes that a collection has removed (history)
  results,   \* node -> the results that were ever stored for it (history)
  ops
vars == <<stored, notes, pruned, damaged, report, own, dropped, results, ops>>

In(s) == {n \in Nodes : stored[s][n] # Absent}

Nobody == Root

NoReport == [at |-> "none", pending |-> <<>>, base |-> {}, checked |-> {}, findings |-> {},
             counted |-> {}]

TypeOK ==
  /\ stored \in [Stores -> [Nodes -> Results \cup {NoResult, Absent}]]
  /\ \A s \in Stores : /\ notes[s] \subseteq [at : In(s), refs : SUBSET Refs]
                       /\ own[s] \subseteq notes[s]
                       /\ \A n \in In(s) : Parent[n] \in In(s)
  /\ pruned \in [Stores -> SUBSET Nodes] /\ damaged \in [Stores -> SUBSET Nodes]
  /\ report.at \in {"none", "verifying", "counting", "done"}
  /\ report.counted \subseteq [node : Nodes, actor : Nodes, orphan : BOOLEAN, broken : BOOLEAN]
  /\ dropped \subseteq Nodes
  /\ results \in [Nodes -> SUBSET Results]
  /\ ops \in 0 .. MaxOps

FirstResult(n) == IF n \in CallNodes THEN CHOOSE r \in Results : TRUE ELSE NoResult
Init ==
  /\ stored = [s \in Stores |-> [n \in Nodes |-> IF n \in Initially THEN FirstResult(n) ELSE Absent]]
  /\ notes = [s \in Stores |-> {}] /\ own = notes
  /\ pruned = [s \in Stores |-> {}] /\ damaged = pruned
  /\ report = NoReport /\ dropped = {}
  /\ results = [n \in Nodes |-> IF n \in Initially \cap CallNodes THEN {FirstResult(n)} ELSE {}]
  /\ ops = 0

Op == ops < MaxOps /\ ops' = ops + 1
Live == UNCHANGED <<pruned, damaged, report, dropped>>
Offline == report.at \in {"none", "done"}

-----------------------------------------------------------------------------
(* The runs: a call, an actor's note or a dry run is put below its parent. *)
Record(s, n, r) ==
  /\ Op /\ stored[s][n] = Absent /\ Parent[n] \in In(s)
  /\ r # NoResult => n \in CallNodes
  /\ stored' = [stored EXCEPT ![s][n] = r]
  /\ results' = [results EXCEPT ![n] = IF r = NoResult THEN @ ELSE @ \cup {r}]
  /\ UNCHANGED <<notes, own>> /\ Live

(* verify: the nodes from here up to the root are there and undamaged.     *)
Sound(s, n) == Ancestry(n) \subseteq In(s) \ damaged[s]

(* _check_reference, for a note of the run of a root.                      *)
Finding(s, root, ref) ==
  LET t == ref.target IN
  CASE t \notin In(s) -> "missing_target"
    [] t \in In(s) /\ ~Sound(s, t) -> "invalid_target"
    [] Sound(s, t) /\ RootOf(t) # root -> "cross_run_reference"
    [] Sound(s, t) /\ RootOf(t) = root /\ (t \notin CallNodes \/ stored[s][t] = NoResult)
         -> "missing_result"
    [] OTHER -> IF stored[s][t] = ref.digest THEN "none" ELSE "changed_result"

(* A mutant: one good reference is enough.                                 *)
OneHolds(s, root, refs) == \E r \in refs : Finding(s, root, r) = "none"

RefsHold(s, root, refs) == \A r \in refs : Finding(s, root, r) = "none"

(* record_dependency and record_handoff.                                   *)
RecordDependency(s, note) ==
  /\ Op /\ note.at \in In(s) /\ RootOf(note.at) = Root /\ Sound(s, note.at)
  /\ \A a, b \in note.refs : a.target = b.target => a = b
  /\ RefsHold(s, Root, note.refs)
  /\ notes' = [notes EXCEPT ![s] = @ \cup {note}]
  /\ own' = [own EXCEPT ![s] = @ \cup {note}]
  /\ UNCHANGED <<stored, results>> /\ Live

Prune(s, n) ==
  /\ Op /\ n \in In(s) \ pruned[s] /\ Parent[n] # n
  /\ pruned' = [pruned EXCEPT ![s] = @ \cup {n}]
  /\ UNCHANGED <<stored, notes, damaged, report, own, dropped, results>>

(* gc(store, mode="drop-pruned"), offline: every marked node goes with     *)
(* what is below it; damage anywhere refuses it.                           *)
Collected(s) == {n \in In(s) : Ancestry(n) \cap pruned[s] # {}}

Collect(s) ==
  /\ Op /\ Offline /\ damaged[s] \cap In(s) = {} /\ Collected(s) # {}
  /\ LET gone == Collected(s) IN
       /\ stored' = [stored EXCEPT ![s] = [n \in Nodes |-> IF n \in gone THEN Absent ELSE @[n]]]
       /\ notes' = [notes EXCEPT ![s] = {d \in @ : d.at \notin gone}]
       /\ own' = [own EXCEPT ![s] = {}]
       /\ pruned' = [pruned EXCEPT ![s] = @ \ gone]
       /\ dropped' = dropped \cup gone
  /\ UNCHANGED <<damaged, report, results>>

(* merge: nodes, notes and marks come along, and a result that is there    *)
(* stays.                                                                  *)
MergeInto(s, t) ==
  /\ Op /\ s # t /\ damaged[s] \cup damaged[t] = {}
  /\ stored' = [stored EXCEPT ![t] =
       [n \in Nodes |-> IF @[n] = Absent THEN stored[s][n] ELSE @[n]]]
  /\ notes' = [notes EXCEPT ![t] = @ \cup notes[s]]
  /\ pruned' = [pruned EXCEPT ![t] = @ \cup (pruned[s] \cap In(s))]
  /\ UNCHANGED <<damaged, report, own, dropped, results>>

(* Something outside Pollard writes over a node.                           *)
Damage(s, n) ==
  /\ Op /\ n \in In(s) \ damaged[s]
  /\ damaged' = [damaged EXCEPT ![s] = @ \cup {n}]
  /\ UNCHANGED <<stored, notes, pruned, report, own, dropped, results>>

-----------------------------------------------------------------------------
(* _read_tree: the children of a node are read when its turn comes, while  *)
(* others are being stored.                                                *)
Children(s, n) == {c \in In(s) \ {n} : Parent[c] = n}
ReadNext == Last(report.pending)
Popped == Front(report.pending) \o SetToSeq(Children(Reported, ReadNext))

Reading(phase) == report.at = phase /\ report.pending # <<>>

BeginReport ==
  /\ report.at = "none"
  /\ report' = [NoReport EXCEPT !.at = "verifying", !.pending = <<Root>>, !.base = In(Reported)]
  /\ UNCHANGED <<stored, notes, pruned, damaged, own, dropped, results, ops>>

(* verify_dependencies: the notes below each node, and their references.   *)
VerifyNode ==
  /\ Reading("verifying")
  /\ LET here == {d \in notes[Reported] : d.at = ReadNext}
         invalid == IF Sound(Reported, ReadNext) THEN {}
                    ELSE {[note |-> d, target |-> ReadNext, code |-> "invalid_note"] : d \in here}
         bad == {[note |-> d, target |-> r.target, code |-> Finding(Reported, Root, r)] :
                   d \in here, r \in UNION {e.refs : e \in here}} IN
       report' = [report EXCEPT
         !.pending = Popped,
         !.checked = @ \cup here,
         !.findings = @ \cup invalid \cup
           {f \in bad : f.code # "none" /\ \E r \in f.note.refs : r.target = f.target
                                            /\ Finding(Reported, Root, r) = f.code}]
  /\ UNCHANGED <<stored, notes, pruned, damaged, own, dropped, results, ops>>

(* team_report walks the tree again, for the accounts.                     *)
BeginCounting ==
  /\ report.at = "verifying" /\ report.pending = <<>>
  /\ report' = [report EXCEPT !.at = "counting", !.pending = <<Root>>]
  /\ UNCHANGED <<stored, notes, pruned, damaged, own, dropped, results, ops>>

AccountOf(n) == CHOOSE c \in report.counted : c.node = n
Account(n, actor, orphan, broken) ==
  [node |-> n, actor |-> actor, orphan |-> orphan, broken |-> broken]

(* The actor of the parent, which was met before it.                       *)
Above(n) ==
  IF n = Root THEN Account(Root, Nobody, FALSE, FALSE) ELSE AccountOf(Parent[n])

(* A malformed actor, and a broken node, have nobody.                      *)
Orphan(n, above, broken) ==
  \/ broken
  \/ Kind[n] = "malformed"
  \/ Kind[n] = "call" /\ above.orphan

CountNode ==
  /\ Reading("counting")
  /\ LET n == ReadNext
         above == Above(n)
         broken == n \in damaged[Reported] \/ above.broken
         orphan == Orphan(n, above, broken)
         actor == IF orphan THEN Nobody
                  ELSE IF Kind[n] = "anchor" THEN n ELSE above.actor IN
       report' = [report EXCEPT !.pending = Popped,
                                !.counted = @ \cup {Account(n, actor, orphan, broken)}]
  /\ UNCHANGED <<stored, notes, pruned, damaged, own, dropped, results, ops>>

EndReport ==
  /\ report.at = "counting" /\ report.pending = <<>>
  /\ report' = [report EXCEPT !.at = "done"]
  /\ UNCHANGED <<stored, notes, pruned, damaged, own, dropped, results, ops>>

Next ==
  \/ \E s \in Stores, n \in Nodes, r \in Results \cup {NoResult} : Record(s, n, r)
  \/ \E s \in Stores, d \in Notes : RecordDependency(s, d)
  \/ \E s \in Stores, n \in Nodes : Prune(s, n) \/ Damage(s, n)
  \/ \E s, t \in Stores : MergeInto(s, t)
  \/ \E s \in Stores : Collect(s)
  \/ BeginReport \/ VerifyNode \/ BeginCounting \/ CountNode \/ EndReport

Spec == Init /\ [][Next]_vars

-----------------------------------------------------------------------------
(* A note that was recorded in a store stands there, whatever is recorded, *)
(* merged in and pruned later, until a collection or damage.               *)
RecordedNotesStand ==
  \A s \in Stores : \A d \in own[s] :
    \A r \in d.refs : damaged[s] = {} => Finding(s, Root, r) = "none"

(* What a verification finds has one cause, and the code names it: a       *)
(* missing target was collected, a changed result was recorded twice.      *)
FindingsNameTheirCause ==
  \A f \in report.findings :
    /\ f.code = "missing_target" => f.target \in dropped
    /\ f.code = "changed_result" => Cardinality(results[f.target]) > 1
    /\ f.code # "cross_run_reference"
    /\ f.code = "missing_result" => f.target \in dropped \/ results[f.target] # {}

(* "Each call is attributed once to its nearest agent assignment"          *)
(* (teams.md): the nearest note of an actor above it, unless that is       *)
(* malformed or something on the way to the root was found damaged.        *)
NearestActor(n) ==
  LET up == Up(n)
      actors == {i \in 1 .. Len(up) : Kind[up[i]] \in {"anchor", "malformed"}} IN
  IF actors = {} THEN Nobody
  ELSE LET i == CHOOSE j \in actors : \A k \in actors : j <= k IN
       IF Kind[up[i]] = "anchor" THEN up[i] ELSE Nobody

AttributedOnceToNearest ==
  /\ \A c, d \in report.counted : c.node = d.node => c = d
  /\ \A c \in report.counted :
       LET wrecked == \E d \in report.counted : d.broken /\ d.node \in Ancestry(c.node) IN
       c.actor = IF wrecked THEN Nobody ELSE NearestActor(c.node)

(* A report leaves out nothing that was stored when it began, and counts   *)
(* nothing that is not there, however many nodes are stored meanwhile.     *)
ReportCovers ==
  LET team == {n \in report.base : RootOf(n) = Root}
      counted == {c.node : c \in report.counted} IN
  /\ report.at = "done" => team \subseteq counted
  /\ report.at = "counting" => counted \subseteq In(Reported)
=============================================================================
