----------------------------- MODULE Revalidation -----------------------------
(***************************************************************************)
(* Workers that compare a recorded branch with live observations, step by  *)
(* step (Run.revalidate_model_call and its async twin).  The recorded      *)
(* branch is golden[1], golden[2], ...; an observation of its d-th node is *)
(* a sibling of it, under which a note tells how the comparison came out.  *)
(* Results stand for their digests; a payload differs by the observation   *)
(* id alone.  Budgets and the lease are GovernedCall's: what is kept here  *)
(* is that a call may be refused or fail, and that its lease may be found  *)
(* lost.  A store that fails in a put may have written the node or not.    *)
(***************************************************************************)
EXTENDS Naturals, Sequences

CONSTANTS
  Workers,
  Observations,  \* observation ids
  Results,       \* results of a model call
  Means,         \* result -> its meaning, which the comparator compares
  Absent,        \* no node
  Golden,        \* the recorded results, along the branch
  Guarded,       \* the workers with refuse_duplicate_recordings
  MaxTries,      \* bound: revalidations started
  MaxFaults      \* bound: puts of the store, and reads after them, that fail

Depths == 1 .. Len(Golden)
Live == Depths \X Observations

VARIABLES
  live,      \* <<depth, id>> -> result of the stored observation, or Absent
  notes,     \* the notes under the observations
  told,      \* the refusals of calls, and notes that an outcome is unknown
  at,        \* worker -> where its revalidation is
  branch,    \* worker -> nodes of the recorded branch above its cursor
  off,       \* worker -> what beside the branch its cursor is on, or "no"
  work,      \* worker -> [depth, id, result] it works on
  lost,      \* worker -> the lease of its call was lost
  reports,   \* the reports that were returned
  orphans,   \* observations whose worker went on without a comparison
  tries, faults

vars == <<live, notes, told, at, branch, off, work, lost, reports, orphans, tries, faults>>

Verdicts == {"matched", "differs", "failed"}
Note == [of : Live, result : Results, verdict : Verdicts, exact : BOOLEAN]

TypeOK ==
  /\ live \in [Live -> Results \cup {Absent}]
  /\ notes \subseteq Note
  /\ told \subseteq {"refusal", "unknown"} \X Live
  /\ at \in [Workers -> {"idle", "prepared", "dispatched", "answered", "stored", "failing"}]
  /\ branch \in [Workers -> 0 .. Len(Golden)]
  /\ off \in [Workers -> {"no", "refusal", "unknown", "observation"}]
  /\ lost \in [Workers -> BOOLEAN]
  /\ work \in [Workers -> [of : Live, result : Results]]
  /\ reports \subseteq Note
  /\ orphans \subseteq Live
  /\ tries \in 0 .. MaxTries /\ faults \in 0 .. MaxFaults

Init ==
  /\ live = [l \in Live |-> Absent] /\ notes = {} /\ told = {}
  /\ at = [w \in Workers |-> "idle"]
  /\ branch = [w \in Workers |-> 0]
  /\ off = [w \in Workers |-> "no"] /\ lost = [w \in Workers |-> FALSE]
  /\ work = [w \in Workers |-> [of |-> CHOOSE l \in Live : TRUE, result |-> Golden[1]]]
  /\ reports = {} /\ orphans = {}
  /\ tries = 0 /\ faults = 0

Faulty == faults < MaxFaults /\ faults' = faults + 1

Goes(w, from, to) == at[w] = from /\ at' = [at EXCEPT ![w] = to]
Rest(w) == at' = [at EXCEPT ![w] = "idle"]

-----------------------------------------------------------------------------
(* _prepare_model_revalidation: the recorded node is looked up under the   *)
(* cursor, and an observation that exists is refused.  What is refused     *)
(* changes nothing.                                                        *)
Fresh(l) == live[l] = Absent

Prepare(w, o) ==
  /\ Goes(w, "idle", "prepared") /\ tries < MaxTries /\ tries' = tries + 1
  /\ off[w] = "no" /\ branch[w] < Len(Golden)
  /\ LET l == <<branch[w] + 1, o>> IN
       /\ Fresh(l)
       /\ work' = [work EXCEPT ![w].of = l]
  /\ UNCHANGED <<live, notes, told, branch, off, lost, reports, orphans, faults>>

(* _call in record mode: a worker that refuses duplicates raises; a budget,*)
(* a window or a meter may refuse; the others are dispatched.              *)
Duplicate(w) == w \in Guarded /\ live[work[w].of] # Absent

Dispatch(w) ==
  /\ Goes(w, "prepared", IF Duplicate(w) THEN "idle" ELSE "dispatched")
  /\ UNCHANGED <<live, notes, told, branch, off, work, lost, reports, orphans, tries, faults>>

(* A child of the cursor tells what became of the call, and the cursor goes*)
(* onto it; or _put fails, and it stays, before the write or after it.     *)
Leave(w, kind) ==
  LET child == <<kind, work[w].of>> IN
  \/ told' = told \cup {child} /\ off' = [off EXCEPT ![w] = kind] /\ UNCHANGED faults
  \/ Faulty /\ told' \in {told, told \cup {child}} /\ UNCHANGED off

Refuse(w) ==
  /\ Goes(w, "prepared", "idle") /\ ~Duplicate(w)
  /\ Leave(w, "refusal")
  /\ UNCHANGED <<live, notes, branch, work, lost, reports, orphans, tries>>

(* The provider answers; the lease may have gone meanwhile.                *)
Answer(w, r) ==
  /\ Goes(w, "dispatched", "answered")
  /\ work' = [work EXCEPT ![w].result = r]
  /\ \E gone \in BOOLEAN : lost' = [lost EXCEPT ![w] = gone]
  /\ UNCHANGED <<live, notes, told, branch, off, reports, orphans, tries, faults>>

(* The call fails: before the provider had it, which leaves no trace; or   *)
(* its outcome is unknown or cannot be recorded, which a note tells.       *)
CallFails(w) ==
  /\ Goes(w, "dispatched", "idle")
  /\ (UNCHANGED <<told, off, faults>>) \/ Leave(w, "unknown")
  /\ UNCHANGED <<live, notes, branch, work, lost, reports, orphans, tries>>

(* _put returns the node that is stored, whoever stored it.                *)
PutReturns(node, r) == IF node = Absent THEN r ELSE node

Store(w) == live' = [live EXCEPT ![work[w].of] = PutReturns(@, work[w].result)]
Abandon(w) == orphans' = orphans \cup {work[w].of}

StoreLive(w) ==
  /\ at[w] = "answered"
  /\ Store(w)
  /\ work' = [work EXCEPT ![w].result = live'[work[w].of]]
  /\ off' = [off EXCEPT ![w] = "observation"]
  /\ at' = [at EXCEPT ![w] = IF lost[w] THEN "idle" ELSE "stored"]
  /\ IF lost[w] THEN Abandon(w) ELSE UNCHANGED orphans
  /\ UNCHANGED <<notes, told, branch, lost, reports, tries, faults>>

(* The store fails: the charges are settled or not, but the node cannot be *)
(* stored; it is stored and _put cannot read it again; or _settle_scopes   *)
(* cannot read the charges of the tree, with the cursor on it.             *)
StoreLiveFails(w) ==
  /\ Goes(w, "answered", "idle") /\ Faulty
  /\ \/ UNCHANGED <<live, off, orphans>>
     \/ Store(w) /\ Abandon(w) /\ off' \in {off, [off EXCEPT ![w] = "observation"]}
  /\ UNCHANGED <<notes, told, branch, work, lost, reports, tries>>

-----------------------------------------------------------------------------
(* _finish_model_revalidation.                                             *)
Outcome(r, d) == IF Means[r] = Means[Golden[d]] THEN "matched" ELSE "differs"

NoteOf(w, verdict) ==
  LET l == work[w].of r == work[w].result IN
  [of |-> l, result |-> r, verdict |-> verdict, exact |-> verdict # "failed" /\ r = Golden[l[1]]]

(* finally: self.cursor_id = recorded.id                                   *)
Finally(w) ==
  /\ branch' = [branch EXCEPT ![w] = work[w].of[1]]
  /\ off' = [off EXCEPT ![w] = "no"]

Compare(w) ==
  /\ Goes(w, "stored", "idle")
  /\ LET n == NoteOf(w, Outcome(work[w].result, work[w].of[1])) IN
       notes' = notes \cup {n} /\ reports' = reports \cup {n}
  /\ Finally(w)
  /\ UNCHANGED <<live, told, work, lost, orphans, tries, faults>>

(* The comparator raises, or the note cannot be stored, or not read again: *)
(* the note of the failure is next, inside the same handler.               *)
ComparatorRaises(w) ==
  /\ Goes(w, "stored", "failing")
  /\ UNCHANGED <<live, notes, told, branch, off, work, lost, reports, orphans, tries, faults>>
NoteFails(w) ==
  /\ Goes(w, "stored", "failing") /\ Faulty
  /\ LET n == NoteOf(w, Outcome(work[w].result, work[w].of[1])) IN notes' \in {notes, notes \cup {n}}
  /\ UNCHANGED <<live, told, branch, off, work, lost, reports, orphans, tries>>

Tell(w) == notes' = notes \cup {NoteOf(w, "failed")}

FailureNoted(w) ==
  /\ Goes(w, "failing", "idle")
  /\ Tell(w)
  /\ Finally(w)
  /\ UNCHANGED <<live, told, work, lost, reports, orphans, tries, faults>>
FailureLost(w) ==
  /\ Goes(w, "failing", "idle") /\ Faulty
  /\ \/ Abandon(w) /\ UNCHANGED notes
     \/ Tell(w) /\ UNCHANGED orphans
  /\ Finally(w)
  /\ UNCHANGED <<live, told, work, lost, reports, tries>>

(* The process dies, and another starts at the root of the run.            *)
Crash(w) ==
  /\ at[w] # "idle" /\ Rest(w)
  /\ branch' = [branch EXCEPT ![w] = 0] /\ off' = [off EXCEPT ![w] = "no"]
  /\ orphans' = IF at[w] \in {"stored", "failing"} THEN orphans \cup {work[w].of} ELSE orphans
  /\ UNCHANGED <<live, notes, told, work, lost, reports, tries, faults>>

(* A run is opened again, at its root.                                     *)
Reopen(w) ==
  /\ at[w] = "idle" /\ (off[w] # "no" \/ branch[w] > 0)
  /\ branch' = [branch EXCEPT ![w] = 0] /\ off' = [off EXCEPT ![w] = "no"]
  /\ UNCHANGED <<live, notes, told, at, work, lost, reports, orphans, tries, faults>>

Step(w) ==
  \/ Dispatch(w) \/ Refuse(w) \/ StoreLive(w) \/ StoreLiveFails(w)
  \/ \E r \in Results : Answer(w, r)
  \/ CallFails(w)
  \/ Compare(w) \/ ComparatorRaises(w) \/ NoteFails(w)
  \/ FailureNoted(w) \/ FailureLost(w)

Next ==
  \/ \E w \in Workers, o \in Observations : Prepare(w, o)
  \/ \E w \in Workers : Step(w) \/ Crash(w) \/ Reopen(w)

Spec == Init /\ [][Next]_vars

-----------------------------------------------------------------------------
(* What a note or a report says of an observation is true of the node that *)
(* is stored, also when several workers made the same observation and      *)
(* another's result is the one that stands.                                *)
EvidenceIsOfWhatIsStored ==
  \A n \in notes \cup reports :
    /\ n.result = live[n.of]
    /\ n.verdict # "failed" => n.verdict = Outcome(live[n.of], n.of[1])
    /\ n.exact => live[n.of] = Golden[n.of[1]]

(* Workers that made the same observation agree on the comparison.         *)
OneVerdict ==
  \A m, n \in notes :
    (m.of = n.of /\ m.verdict # "failed" /\ n.verdict # "failed") => m = n

(* "After successful comparison, the run cursor advances along the golden  *)
(* branch" (revalidation.md), also after one that failed.  Between         *)
(* revalidations a cursor is beside the branch only on a child that tells  *)
(* why ("a refusal also records a child and advances the cursor",          *)
(* api-reference.md), or on an observation that its worker never compared, *)
(* its lease being lost or the store failing after the put.                *)
SequentialOnBranch ==
  \A w \in Workers : at[w] = "idle" =>
    /\ off[w] \in {"refusal", "unknown"} => <<off[w], work[w].of>> \in told
    /\ off[w] = "observation" => live[work[w].of] # Absent /\ work[w].of \in orphans

(* A stored observation that nobody works on any more has a note: its      *)
(* comparison, or that this failed; unless its worker died, lost its lease,*)
(* was told by the store that it could not be stored or accounted for, or  *)
(* failed to store both notes.                                             *)
ObservationsAreExplained ==
  \A l \in Live : live[l] # Absent =>
    \/ l \in orphans \/ \E n \in notes : n.of = l
    \/ \E w \in Workers : at[w] \in {"stored", "failing"} /\ work[w].of = l
=============================================================================
