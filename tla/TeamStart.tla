------------------------------ MODULE TeamStart ------------------------------
(***************************************************************************)
(* Processes start on one run root: teams (Team.__init__) and plain runs   *)
(* (Runtime.run, Runtime.resume).                                          *)
(*                                                                         *)
(* Three things are bound to the root on the way, each in its own way: a   *)
(* team's manifest by a write-once slot, a shared budget's limits by a     *)
(* write-once node, and the registry's digest by reading the root's        *)
(* metadata and then writing it.  Every access to the store is a step.     *)
(***************************************************************************)
EXTENDS Naturals

CONSTANTS
  Procs,        \* processes that use the label
  Registries,   \* registry digests
  Limits,       \* limits declared for the shared budget
  Kinds,        \* what processes start: a subset of {"team", "run"}
  Unset,        \* nothing is stored
  MaxStarts     \* bound: how often processes start again

Configs == [registry : Registries, limit : Limits]

VARIABLES
  registered,   \* registry_digest in the root's metadata
  limits,       \* the result of the shared budget's node
  manifest,     \* the configuration the manifest slot's result names
  notes,        \* the manifest notes stored below the slot
  kind,         \* process -> "team" or "run"
  config,       \* process -> its runtime's configuration
  pc,           \* process -> where its start is
  starts        \* how often a process has started again

stored == <<registered, limits, manifest, notes>>
vars == <<stored, kind, config, pc, starts>>

Places == {"root", "share", "compare", "slot", "bound", "note",
           "read", "write", "running", "failed"}

TypeOK ==
  /\ registered \in Registries \cup {Unset}
  /\ limits \in Limits \cup {Unset}
  /\ manifest \in Configs \cup {Unset}
  /\ notes \subseteq Configs
  /\ kind \in [Procs -> Kinds]
  /\ config \in [Procs -> Configs]
  /\ pc \in [Procs -> Places]
  /\ starts \in 0 .. MaxStarts

Init ==
  /\ registered = Unset
  /\ limits = Unset
  /\ manifest = Unset
  /\ notes = {}
  /\ kind \in [Procs -> Kinds]
  /\ config \in [Procs -> Configs]
  /\ pc = [p \in Procs |-> "root"]
  /\ starts = 0

Goto(p, place) == pc' = [pc EXCEPT ![p] = place]
Same == UNCHANGED <<kind, config, starts>>

(* The root is put and read: a team compares the digest it finds, a run    *)
(* binds the registry at once.                                             *)
StartAtRoot(p) ==
  /\ pc[p] = "root"
  /\ IF kind[p] = "run" THEN Goto(p, "read")
     ELSE IF registered \notin {Unset, config[p].registry} THEN Goto(p, "failed")
     ELSE Goto(p, "share")
  /\ Same /\ UNCHANGED stored

StoredLimits(p) == IF limits = Unset THEN config[p].limit ELSE limits

(* SharedBudget.bind: the node is put, and the limits that were first are  *)
(* read back.                                                              *)
Share(p) ==
  /\ pc[p] = "share"
  /\ limits' = StoredLimits(p)
  /\ Goto(p, "compare")
  /\ Same /\ UNCHANGED <<registered, manifest, notes>>

SharedAgree(p) == limits = config[p].limit

CompareLimits(p) ==
  /\ pc[p] = "compare"
  /\ Goto(p, IF ~SharedAgree(p) THEN "failed" ELSE IF kind[p] = "team" THEN "slot" ELSE "running")
  /\ Same /\ UNCHANGED stored

(* _bind_note: the slot is put, compared, and then the note is put.        *)
PutSlot(p) ==
  /\ pc[p] = "slot"
  /\ manifest' = IF manifest = Unset THEN config[p] ELSE manifest
  /\ Goto(p, "bound")
  /\ Same /\ UNCHANGED <<registered, limits, notes>>

CompareSlot(p) ==
  /\ pc[p] = "bound"
  /\ Goto(p, IF manifest = config[p] THEN "note" ELSE "failed")
  /\ Same /\ UNCHANGED stored

PutNote(p) ==
  /\ pc[p] = "note"
  /\ notes' = notes \cup {config[p]}
  /\ Goto(p, "read")
  /\ Same /\ UNCHANGED <<registered, limits, manifest>>

(* Runtime._bind_registry reads the root, and writes if it found nothing.  *)
ReadRoot(p) ==
  /\ pc[p] = "read"
  /\ Goto(p, IF registered = Unset THEN "write"
             ELSE IF registered # config[p].registry THEN "failed"
             ELSE IF kind[p] = "team" THEN "running" ELSE "share")
  /\ Same /\ UNCHANGED stored

RegistryDigest(p) == config[p].registry

WriteRoot(p) ==
  /\ pc[p] = "write"
  /\ registered' = RegistryDigest(p)
  /\ Goto(p, IF kind[p] = "team" THEN "running" ELSE "share")
  /\ Same /\ UNCHANGED <<limits, manifest, notes>>

(* The process dies or its start was refused; another takes its place.     *)
StartAgain(p) ==
  /\ starts < MaxStarts
  /\ starts' = starts + 1
  /\ kind' \in [Procs -> Kinds]
  /\ config' \in [Procs -> Configs]
  /\ \A q \in Procs \ {p} : kind'[q] = kind[q] /\ config'[q] = config[q]
  /\ Goto(p, "root")
  /\ UNCHANGED stored

Next == \E p \in Procs :
  \/ StartAtRoot(p) \/ Share(p) \/ CompareLimits(p)
  \/ PutSlot(p) \/ CompareSlot(p) \/ PutNote(p)
  \/ ReadRoot(p) \/ WriteRoot(p) \/ StartAgain(p)

Spec == Init /\ [][Next]_vars

-----------------------------------------------------------------------------
Running(p) == pc[p] = "running"
RunningTeam(p) == Running(p) /\ kind[p] = "team"

(* Teams that run on one root have one configuration, that of the stored   *)
(* manifest, however their starts interleave (Team.__init__).              *)
OneManifest ==
  /\ notes \subseteq {manifest}
  /\ \A p \in Procs : RunningTeam(p) => manifest = config[p] /\ config[p] \in notes

(* Processes that run under a shared budget run under the same limits      *)
(* (SharedBudget: "The first binding fixes the limits").                   *)
OneLimit == \A p, q \in Procs :
  Running(p) /\ Running(q) => config[p].limit = config[q].limit

(* Where only teams start, the root's registry is the winning manifest's:  *)
(* "A conflicting first-time creator must leave it untouched"              *)
(* (Team.__init__).                                                        *)
LosersLeaveRoot ==
  (Kinds = {"team"} /\ registered # Unset) =>
     /\ manifest # Unset
     /\ registered = manifest.registry

(* Where only teams start, some configuration can always start.            *)
RootStaysUsable ==
  Kinds = {"team"} =>
    \/ manifest = Unset
    \/ registered \in {Unset, manifest.registry} /\ limits \in {Unset, manifest.limit}

(* What the slot, the notes and the shared limits say is never taken back. *)
BindingsStay ==
  /\ manifest # Unset => manifest' = manifest
  /\ limits # Unset => limits' = limits
  /\ notes \subseteq notes'
=============================================================================
