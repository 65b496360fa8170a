------------------------------ MODULE MCTeams ------------------------------
(* What several processes agree on: approvals, which this module extends,  *)
(* the start of a team beside others and beside runs, delegation, reports  *)
(* and dependencies, and the merge of two stores or more.  A behaviour is  *)
(* of one of these parts.                                                  *)
EXTENDS Approvals, Sequences, TLC

CONSTANTS
  v1, v2, w1, w2, yes, no, maybe, p1, p2, Unset, Unbound, Absent, NoResult, None,
  root, agent, call1, nested, deep, odd, under, root2, other, x, y, near, far, st1, st2, st3, v, w

MCDecisions == {yes, no, maybe}
MCApproving == {yes, maybe}
Procs == {p1, p2}

(* A team with an agent that calls and delegates, a malformed actor below  *)
(* it, and the call of another run.                                        *)
Tree == {root, agent, call1, nested, deep, odd, under, root2, other}
ParentOf ==
  (root :> root) @@ (agent :> root) @@ (call1 :> agent) @@ (nested :> call1) @@ (deep :> nested)
  @@ (odd :> agent) @@ (under :> odd) @@ (root2 :> root2) @@ (other :> root2)
KindOf ==
  (root :> "root") @@ (agent :> "anchor") @@ (call1 :> "call") @@ (nested :> "anchor")
  @@ (deep :> "call") @@ (odd :> "malformed") @@ (under :> "call") @@ (root2 :> "root")
  @@ (other :> "call")

Branch == {root, call1}
ParentInBranch == [n \in Branch |-> IF n = call1 THEN root ELSE None]

TwoStores == {st1, st2}
ThreeStores == {st1, st2, st3}
XY == {x, y}
VW == {v, w}
OneValue == {v}

VARIABLES part, registered, limits, manifest, notes, kind, config, stage,
  starts, binding, noted, moved, marks, used, actor, tools, scopes,
  call, stored, pruned, damaged, report, own, dropped, results,
  ops, store, into, replay, sources, spools, digests, todo,
  place, existing, recorded, merges

startsVars == <<registered, limits, manifest, kind, config, starts>>
delegationsVars == <<binding, noted, moved, marks, used, actor, tools, scopes,
  call>>
reportsVars == <<stored, pruned, damaged, report, own, dropped, results, ops>>
mergesVars == <<store, into, replay, sources, spools, digests, todo, place,
  existing, recorded, merges>>
TeamsVars == <<part, vars, startsVars, notes, stage, delegationsVars, reportsVars,
  mergesVars>>

Starts == INSTANCE TeamStart WITH
  Registries <- {"A", "B"}, Limits <- {"five", "ten"}, Kinds <- {"team"}, MaxStarts <- 2, pc <- stage
MixedStarts == INSTANCE TeamStart WITH
  Registries <- {"A"}, Limits <- {"five", "ten"}, Kinds <- {"team", "run"}, MaxStarts <- 2, pc <- stage
Delegations == INSTANCE Delegation WITH
  Agents <- {"worker"}, Tools <- {"read", "write"}, Ceiling <- {"read", "write"},
  Budgets <- {"none", "five"}, NoBudget <- "none", MaxDepth <- 2, MaxSteps <- 0, MaxActors <- 2, MaxMarks <- 0
Cursors == INSTANCE Delegation WITH
  Agents <- {"worker"}, Tools <- {"read", "drop"}, Ceiling <- {"read"},
  Budgets <- {"none"}, NoBudget <- "none", MaxDepth <- 1, MaxSteps <- 1, MaxActors <- 2, MaxMarks <- 1
ToolCalls == INSTANCE Delegation WITH
  Agents <- {"worker"}, Tools <- {"read", "drop"}, Ceiling <- {"read"},
  Budgets <- {"none"}, NoBudget <- "none", MaxDepth <- 2, MaxSteps <- 1, MaxActors <- 2, MaxMarks <- 0
Reports == INSTANCE TeamAccounts WITH
  Stores <- {near}, Reported <- near, Nodes <- Tree, Parent <- ParentOf, Kind <- KindOf, Root <- root,
  Results <- {x}, Targets <- {call1}, Initially <- {root, agent, odd, root2, other}, MaxOps <- 3
Dependencies == INSTANCE TeamAccounts WITH
  Stores <- {near, far}, Reported <- near, Nodes <- Tree \ {nested, deep, odd, under}, Parent <- ParentOf, Kind <- KindOf, Root <- root,
  Results <- XY, Targets <- {call1, other}, Initially <- {root, agent, root2, other}, MaxOps <- 3
Merges == INSTANCE Merge WITH
  Stores <- TwoStores, Nodes <- Branch, Parent <- ParentInBranch, Results <- XY, Values <- VW,
  Live <- FALSE, MaxRecords <- 2, MaxMerges <- 2, MaxSources <- 2, pc <- stage, records <- recorded
MergesOfMany == INSTANCE Merge WITH
  Stores <- ThreeStores, Nodes <- Branch, Parent <- ParentInBranch, Results <- XY, Values <- {},
  Live <- FALSE, MaxRecords <- 2, MaxMerges <- 1, MaxSources <- 2, pc <- stage, records <- recorded
LiveMerges == INSTANCE Merge WITH
  Stores <- TwoStores, Nodes <- Branch, Parent <- ParentInBranch, Results <- XY, Values <- OneValue,
  Live <- TRUE, MaxRecords <- 2, MaxMerges <- 1, MaxSources <- 2, pc <- stage, records <- recorded

(* Merge proves its theorems for constants like these.                     *)
ASSUME MergesAllowed == Merges!Allowed /\ MergesOfMany!Allowed /\ LiveMerges!Allowed

Idle == "idle"

(* Of the initial states of Approvals, in the other parts one is enough.    *)
NoApproval == Init /\ choice = [r \in Reviewers |-> yes]
StartsVarsIdle ==
  /\ registered = Idle /\ limits = Idle /\ manifest = Idle /\ kind = Idle
  /\ config = Idle /\ starts = Idle
DelegationsVarsIdle ==
  /\ binding = Idle /\ noted = Idle /\ moved = Idle /\ marks = Idle /\ used = Idle /\ actor = Idle
  /\ tools = Idle /\ scopes = Idle /\ call = Idle
ReportsVarsIdle ==
  /\ stored = Idle /\ pruned = Idle /\ damaged = Idle /\ report = Idle /\ own = Idle
  /\ dropped = Idle /\ results = Idle /\ ops = Idle
MergesVarsIdle ==
  /\ store = Idle /\ into = Idle /\ replay = Idle /\ sources = Idle /\ spools = Idle
  /\ digests = Idle /\ todo = Idle /\ place = Idle /\ existing = Idle
  /\ recorded = Idle /\ merges = Idle

StartsInit ==
  /\ part = "teams" /\ Starts!Init
  /\ NoApproval /\ DelegationsVarsIdle /\ ReportsVarsIdle /\ MergesVarsIdle
StartsStep ==
  /\ part = "teams" /\ Starts!Next
  /\ UNCHANGED <<part, vars, delegationsVars, reportsVars, mergesVars>>

MixedStartsInit ==
  /\ part = "teams_and_runs" /\ MixedStarts!Init
  /\ NoApproval /\ DelegationsVarsIdle /\ ReportsVarsIdle /\ MergesVarsIdle
MixedStartsStep ==
  /\ part = "teams_and_runs" /\ MixedStarts!Next
  /\ UNCHANGED <<part, vars, delegationsVars, reportsVars, mergesVars>>

DelegationsInit ==
  /\ part = "delegation" /\ Delegations!Init
  /\ NoApproval /\ StartsVarsIdle /\ notes = Idle /\ stage = Idle /\ ReportsVarsIdle
  /\ MergesVarsIdle
DelegationsStep ==
  /\ part = "delegation" /\ Delegations!Next
  /\ UNCHANGED <<part, vars, startsVars, notes, stage, reportsVars,
                 mergesVars>>

CursorsInit ==
  /\ part = "cursors" /\ Cursors!Init
  /\ NoApproval /\ StartsVarsIdle /\ notes = Idle /\ stage = Idle /\ ReportsVarsIdle
  /\ MergesVarsIdle
CursorsStep ==
  /\ part = "cursors" /\ Cursors!Next
  /\ UNCHANGED <<part, vars, startsVars, notes, stage, reportsVars,
                 mergesVars>>

ToolCallsInit ==
  /\ part = "tool_calls" /\ ToolCalls!Init
  /\ NoApproval /\ StartsVarsIdle /\ notes = Idle /\ stage = Idle /\ ReportsVarsIdle
  /\ MergesVarsIdle
ToolCallsStep ==
  /\ part = "tool_calls" /\ ToolCalls!Next
  /\ UNCHANGED <<part, vars, startsVars, notes, stage, reportsVars,
                 mergesVars>>

ReportsInit ==
  /\ part = "reports" /\ Reports!Init
  /\ NoApproval /\ StartsVarsIdle /\ stage = Idle /\ DelegationsVarsIdle /\ MergesVarsIdle
ReportsStep ==
  /\ part = "reports" /\ Reports!Next
  /\ UNCHANGED <<part, vars, startsVars, stage, delegationsVars, mergesVars>>

DependenciesInit ==
  /\ part = "dependencies" /\ Dependencies!Init
  /\ NoApproval /\ StartsVarsIdle /\ stage = Idle /\ DelegationsVarsIdle /\ MergesVarsIdle
DependenciesStep ==
  /\ part = "dependencies" /\ Dependencies!Next
  /\ UNCHANGED <<part, vars, startsVars, stage, delegationsVars, mergesVars>>

MergesInit ==
  /\ part = "merge" /\ Merges!Init
  /\ NoApproval /\ StartsVarsIdle /\ notes = Idle /\ DelegationsVarsIdle /\ ReportsVarsIdle
MergesStep ==
  /\ part = "merge" /\ Merges!Next
  /\ UNCHANGED <<part, vars, startsVars, notes, delegationsVars, reportsVars>>

MergesOfManyInit ==
  /\ part = "merge_many" /\ MergesOfMany!Init
  /\ NoApproval /\ StartsVarsIdle /\ notes = Idle /\ DelegationsVarsIdle /\ ReportsVarsIdle
MergesOfManyStep ==
  /\ part = "merge_many" /\ MergesOfMany!Next
  /\ UNCHANGED <<part, vars, startsVars, notes, delegationsVars, reportsVars>>

LiveMergesInit ==
  /\ part = "merge_live" /\ LiveMerges!Init
  /\ NoApproval /\ StartsVarsIdle /\ notes = Idle /\ DelegationsVarsIdle /\ ReportsVarsIdle
LiveMergesStep ==
  /\ part = "merge_live" /\ LiveMerges!Next
  /\ UNCHANGED <<part, vars, startsVars, notes, delegationsVars, reportsVars>>

ApprovalsInit ==
  /\ part = "approvals" /\ Init
  /\ StartsVarsIdle /\ notes = Idle /\ stage = Idle /\ DelegationsVarsIdle /\ ReportsVarsIdle
  /\ MergesVarsIdle
ApprovalsStep ==
  /\ part = "approvals" /\ Next
  /\ UNCHANGED <<part, startsVars, notes, stage, delegationsVars, reportsVars, mergesVars>>

TeamsInit == ApprovalsInit \/ StartsInit \/ MixedStartsInit \/ DelegationsInit \/
             CursorsInit \/ ToolCallsInit \/ ReportsInit \/ DependenciesInit \/ MergesInit \/
             MergesOfManyInit \/ LiveMergesInit
TeamsNext == ApprovalsStep \/ StartsStep \/ MixedStartsStep \/ DelegationsStep \/
             CursorsStep \/ ToolCallsStep \/ ReportsStep \/ DependenciesStep \/ MergesStep \/
             MergesOfManyStep \/ LiveMergesStep

TeamsSpec == TeamsInit /\ [][TeamsNext]_TeamsVars

Symmetry == Permutations(Reviewers) \cup Permutations(Workers) \cup Permutations(Procs)

-----------------------------------------------------------------------------
(* Teams that run on one root have one configuration, that of the stored   *)
(* manifest, under one shared limit; losers of the first start leave the   *)
(* root as it is, and some configuration can always start.  A process      *)
(* works with exactly the tools and budgets recorded for its actor, which  *)
(* only narrow along the chain; no tool runs below an actor that is not    *)
(* given it at every level; what is bound stays bound, every checkpoint    *)
(* can be restored and every context handed on (Team.__init__, delegate,   *)
(* attach, Run._check_tool_authority).                                     *)
TeamsAgree ==
  /\ [](/\ part = "teams" => Starts!LosersLeaveRoot /\ Starts!RootStaysUsable /\ Starts!OneManifest
        /\ part = "teams_and_runs" => MixedStarts!OneManifest /\ MixedStarts!OneLimit
        /\ part = "delegation" => Delegations!WorksAsRecorded /\ Delegations!AuthorityNarrows
        /\ part = "cursors" => Cursors!CheckpointsRestore /\ Cursors!ContextsHold
        /\ part = "tool_calls" => ToolCalls!OnlyGrantedToolsRan)
  /\ [][/\ part = "teams_and_runs" => MixedStarts!BindingsStay
        /\ part = "delegation" => Delegations!AuthorityStays]_TeamsVars

(* A report counts each call once, for its nearest actor, and leaves out   *)
(* nothing that was there when it began; a dependency that was recorded    *)
(* stands until a collection or damage, and what a verification finds is   *)
(* what has happened to the target.                                        *)
AccountsTrue ==
  /\ part = "reports" => Reports!AttributedOnceToNearest /\ Reports!ReportCovers
  /\ part = "dependencies" => Dependencies!RecordedNotesStand /\ Dependencies!FindingsNameTheirCause

(* A merge that reports success has lost nothing of its sources, would     *)
(* change nothing if it were repeated, and as a replay has met no other    *)
(* result; no step of it, complete or abandoned, takes back what a store   *)
(* knew, and results arrive also where runs write meanwhile (merge).       *)
MergesKeep ==
  /\ [](/\ part = "merge" => Merges!RerunIsNoop /\ Merges!ReplayRejects
        /\ part = "merge_many" => MergesOfMany!MergeKeepsAll
        /\ part = "merge_live" => LiveMerges!ResultsArrive)
  /\ [][/\ part = "merge" => Merges!NothingForgotten
        /\ part = "merge_live" => LiveMerges!FirstResultStays]_TeamsVars
=============================================================================
