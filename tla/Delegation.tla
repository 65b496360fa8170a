------------------------------ MODULE Delegation ------------------------------
(***************************************************************************)
(* Authority in a team: coordinators delegate to agents, agents delegate   *)
(* to further agents, contexts travel between processes as documents, and  *)
(* checkpoints bring a cursor back.                                        *)
(*                                                                         *)
(* An actor is recorded as a slot below its parent's cursor, which binds   *)
(* one note with its tools and budget.  A path names such a note: the      *)
(* agent's name at each level, and how far the parent's cursor had got.    *)
(* A document in transport is arbitrary: attach has to compare it with     *)
(* what is recorded.                                                       *)
(***************************************************************************)
EXTENDS Naturals, Sequences, FiniteSets

CONSTANTS
  Procs,       \* processes with the team's configuration
  Agents,      \* agent and task ids
  Tools,       \* registered tools
  Ceiling,     \* the team's allowed_tools
  Budgets,     \* local budgets an actor may be given
  NoBudget,    \* budget = None
  Unbound,     \* no slot is stored
  MaxDepth,    \* bound: levels of delegation
  MaxSteps,    \* bound: how far a cursor moves below its anchor
  MaxActors,   \* bound: slots that are bound
  MaxMarks     \* bound: checkpoints

Hops == [agent : Agents, step : 0 .. MaxSteps]
Paths == UNION {[1 .. n -> Hops] : n \in 0 .. MaxDepth}
Actors == Paths \ {<<>>}
Authority == [tools : SUBSET Tools, budget : Budgets]

(* A cursor: an anchor and how far calls and notes have moved below it.    *)
Cursors == [path : Paths, step : 0 .. MaxSteps]
Coordinator == [path |-> <<>>, step |-> 0]

VARIABLES
  binding,     \* actor -> the authority its slot names, or Unbound
  noted,       \* the actors whose note is stored
  moved,       \* path -> how far nodes are stored below it
  marks,       \* cursors that a checkpoint note is stored below
  used,        \* the tools that ran, and below whom (history)
  actor,       \* process -> the cursor it works at
  tools,       \* process -> allowed_tools of its identity
  scopes,      \* process -> its chain of local budgets
  call         \* process -> the delegation it has under way

record == <<binding, noted, moved, marks, used>>
process == <<actor, tools, scopes, call>>
vars == <<record, process>>

NoCall == [stage |-> "none"]
Calls == {NoCall} \cup
  [stage : {"slot", "compare", "note"}, path : Actors, authority : Authority]

TypeOK ==
  /\ binding \in [Actors -> Authority \cup {Unbound}]
  /\ noted \subseteq Actors
  /\ moved \in [Paths -> 0 .. MaxSteps]
  /\ marks \subseteq Cursors
  /\ used \subseteq [path : Paths, tool : Tools]
  /\ actor \in [Procs -> Cursors]
  /\ tools \in [Procs -> SUBSET Tools]
  /\ \A p \in Procs : scopes[p] \in Seq(Budgets) /\ call[p] \in Calls

Init ==
  /\ binding = [a \in Actors |-> Unbound]
  /\ noted = {}
  /\ moved = [a \in Paths |-> 0]
  /\ marks = {}
  /\ used = {}
  /\ actor = [p \in Procs |-> Coordinator]
  /\ tools = [p \in Procs |-> Ceiling]
  /\ scopes = [p \in Procs |-> <<>>]
  /\ call = [p \in Procs |-> NoCall]

-----------------------------------------------------------------------------
Prefix(path, n) == SubSeq(path, 1, n)
Ancestry(path) == {Prefix(path, n) : n \in 1 .. Len(path)}

(* What the recording says of an actor, from the manifest down.            *)
RecordedTools(path) == IF path = <<>> THEN Ceiling ELSE binding[path].tools
RecordedScopes(path) ==
  SelectSeq([n \in 1 .. Len(path) |-> binding[Prefix(path, n)].budget],
            LAMBDA b : b # NoBudget)

Extended(chain, budget) == IF budget = NoBudget THEN chain ELSE Append(chain, budget)

(* A mutant: only the team's ceiling is compared with.                     *)
NarrowsTeam(ceiling, asked) == asked \subseteq Ceiling

(* _attenuate: an actor asks for no more than its parent has.  None asks   *)
(* for all of it.                                                          *)
Attenuates(ceiling, asked) == asked \subseteq ceiling

-----------------------------------------------------------------------------
(* Team.attach: every note on the way to the cursor is there, is the one   *)
(* its slot names, and narrows the one above it; the document's identity   *)
(* and scopes are those that the recording yields.                         *)
ChainHolds(path) == \A a \in Ancestry(path) :
  /\ a \in noted
  /\ Attenuates(RecordedTools(Prefix(a, Len(a) - 1)), binding[a].tools)

AsRecorded(doc) ==
  /\ doc.tools = RecordedTools(doc.at.path)
  /\ doc.scopes = RecordedScopes(doc.at.path)

Attachable(doc) ==
  doc.at.path # <<>> /\ ChainHolds(doc.at.path) /\ doc.at.step <= moved[doc.at.path] /\ AsRecorded(doc)

(* TeamAgent.context, which an agent takes before it delegates or makes a  *)
(* checkpoint: its own document has to be attachable.                      *)
ContextOf(p) == [at |-> actor[p], tools |-> tools[p], scopes |-> scopes[p]]
HasContext(p) == actor[p].path # <<>> => Attachable(ContextOf(p))

-----------------------------------------------------------------------------
(* Team._delegate: the payload is formed from the parent's own authority,  *)
(* the slot is put and compared, and the note is put.                      *)
Delegate(p, agent, asked, budget) ==
  LET path == Append(actor[p].path, [agent |-> agent, step |-> actor[p].step])
  IN /\ call[p] = NoCall /\ HasContext(p)
     /\ Len(actor[p].path) < MaxDepth
     /\ Cardinality({a \in Actors \ {path} : binding[a] # Unbound}) < MaxActors
     /\ Attenuates(tools[p], asked)
     /\ call' = [call EXCEPT ![p] =
          [stage |-> "slot", path |-> path, authority |-> [tools |-> asked, budget |-> budget]]]
     /\ UNCHANGED <<record, actor, tools, scopes>>

Bound(p) ==
  IF binding[call[p].path] = Unbound THEN call[p].authority ELSE binding[call[p].path]

PutSlot(p) ==
  /\ call[p].stage = "slot"
  /\ binding' = [binding EXCEPT ![call[p].path] = Bound(p)]
  /\ call' = [call EXCEPT ![p].stage = "compare"]
  /\ UNCHANGED <<noted, moved, marks, used, actor, tools, scopes>>

WonSlot(p) == binding[call[p].path] = call[p].authority

CompareSlot(p) ==
  /\ call[p].stage = "compare"
  /\ call' = [call EXCEPT ![p] = IF WonSlot(p) THEN [@ EXCEPT !.stage = "note"] ELSE NoCall]
  /\ UNCHANGED <<record, actor, tools, scopes>>

(* The process goes on as the new actor; its own cursor is not moved, and  *)
(* it may return to it with a context of it.                               *)
PutNote(p) ==
  /\ call[p].stage = "note"
  /\ LET a == call[p].path IN
     /\ noted' = noted \cup {a}
     /\ actor' = [actor EXCEPT ![p] = [path |-> a, step |-> 0]]
     /\ tools' = [tools EXCEPT ![p] = call[p].authority.tools]
     /\ scopes' = [scopes EXCEPT ![p] = Extended(@, call[p].authority.budget)]
  /\ call' = [call EXCEPT ![p] = NoCall]
  /\ UNCHANGED <<binding, moved, marks, used>>

(* The process dies in the middle of a delegation and starts again as a    *)
(* coordinator.                                                            *)
Crash(p) ==
  /\ actor' = [actor EXCEPT ![p] = Coordinator]
  /\ tools' = [tools EXCEPT ![p] = Ceiling]
  /\ scopes' = [scopes EXCEPT ![p] = <<>>]
  /\ call' = [call EXCEPT ![p] = NoCall]
  /\ UNCHANGED record

(* A node below the cursor, which moves to it.                             *)
Below(p) ==
  /\ call[p] = NoCall
  /\ actor[p].step < MaxSteps
  /\ actor' = [actor EXCEPT ![p].step = @ + 1]
  /\ moved' = [moved EXCEPT ![actor[p].path] =
                 IF @ <= actor[p].step THEN actor[p].step + 1 ELSE @]
  /\ UNCHANGED <<binding, noted, marks, tools, scopes, call>>

(* A model call, a note, or the refusal of a tool call.                    *)
Move(p) == Below(p) /\ UNCHANGED used

(* Run._check_tool_authority: the actor's own tools, as far as they are    *)
(* the team's.                                                             *)
Permitted(p, tool) == tool \in tools[p] \cap Ceiling
ToolCall(p, tool) ==
  /\ Permitted(p, tool) /\ Below(p)
  /\ used' = used \cup {[path |-> actor[p].path, tool |-> tool]}

(* Run.rollback.  An agent's cursor stays at its anchor or below it.       *)
BelowAnchor(p) == actor[p].step > 0
Rollback(p) ==
  /\ call[p] = NoCall /\ BelowAnchor(p)
  /\ actor' = [actor EXCEPT ![p].step = @ - 1]
  /\ UNCHANGED <<record, tools, scopes, call>>

-----------------------------------------------------------------------------
Attach(p, doc) ==
  /\ call[p] = NoCall /\ Attachable(doc)
  /\ actor' = [actor EXCEPT ![p] = doc.at]
  /\ tools' = [tools EXCEPT ![p] = doc.tools]
  /\ scopes' = [scopes EXCEPT ![p] = doc.scopes]
  /\ UNCHANGED <<record, call>>

(* TeamAgent.checkpoint: a side note at the cursor.                        *)
Checkpoint(p) ==
  /\ call[p] = NoCall /\ actor[p].path # <<>> /\ HasContext(p)
  /\ Cardinality(marks) < MaxMarks
  /\ marks' = marks \cup {actor[p]}
  /\ UNCHANGED <<binding, noted, moved, used, process>>

(* Team.restore: the checkpoint's note is stored, and so is all it needs.  *)
Restore(p, doc) == doc.at \in marks /\ Attach(p, doc)

Chains == UNION {[1 .. n -> Budgets \ {NoBudget}] : n \in 0 .. MaxDepth}
Documents == [at : Cursors, tools : SUBSET Tools, scopes : Chains]

Next == \E p \in Procs :
  \/ \E agent \in Agents, asked \in SUBSET Tools, budget \in Budgets :
       Delegate(p, agent, asked, budget)
  \/ PutSlot(p) \/ CompareSlot(p) \/ PutNote(p)
  \/ Crash(p) \/ Move(p) \/ Rollback(p) \/ Checkpoint(p)
  \/ \E tool \in Tools : ToolCall(p, tool)
  \/ \E doc \in Documents : Attach(p, doc) \/ Restore(p, doc)

Spec == Init /\ [][Next]_vars

-----------------------------------------------------------------------------
(* A process works with exactly the authority that is recorded for its     *)
(* actor: whoever delegated, raced for the slot, or wrote the document it  *)
(* attached, and whatever it was as another actor before (Team.attach).    *)
WorksAsRecorded == \A p \in Procs :
  actor[p].path # <<>> =>
    /\ tools[p] = RecordedTools(actor[p].path)
    /\ scopes[p] = RecordedScopes(actor[p].path)

(* Along every recorded chain tools only narrow and budgets only add, and  *)
(* nobody has a tool above the team's ceiling (_attenuate).                *)
AuthorityNarrows == \A a \in noted :
  /\ Ancestry(a) \subseteq noted
  /\ \A n \in 1 .. Len(a) :
       binding[Prefix(a, n)].tools \subseteq RecordedTools(Prefix(a, n - 1))

(* No tool ever ran below an actor whom the recording does not give it at  *)
(* every level, from the team's ceiling down.                              *)
OnlyGrantedToolsRan == \A u \in used :
  \A n \in 0 .. Len(u.path) : u.tool \in RecordedTools(Prefix(u.path, n))

(* An agent can always hand on its own context: it never fails to attach   *)
(* what it works with, whoever else delegates below it or dies.            *)
ContextsHold == \A p \in Procs : HasContext(p)

(* Every checkpoint can be restored from its document, now and later.      *)
CheckpointsRestore == \A c \in marks :
  ChainHolds(c.path) /\ c.step <= moved[c.path]

(* What is bound stays bound, and notes stay.                              *)
AuthorityStays ==
  /\ noted \subseteq noted'
  /\ \A a \in Actors : binding[a] # Unbound => binding'[a] = binding[a]
=============================================================================
