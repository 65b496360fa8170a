---------------------------- MODULE RegisteredCall ----------------------------
(***************************************************************************)
(* Calls of registered tools: the schemas an action may declare, whether   *)
(* arguments match them, what an audit node keeps of arguments, and the    *)
(* policies that allow, deny or ask (ActionSpec, Registry, Policy,         *)
(* Run._registered_tool_call and confirm, recording and not a dry run, of  *)
(* an action that has a handler).  AsyncRun has the same two: nothing is   *)
(* awaited between their checks and the handler, so a call is one step.    *)
(*                                                                         *)
(* A value is a record of one field that names its type; a schema has all  *)
(* the keywords, empty where it does not use one.                          *)
(***************************************************************************)
EXTENDS Integers, Sequences, SequencesExt, FiniteSets

CONSTANTS
  Schemas,    \* of the one action in the registry
  Arguments,  \* of its calls
  Policies,   \* in their order: "local" or "durable"
  Changing,   \* policies may change their minds
  MaxNodes    \* bound: nodes of the run
VARIABLES
  schema,    \* of the action
  decision,  \* what each policy now decides
  nodes,     \* the run's nodes in the order of their putting
  cursor,    \* the number of a node, 0 for the root
  pending,   \* tokens: where, and with which arguments, a call was to be confirmed
  ran        \* the handler's runs: arguments and decisions at the time (history)
vars == <<schema, decision, nodes, cursor, pending, ran>>

-----------------------------------------------------------------------------
(* Values and schemas.                                                     *)
Is(v, type) == type \in DOMAIN v
Marker(v) == [object |-> [n \in {"redacted"} |-> v]]

Bare(type) ==
  [type |-> type, sensitive |-> FALSE, enum |-> {}, bounds |-> [k \in {} |-> 0],
   properties |-> [n \in {} |-> 0], required |-> {}, closed |-> FALSE, anyOf |-> <<>>, items |-> <<>>]

(* _check_constraint: the type a bound is for, and counts are not negative.*)
BoundFor(k) ==
  IF k \in {"minimum", "maximum", "exclusiveMinimum", "exclusiveMaximum"} THEN "integer"
  ELSE IF k \in {"minLength", "maxLength"} THEN "string" ELSE "array"
ConstraintFits(s, k) == s.type = BoundFor(k) /\ (s.type # "integer" => s.bounds[k] >= 0)

(* _is_sensitive_string_schema                                             *)
MayBeSensitive(s) ==
  \/ s.type = "string"
  \/ LET types == {s.anyOf[i].type : i \in DOMAIN s.anyOf} IN "string" \in types /\ types \subseteq {"string", "null"}

RECURSIVE Checked(_)
Checked(s) ==
  /\ \A k \in DOMAIN s.bounds : ConstraintFits(s, k)
  /\ s.sensitive => MayBeSensitive(s)
  /\ \A n \in DOMAIN s.properties : Checked(s.properties[n])
  /\ \A i \in DOMAIN s.anyOf : Checked(s.anyOf[i])
  /\ \A i \in DOMAIN s.items : Checked(s.items[i])

-----------------------------------------------------------------------------
(* validate_args.  A string's length is that of its text.                  *)
Size(v) == IF Is(v, "string") THEN v.length ELSE Len(v.array)
Respects(v, k, bound) ==
  CASE k = "minimum" -> v.integer >= bound
    [] k = "maximum" -> v.integer <= bound
    [] k = "exclusiveMinimum" -> v.integer > bound
    [] k = "exclusiveMaximum" -> v.integer < bound
    [] k \in {"minLength", "minItems"} -> Size(v) >= bound
    [] k \in {"maxLength", "maxItems"} -> Size(v) <= bound

DescribesObject(s) ==
  \/ s.type = "object"
  \/ s.type = "any" /\ (DOMAIN s.properties # {} \/ s.required # {} \/ s.closed)

RECURSIVE Valid(_, _)
Valid(v, s) ==
  /\ s.type # "any" => Is(v, s.type)
  /\ s.enum # {} => v \in s.enum
  /\ s.anyOf # <<>> => \E i \in DOMAIN s.anyOf : Valid(v, s.anyOf[i])
  /\ \A k \in DOMAIN s.bounds : Is(v, BoundFor(k)) => Respects(v, k, s.bounds[k])
  /\ DescribesObject(s) =>
       /\ Is(v, "object") /\ s.required \subseteq DOMAIN v.object
       /\ \A n \in DOMAIN s.properties \cap DOMAIN v.object : Valid(v.object[n], s.properties[n])
       /\ s.closed => DOMAIN v.object \subseteq DOMAIN s.properties
  /\ s.type = "array" /\ s.items # <<>> => \A i \in DOMAIN v.array : Valid(v.array[i], s.items[1])

(* A mutant: the first alternative that matches, or all.                   *)
FirstMatch(v, s) ==
  LET matching == SelectSeq(s.anyOf, LAMBDA b : Valid(v, b)) IN IF matching # <<>> THEN <<matching[1]>> ELSE s.anyOf

(* redact_args: the alternatives that match, or all when none does, one    *)
(* after the other, and then the properties or the items.                  *)
Alternatives(v, s) ==
  LET matching == SelectSeq(s.anyOf, LAMBDA b : Valid(v, b)) IN IF matching # <<>> THEN matching ELSE s.anyOf

RECURSIVE Redacted(_, _)
Redacted(v, s) ==
  IF s.sensitive /\ Is(v, "string") THEN Marker(v)
  ELSE LET w == FoldLeft(LAMBDA x, b : Redacted(x, b), v, Alternatives(v, s)) IN
    IF Is(w, "object")
    THEN [object |-> [n \in DOMAIN w.object |->
            IF n \in DOMAIN s.properties THEN Redacted(w.object[n], s.properties[n]) ELSE w.object[n]]]
    ELSE IF Is(w, "array") /\ s.items # <<>>
    THEN [array |-> [i \in DOMAIN w.array |-> Redacted(w.array[i], s.items[1])]]
    ELSE w

-----------------------------------------------------------------------------
(* A run under its policies.                                               *)
Decisions == {"allow", "deny", "confirm"}
Node(kind, args) == [kind |-> kind, parent |-> cursor, args |-> args]
Nothing == Bare("null")
Moved == Len(nodes) + 1

PutNode(node) == nodes' = Append(nodes, node) /\ cursor' = Moved
Refuse == PutNode(Node("refusal", Nothing)) /\ UNCHANGED <<pending, ran>>

(* _call: the handler runs with the arguments, the node keeps the audit.   *)
Audit(args) == Redacted(args, schema)

Dispatch(args) ==
  /\ PutNode(Node("tool_call", Audit(args)))
  /\ ran' = Append(ran, [args |-> args, under |-> decision])

(* The durable policies first, and again when a call is confirmed; one     *)
(* that does not allow denies.  Then the others, in their order.           *)
Approved == \A i \in DOMAIN Policies : Policies[i] = "durable" => decision[i] = "allow"

Locals == SelectSeq([i \in DOMAIN Policies |-> i], LAMBDA i : Policies[i] = "local")
Verdict ==
  LET against == SelectSeq(Locals, LAMBDA i : decision[i] # "allow")
  IN IF against = <<>> THEN "allow" ELSE decision[against[1]]

Accepts(args) == Valid(args, schema)

ToolCall(args) ==
  /\ Len(nodes) < MaxNodes
  /\ IF ~Accepts(args) \/ ~Approved \/ Verdict = "deny" THEN Refuse
     ELSE IF Verdict = "confirm"
     THEN /\ pending' = pending \cup {[at |-> cursor, args |-> args]}
          /\ UNCHANGED <<nodes, cursor, ran>>
     ELSE Dispatch(args) /\ UNCHANGED pending
  /\ UNCHANGED <<schema, decision>>

(* An unknown name or version: refused, whatever its arguments.            *)
UnknownCall ==
  /\ Len(nodes) < MaxNodes /\ Refuse /\ UNCHANGED <<schema, decision>>

(* confirm: the token is gone, whatever comes of it.                       *)
StillThere(t) == t.at = cursor

Confirm(t) ==
  /\ t \in pending /\ Len(nodes) < MaxNodes
  /\ pending' = pending \ {t}
  /\ IF ~StillThere(t) THEN UNCHANGED <<nodes, cursor, ran>>
     ELSE IF ~Approved THEN PutNode(Node("refusal", Nothing)) /\ UNCHANGED ran
     ELSE Dispatch(t.args)
  /\ UNCHANGED <<schema, decision>>

Change ==
  /\ Changing /\ decision' \in [DOMAIN Policies -> Decisions]
  /\ UNCHANGED <<schema, nodes, cursor, pending, ran>>

Init ==
  /\ schema \in {s \in Schemas : Checked(s)}
  /\ decision \in [DOMAIN Policies -> Decisions]
  /\ nodes = <<>> /\ cursor = 0 /\ pending = {} /\ ran = <<>>
Next == (\E args \in Arguments : ToolCall(args)) \/ UnknownCall \/ (\E t \in pending : Confirm(t)) \/ Change
Spec == Init /\ [][Next]_vars

-----------------------------------------------------------------------------
TypeOK ==
  /\ \A i \in DOMAIN nodes : nodes[i].parent \in 0 .. i - 1 /\ nodes[i].kind \in {"refusal", "tool_call"}
  /\ cursor \in 0 .. Len(nodes)
  /\ \A t \in pending : t.at \in 0 .. Len(nodes) /\ t.args \in Arguments

(* What a schema says is sensitive in a value: the paths to it, by every   *)
(* alternative the value matches, or all of them when it matches none.     *)
Under(step, paths) == {<<step>> \o p : p \in paths}
Following(v, s) ==
  LET matching == {i \in DOMAIN s.anyOf : Valid(v, s.anyOf[i])} IN IF matching # {} THEN matching ELSE DOMAIN s.anyOf
RECURSIVE Secrets(_, _)
Secrets(v, s) ==
  (IF s.sensitive /\ Is(v, "string") THEN {<<>>} ELSE {})
  \cup UNION {Secrets(v, s.anyOf[i]) : i \in Following(v, s)}
  \cup (IF ~Is(v, "object") THEN {}
        ELSE UNION {Under([name |-> n], Secrets(v.object[n], s.properties[n])) :
                    n \in DOMAIN s.properties \cap DOMAIN v.object})
  \cup (IF ~Is(v, "array") \/ s.items = <<>> THEN {}
        ELSE UNION {Under([item |-> i], Secrets(v.array[i], s.items[1])) : i \in DOMAIN v.array})

RECURSIVE Hidden(_, _)
Hidden(v, paths) ==
  LET Below(step) == {Tail(p) : p \in {q \in paths : Head(q) = step}} IN
  IF <<>> \in paths THEN Marker(v)
  ELSE IF Is(v, "object")
  THEN [object |-> [n \in DOMAIN v.object |-> Hidden(v.object[n], Below([name |-> n]))]]
  ELSE IF Is(v, "array") THEN [array |-> [i \in DOMAIN v.array |-> Hidden(v.array[i], Below([item |-> i]))]]
  ELSE v

Calls == SelectSeq(nodes, LAMBDA n : n.kind = "tool_call")

(* "For anyOf, redaction follows every matching branch"                    *)
(* (api-reference.md): the node of every run of the handler hides all the  *)
(* schema calls sensitive in its arguments, and nothing else of them.      *)
AuditHidesSecrets ==
  Len(Calls) = Len(ran) /\ \A i \in DOMAIN ran : Calls[i].args = Hidden(ran[i].args, Secrets(ran[i].args, schema))

(* Where a registered schema calls a value sensitive, arguments that it    *)
(* accepts have a string or null there: nothing of another type, which     *)
(* redaction leaves as it is, gets into a node.                            *)
RECURSIVE SensitiveAreStrings(_, _)
SensitiveAreStrings(v, s) ==
  /\ s.sensitive => Is(v, "string") \/ Is(v, "null")
  /\ Is(v, "object") => \A n \in DOMAIN s.properties \cap DOMAIN v.object : SensitiveAreStrings(v.object[n], s.properties[n])
  /\ Is(v, "array") /\ s.items # <<>> => \A i \in DOMAIN v.array : SensitiveAreStrings(v.array[i], s.items[1])
NothingSensitiveEscapes == \A i \in DOMAIN ran : SensitiveAreStrings(ran[i].args, schema)

(* The handler is only ever given arguments of the declared form.          *)
OnlyValidRuns == \A i \in DOMAIN ran : Valid(ran[i].args, schema)

(* "The runtime checks durable approval policies before accepting an       *)
(* unrelated process-local confirmation and again before executing its     *)
(* token" (api-reference.md): whatever policies change their minds in      *)
(* between, nothing runs without the durable approval of the moment.       *)
DurablePoliciesHold ==
  \A i \in DOMAIN ran, p \in DOMAIN Policies : Policies[p] = "durable" => ran[i].under[p] = "allow"

(* "If the cursor has not moved" (api-reference.md): a token whose place   *)
(* is no longer the cursor runs nothing, and it is gone all the same.      *)
NoTokenOutlivesItsPlace == \A t \in pending : t.at # cursor /\ t \notin pending' => ran' = ran
=============================================================================
