--------------------------- MODULE SchemaReferences ---------------------------
(***************************************************************************)
(* The schema of an action, when it is constructed: whether it has local   *)
(* references, and the finite tree they expand to (schema.py, called by    *)
(* ActionSpec.__post_init__).                                              *)
(*                                                                         *)
(* A JSON value is a Dict, a List or a Leaf; a reference is the sequence of *)
(* tokens of its pointer, or Malformed (external, or with a bad escape).   *)
(***************************************************************************)
EXTENDS Integers, Sequences, SequencesExt, TLC

CONSTANTS
  Schemas,  \* the schemas actions are constructed with
  Escapes,  \* token with ~0 or ~1 -> the key it names
  IndexOf   \* decimal token -> index
VARIABLES given, schema
vars == <<given, schema>>

Leaf(of) == [is |-> "leaf", of |-> of]
Dict(of) == [is |-> "dict", of |-> of]
List(of) == [is |-> "list", of |-> of]
To(tokens) == [is |-> "pointer", of |-> tokens]
Malformed == [is |-> "malformed"]
Refused == [is |-> "refused"]
Pending == [is |-> "pending"]

Containers == {"$defs", "definitions"}
Annotations == {"default", "description", "sensitive", "title"}
IsDict(v) == v.is = "dict"
Has(v, name) == IsDict(v) /\ name \in DOMAIN v.of
HasDict(v, name) == Has(v, name) /\ IsDict(v.of[name])
HasList(v, name) == Has(v, name) /\ v.of[name].is = "list"

DictOf(f) == IF \E k \in DOMAIN f : f[k].is = "refused" THEN Refused ELSE Dict(f)
ListOf(s) == IF \E i \in DOMAIN s : s[i].is = "refused" THEN Refused ELSE List(s)

-----------------------------------------------------------------------------
(* A pointer, from the root, one token after the other.                    *)
Name(token) == IF token \in DOMAIN Escapes THEN Escapes[token] ELSE token

Item(token) == IndexOf[token] + 1

Descend(v, token) ==
  IF Has(v, Name(token)) THEN v.of[Name(token)]
  ELSE IF v.is = "list" /\ token \in DOMAIN IndexOf /\ Item(token) \in DOMAIN v.of THEN v.of[Item(token)]
  ELSE Refused
Target(root, tokens) == FoldLeft(Descend, root, tokens)

(* resolve_local_refs: a reference is replaced by what it refers to with   *)
(* the annotations beside it.  "active" are the pointers being expanded.   *)
Cyclic(pointer, active) == pointer \in active

Combined(beside, target) == beside @@ target

RECURSIVE Resolve(_, _, _)
Expand(root, v, active) ==
  LET reference == v.of["$ref"]
      beside == DOMAIN v.of \ (Containers \cup {"$ref"}) IN
  IF reference.is # "pointer" \/ ~(beside \subseteq Annotations) THEN Refused
  ELSE IF Cyclic(reference.of, active) THEN Refused
  ELSE LET target == Resolve(root, Target(root, reference.of), active \cup {reference.of}) IN
       IF ~IsDict(target) THEN Refused
       ELSE DictOf(Combined([k \in beside |-> Resolve(root, v.of[k], active)], target.of))

Child(root, v, name, active) ==
  LET child == v.of[name] IN
  IF name = "properties" /\ IsDict(child)
    THEN DictOf([p \in DOMAIN child.of |-> Resolve(root, child.of[p], active)])
  ELSE IF name = "anyOf" /\ child.is = "list"
    THEN ListOf([i \in DOMAIN child.of |-> Resolve(root, child.of[i], active)])
  ELSE IF name = "items" THEN Resolve(root, child, active)
  ELSE child
Resolve(root, v, active) ==
  IF ~IsDict(v) THEN v
  ELSE IF "$ref" \in DOMAIN v.of THEN Expand(root, v, active)
  ELSE DictOf([name \in DOMAIN v.of \ Containers |-> Child(root, v, name, active)])

(* schema_has_local_refs: the schemas of a schema.                         *)
Under(v, name) ==
  CASE name = "properties" /\ HasDict(v, name) -> {v.of[name].of[p] : p \in DOMAIN v.of[name].of}
    [] name = "anyOf" /\ HasList(v, name) -> ToSet(v.of[name].of)
    [] name = "items" /\ Has(v, name) -> {v.of[name]}
    [] OTHER -> {}
Within(v) == Under(v, "properties") \cup Under(v, "anyOf") \cup Under(v, "items")

RECURSIVE HasLocalRefs(_)
HasLocalRefs(v) ==
  \/ IsDict(v) /\ DOMAIN v.of \cap (Containers \cup {"$ref"}) # {}
  \/ \E w \in Within(v) : HasLocalRefs(w)

Init == given \in Schemas /\ schema = Pending
Construct ==
  /\ schema = Pending
  /\ schema' = IF HasLocalRefs(given) THEN Resolve(given, given, {}) ELSE given
  /\ UNCHANGED given
Next == Construct
Spec == Init /\ [][Next]_vars

-----------------------------------------------------------------------------
(* What the document means, by its positions: where a schema's own schemas *)
(* are, and where its reference leads, if anywhere.                        *)
Positions(v) ==
  (IF HasDict(v, "properties") THEN {<<"properties", p>> : p \in DOMAIN v.of["properties"].of} ELSE {})
  \cup (IF HasList(v, "anyOf") THEN {<<"anyOf", i>> : i \in {j \in {"0", "1"} : IndexOf[j] < Len(v.of["anyOf"].of)}} ELSE {})
  \cup (IF Has(v, "items") THEN {<<"items">>} ELSE {})
At(v, position) == FoldLeft(LAMBDA w, s : IF w.is = "list" THEN w.of[IndexOf[s] + 1] ELSE w.of[s], v, position)
Place(v, tokens) == FoldLeft(LAMBDA p, s :
  Append(p, IF At(v, p).is = "list" THEN ToString(IndexOf[s]) ELSE Name(s)), <<>>, tokens)
IsReference(v) == Has(v, "$ref")
Leads(v) == IsReference(v) /\ v.of["$ref"].is = "pointer" /\ Target(given, v.of["$ref"].of).is # "refused"
NextFrom(p) ==
  LET v == At(given, p) IN
  IF Leads(v) THEN {Place(given, v.of["$ref"].of)}
  ELSE IF IsReference(v) THEN {} ELSE {p \o step : step \in Positions(v)}
RECURSIVE Closure(_)
Closure(ps) ==
  LET more == ps \cup UNION {NextFrom(p) : p \in ps} IN IF more = ps THEN ps ELSE Closure(more)
Reached == Closure({<<>>})
OnCycle(p) == p \in Closure(NextFrom(p))
Sound(p) ==
  LET v == At(given, p) IN
  IsReference(v) =>
    /\ DOMAIN v.of \subseteq Annotations \cup Containers \cup {"$ref"}
    /\ Leads(v) /\ IsDict(At(given, Place(given, v.of["$ref"].of)))

(* "Missing, external, and cyclic references raise UnsupportedSchema"      *)
(* (api-reference.md), and nothing else does: a definition used twice, one *)
(* that is cyclic but unused, a reference to the middle of the document.   *)
RefusesExactly ==
  schema # Pending =>
    ((schema = Refused) <=> \E p \in Reached : OnCycle(p) \/ ~Sound(p))

(* What is constructed refers to nothing, whether it was found to need     *)
(* resolving or not.                                                       *)
RECURSIVE Free(_)
Free(v) == ~(IsDict(v) /\ DOMAIN v.of \cap (Containers \cup {"$ref"}) # {}) /\ \A w \in Within(v) : Free(w)
NoReferenceLeft == IsDict(schema) => Free(schema)

(* ... and means what the document means: at every position the type and   *)
(* the schemas found by following references, under the nearest title.     *)
RECURSIVE Chain(_)
Chain(p) == IF Leads(At(given, p)) THEN <<p>> \o Chain(Place(given, At(given, p).of["$ref"].of)) ELSE <<p>>
Nearest(chain, note) == SelectSeq(chain, LAMBDA p : Has(At(given, p), note))
SameNote(v, chain, note) ==
  LET noted == Nearest(chain, note) IN
  IF noted = <<>> THEN ~Has(v, note) ELSE Has(v, note) /\ v.of[note] = At(given, noted[1]).of[note]
RECURSIVE Means(_, _)
Means(v, p) ==
  LET chain == Chain(p) end == At(given, Last(chain)) IN
  IF ~IsDict(end) THEN v = end
  ELSE /\ Positions(v) = Positions(end)
       /\ SameNote(v, chain, "type") /\ SameNote(v, chain, "title")
       /\ \A step \in Positions(end) : Means(At(v, step), Last(chain) \o step)
SameMeaning == IsDict(schema) => Means(schema, <<>>)
=============================================================================
