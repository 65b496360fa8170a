------------------------------ MODULE MCCalls ------------------------------
(* What happens around one call: record, hybrid and replay mode, the       *)
(* revalidation of a recorded branch, registered tools with their schemas  *)
(* and policies, coroutines, measurements, streams, usage, and the process *)
(* of a Codex call.  A behaviour is of one of these parts.                 *)
EXTENDS Integers, Sequences, SequencesExt, TLC

CONSTANTS
  r1, r2, call, send, drop, x, y, None, Absent, w1, w2, o1, same, alike, other,
  t1, t2, t3, Unreported, l1, l2, p1, p2,
  Registrable, Arguments,      \* schemas of an action, arguments of its calls
  SecretPair, TwoArguments,    \* the same, to be used with policies
  Referring                    \* schemas with references

Conf(m, g, d) == [mode |-> m, guarded |-> g, dry |-> d]
OneAtATime == {Conf("record", TRUE, FALSE), Conf("hybrid", FALSE, FALSE), Conf("replay", FALSE, FALSE)}
Together == {Conf("record", FALSE, FALSE), Conf("record", FALSE, TRUE), Conf("hybrid", FALSE, FALSE),
             Conf("replay", FALSE, FALSE)}

(* Two results that mean the same, and a branch of two nodes.              *)
Meanings == (same :> 1) @@ (alike :> 1) @@ (other :> 2)

(* Three coroutines of one or two calls with the same payloads: two on     *)
(* branches of their own and the third on the run, or three on branches.   *)
Tasks == {t1, t2, t3}
ScriptOf == [t \in Tasks |-> IF t = t3 THEN <<"a">> ELSE <<"a", "b">>]
OneOnTheRun == [t \in Tasks |-> IF t = t1 THEN 1 ELSE IF t = t2 THEN 2 ELSE 0]
Apart == [t \in Tasks |-> IF t = t1 THEN 1 ELSE IF t = t2 THEN 2 ELSE 3]

(* Prices that tell the categories apart.                                  *)
PriceOf == [c \in {"input_tokens", "cache_read_tokens", "cache_write_tokens", "output_tokens", "reasoning_tokens"} |->
  CASE c = "input_tokens" -> 5 [] c = "cache_read_tokens" -> 1 [] c = "cache_write_tokens" -> 7
    [] OTHER -> 11]

KeyOfToken == [t \in {"a~1b"} |-> "a/b"]
IndexOfToken == [t \in {"0", "00", "1"} |-> IF t = "1" THEN 1 ELSE 0]

VARIABLES part, store, config, cursor, pending, pc, target, seen, got, ran,
  asked, called, settled, hits, ops, starts, live,
  notes, told, unknown, at, branch, off, work, lost, reports, orphans,
  tries, faults, schema, decision, nodes, mode, main, done,
  held, began, before, failures, entered, mine, exits, sent,
  usage, answered, errors, cleanup, tree, raised, adrift, calls,
  heap, result, chunks, emitted, holds, node, replayed,
  estimates, provider, reported, charges, limits, api, answer, block,
  open, state, deltas, sound, given, process, pipe, stdin,
  wrote, thread, chunk, writer, queue, closed, sizes, parsed,
  late, error

trees == <<store, pc, got>>
sequentialVars == <<config, target, seen, asked, called, hits, ops,
  starts>>
cursors == <<cursor, pending, ran>>
revalidationsVars == <<live, notes, told, off, work, lost, reports, orphans, tries>>
unknownGroup == <<unknown, faults>>
registeredVars == <<decision, nodes>>
coroutinesVars == <<mode, done, began, before, failures>>
measurementsVars == <<entered, mine, exits, answered, errors, cleanup, tree,
  adrift, calls>>
streamsVars == <<heap, chunks, emitted, holds, node, replayed>>
usageVars == <<estimates, provider, reported, charges, limits>>
eventsVars == <<api, answer, block, open, state, deltas, sound>>
processVars == <<process, pipe, stdin, wrote, thread, chunk, writer, queue,
  closed, sizes, parsed, late, error>>
CallsVars == <<part, trees, sequentialVars, cursors, settled,
  revalidationsVars, unknownGroup, at, branch, schema,
  registeredVars, coroutinesVars, main, held, measurementsVars,
  sent, usage, raised, streamsVars, result, usageVars,
  eventsVars, given, processVars>>

Sequential == INSTANCE RecordedCalls WITH
  Runs <- {r1}, Calls <- {call, send, drop}, NeedsConfirm <- {send}, Denied <- {drop}, Results <- {x, y},
  Configs <- OneAtATime, MaxDepth <- 2, MaxOps <- 4, MaxStarts <- 2
Racing == INSTANCE RecordedCalls WITH
  Runs <- {r1, r2}, Calls <- {call, send}, NeedsConfirm <- {send}, Denied <- {}, Results <- {x, y},
  Configs <- Together, MaxDepth <- 1, MaxOps <- 4, MaxStarts <- 1
Revalidations == INSTANCE Revalidation WITH
  Workers <- {w1, w2}, Observations <- {o1}, Results <- {same, alike, other}, Means <- Meanings,
  Golden <- <<same, other>>, Guarded <- {w2}, MaxTries <- 4, MaxFaults <- 1
Registered == INSTANCE RegisteredCall WITH
  Schemas <- Registrable, Policies <- <<>>, Changing <- FALSE, MaxNodes <- 1
Guarded == INSTANCE RegisteredCall WITH
  Schemas <- SecretPair, Arguments <- TwoArguments, Policies <- <<"local", "durable", "local">>,
  Changing <- TRUE, MaxNodes <- 3
Coroutines == INSTANCE AsyncRuns WITH
  Scripts <- ScriptOf, Attempts <- OneOnTheRun, RunLimit <- 4, TaskLimit <- 2, Interrupts <- 1
Replays == INSTANCE AsyncRuns WITH
  Scripts <- ScriptOf, Attempts <- Apart, RunLimit <- 4, TaskLimit <- 2, Interrupts <- 1
Measurements == INSTANCE MeasuredCall WITH
  Measured <- 2, Estimate <- 2, Usages <- {0, 3}, Budget <- 6, MaxCalls <- 3, MaxFaults <- 3
Streams == INSTANCE StreamedCall WITH
  Letters <- {l1, l2}, MaxChunks <- 3, Keep <- TRUE
Usage == INSTANCE UsageAccounting WITH
  Providers <- {"responses", "chat", "anthropic", "bedrock", "codex", "direct"}, Amounts <- {-1, 0, 1, 3},
  Estimates <- {3}, Reserved <- 1, Requested <- 3, Prices <- PriceOf,
  Enforce <- TRUE, Profile <- [context |-> 6, output |-> 3]
Events == INSTANCE ProviderStreams WITH
  Apis <- {"chat", "responses", "messages", "converse"}, Pieces <- {p1, p2},
  MaxTexts <- 2, MaxCalls <- 2, MaxParts <- 2
References == INSTANCE SchemaReferences WITH
  Schemas <- Referring, Escapes <- KeyOfToken, IndexOf <- IndexOfToken
Process == INSTANCE CodexProcess WITH
  Texts <- {"t"}, MaxEvents <- 3, MaxErrors <- 0, PipeSize <- 1, QueueSize <- 1, Limit <- 3, Prompt <- 1,
  Faults <- TRUE
Pipes == INSTANCE CodexProcess WITH
  Texts <- {"t"}, MaxEvents <- 4, MaxErrors <- 2, PipeSize <- 1, QueueSize <- 1, Limit <- 3, Prompt <- 1,
  Faults <- FALSE
(* GovernedCallProofs and CallProofs prove their theorems about calls for  *)
(* constants like these: a record tells its results from none, a meter a   *)
(* reported number from none, a pipe a text from its end.                  *)
ASSUME RecordsAllowed ==
  /\ None \notin {x, y}
  /\ Absent \notin Sequential!Nodes \cup Racing!Nodes
ASSUME MeasurementsAllowed == Unreported \notin {0, 3}
ASSUME PipesAllowed == {"t"} \cap {"closed", "io_error"} = {}

Idle == "idle"
TreesIdle == store = Idle /\ pc = Idle /\ got = Idle
SequentialVarsIdle ==
  /\ config = Idle /\ target = Idle /\ seen = Idle /\ asked = Idle /\ called = Idle
  /\ hits = Idle /\ ops = Idle /\ starts = Idle
CursorsIdle == cursor = Idle /\ pending = Idle /\ ran = Idle
RevalidationsVarsIdle ==
  /\ live = Idle /\ notes = Idle /\ told = Idle /\ off = Idle /\ work = Idle /\ lost = Idle
  /\ reports = Idle /\ orphans = Idle /\ tries = Idle
UnknownGroupIdle == unknown = Idle /\ faults = Idle
RegisteredVarsIdle == decision = Idle /\ nodes = Idle
CoroutinesVarsIdle ==
  /\ mode = Idle /\ done = Idle /\ began = Idle /\ before = Idle /\ failures = Idle
MeasurementsVarsIdle ==
  /\ entered = Idle /\ mine = Idle /\ exits = Idle /\ answered = Idle
  /\ errors = Idle /\ cleanup = Idle /\ tree = Idle /\ adrift = Idle /\ calls = Idle
StreamsVarsIdle ==
  /\ heap = Idle /\ chunks = Idle /\ emitted = Idle /\ holds = Idle /\ node = Idle
  /\ replayed = Idle
UsageVarsIdle ==
  /\ estimates = Idle /\ provider = Idle /\ reported = Idle /\ charges = Idle
  /\ limits = Idle
EventsVarsIdle ==
  /\ api = Idle /\ answer = Idle /\ block = Idle /\ open = Idle /\ state = Idle
  /\ deltas = Idle /\ sound = Idle
ProcessVarsIdle ==
  /\ process = Idle /\ pipe = Idle /\ stdin = Idle /\ wrote = Idle /\ thread = Idle
  /\ chunk = Idle /\ writer = Idle /\ queue = Idle /\ closed = Idle /\ sizes = Idle
  /\ parsed = Idle /\ late = Idle /\ error = Idle

SequentialInit ==
  /\ part = "recorded" /\ Sequential!Init
  /\ RevalidationsVarsIdle /\ UnknownGroupIdle /\ at = Idle /\ branch = Idle
  /\ schema = Idle /\ RegisteredVarsIdle /\ CoroutinesVarsIdle /\ main = Idle
  /\ held = Idle /\ MeasurementsVarsIdle /\ sent = Idle /\ usage = Idle
  /\ raised = Idle /\ StreamsVarsIdle /\ result = Idle /\ UsageVarsIdle
  /\ EventsVarsIdle /\ given = Idle /\ ProcessVarsIdle
SequentialStep ==
  /\ part = "recorded" /\ Sequential!Next
  /\ UNCHANGED <<part, revalidationsVars, unknownGroup, at, branch, schema,
                 registeredVars, coroutinesVars, main, held, measurementsVars,
                 sent, usage, raised, streamsVars, result, usageVars,
                 eventsVars, given, processVars>>

RacingInit ==
  /\ part = "races" /\ Racing!Init
  /\ RevalidationsVarsIdle /\ UnknownGroupIdle /\ at = Idle /\ branch = Idle
  /\ schema = Idle /\ RegisteredVarsIdle /\ CoroutinesVarsIdle /\ main = Idle
  /\ held = Idle /\ MeasurementsVarsIdle /\ sent = Idle /\ usage = Idle
  /\ raised = Idle /\ StreamsVarsIdle /\ result = Idle /\ UsageVarsIdle
  /\ EventsVarsIdle /\ given = Idle /\ ProcessVarsIdle
RacingStep ==
  /\ part = "races" /\ Racing!Next
  /\ UNCHANGED <<part, revalidationsVars, unknownGroup, at, branch, schema,
                 registeredVars, coroutinesVars, main, held, measurementsVars,
                 sent, usage, raised, streamsVars, result, usageVars,
                 eventsVars, given, processVars>>

RevalidationsInit ==
  /\ part = "revalidation" /\ Revalidations!Init
  /\ TreesIdle /\ SequentialVarsIdle /\ CursorsIdle /\ settled = Idle /\ unknown = Idle
  /\ schema = Idle /\ RegisteredVarsIdle /\ CoroutinesVarsIdle /\ main = Idle
  /\ held = Idle /\ MeasurementsVarsIdle /\ sent = Idle /\ usage = Idle
  /\ raised = Idle /\ StreamsVarsIdle /\ result = Idle /\ UsageVarsIdle
  /\ EventsVarsIdle /\ given = Idle /\ ProcessVarsIdle
RevalidationsStep ==
  /\ part = "revalidation" /\ Revalidations!Next
  /\ UNCHANGED <<part, trees, sequentialVars, cursors, settled, unknown, schema,
                 registeredVars, coroutinesVars, main, held, measurementsVars,
                 sent, usage, raised, streamsVars, result, usageVars,
                 eventsVars, given, processVars>>

RegisteredInit ==
  /\ part = "schemas" /\ Registered!Init
  /\ TreesIdle /\ SequentialVarsIdle /\ settled = Idle /\ RevalidationsVarsIdle
  /\ UnknownGroupIdle /\ at = Idle /\ branch = Idle /\ CoroutinesVarsIdle
  /\ main = Idle /\ held = Idle /\ MeasurementsVarsIdle /\ sent = Idle
  /\ usage = Idle /\ raised = Idle /\ StreamsVarsIdle /\ result = Idle
  /\ UsageVarsIdle /\ EventsVarsIdle /\ given = Idle /\ ProcessVarsIdle
RegisteredStep ==
  /\ part = "schemas" /\ Registered!Next
  /\ UNCHANGED <<part, trees, sequentialVars, settled, revalidationsVars,
                 unknownGroup, at, branch, coroutinesVars, main, held,
                 measurementsVars, sent, usage, raised, streamsVars, result,
                 usageVars, eventsVars, given, processVars>>

GuardedInit ==
  /\ part = "policies" /\ Guarded!Init
  /\ TreesIdle /\ SequentialVarsIdle /\ settled = Idle /\ RevalidationsVarsIdle
  /\ UnknownGroupIdle /\ at = Idle /\ branch = Idle /\ CoroutinesVarsIdle
  /\ main = Idle /\ held = Idle /\ MeasurementsVarsIdle /\ sent = Idle
  /\ usage = Idle /\ raised = Idle /\ StreamsVarsIdle /\ result = Idle
  /\ UsageVarsIdle /\ EventsVarsIdle /\ given = Idle /\ ProcessVarsIdle
GuardedStep ==
  /\ part = "policies" /\ Guarded!Next
  /\ UNCHANGED <<part, trees, sequentialVars, settled, revalidationsVars,
                 unknownGroup, at, branch, coroutinesVars, main, held,
                 measurementsVars, sent, usage, raised, streamsVars, result,
                 usageVars, eventsVars, given, processVars>>

CoroutinesInit ==
  /\ part = "coroutines" /\ Coroutines!Init
  /\ SequentialVarsIdle /\ CursorsIdle /\ RevalidationsVarsIdle /\ UnknownGroupIdle
  /\ at = Idle /\ schema = Idle /\ RegisteredVarsIdle /\ MeasurementsVarsIdle
  /\ sent = Idle /\ usage = Idle /\ raised = Idle /\ StreamsVarsIdle /\ result = Idle
  /\ UsageVarsIdle /\ EventsVarsIdle /\ given = Idle /\ ProcessVarsIdle
CoroutinesStep ==
  /\ part = "coroutines" /\ Coroutines!Next
  /\ UNCHANGED <<part, sequentialVars, cursors, revalidationsVars,
                 unknownGroup, at, schema, registeredVars, measurementsVars,
                 sent, usage, raised, streamsVars, result, usageVars,
                 eventsVars, given, processVars>>

ReplaysInit ==
  /\ part = "async_replay" /\ Replays!Init
  /\ SequentialVarsIdle /\ CursorsIdle /\ RevalidationsVarsIdle /\ UnknownGroupIdle
  /\ at = Idle /\ schema = Idle /\ RegisteredVarsIdle /\ MeasurementsVarsIdle
  /\ sent = Idle /\ usage = Idle /\ raised = Idle /\ StreamsVarsIdle /\ result = Idle
  /\ UsageVarsIdle /\ EventsVarsIdle /\ given = Idle /\ ProcessVarsIdle
ReplaysStep ==
  /\ part = "async_replay" /\ Replays!Next
  /\ UNCHANGED <<part, sequentialVars, cursors, revalidationsVars,
                 unknownGroup, at, schema, registeredVars, measurementsVars,
                 sent, usage, raised, streamsVars, result, usageVars,
                 eventsVars, given, processVars>>

MeasurementsInit ==
  /\ part = "measured" /\ Measurements!Init
  /\ TreesIdle /\ SequentialVarsIdle /\ CursorsIdle /\ RevalidationsVarsIdle
  /\ branch = Idle /\ schema = Idle /\ RegisteredVarsIdle /\ CoroutinesVarsIdle
  /\ main = Idle /\ StreamsVarsIdle /\ result = Idle /\ UsageVarsIdle
  /\ EventsVarsIdle /\ given = Idle /\ ProcessVarsIdle
MeasurementsStep ==
  /\ part = "measured" /\ Measurements!Next
  /\ UNCHANGED <<part, trees, sequentialVars, cursors, revalidationsVars,
                 branch, schema, registeredVars, coroutinesVars, main,
                 streamsVars, result, usageVars, eventsVars, given,
                 processVars>>

StreamsInit ==
  /\ part = "streamed" /\ Streams!Init
  /\ TreesIdle /\ SequentialVarsIdle /\ CursorsIdle /\ settled = Idle
  /\ RevalidationsVarsIdle /\ UnknownGroupIdle /\ branch = Idle /\ schema = Idle
  /\ RegisteredVarsIdle /\ CoroutinesVarsIdle /\ main = Idle /\ held = Idle
  /\ MeasurementsVarsIdle /\ usage = Idle /\ raised = Idle /\ UsageVarsIdle
  /\ EventsVarsIdle /\ given = Idle /\ ProcessVarsIdle
StreamsStep ==
  /\ part = "streamed" /\ Streams!Next
  /\ UNCHANGED <<part, trees, sequentialVars, cursors, settled,
                 revalidationsVars, unknownGroup, branch, schema,
                 registeredVars, coroutinesVars, main, held, measurementsVars,
                 usage, raised, usageVars, eventsVars, given, processVars>>

UsageInit ==
  /\ part = "usage" /\ Usage!Init
  /\ TreesIdle /\ SequentialVarsIdle /\ CursorsIdle /\ settled = Idle
  /\ RevalidationsVarsIdle /\ UnknownGroupIdle /\ branch = Idle /\ schema = Idle
  /\ RegisteredVarsIdle /\ CoroutinesVarsIdle /\ main = Idle /\ held = Idle
  /\ MeasurementsVarsIdle /\ sent = Idle /\ raised = Idle /\ StreamsVarsIdle
  /\ result = Idle /\ EventsVarsIdle /\ given = Idle /\ ProcessVarsIdle
UsageStep ==
  /\ part = "usage" /\ Usage!Next
  /\ UNCHANGED <<part, trees, sequentialVars, cursors, settled,
                 revalidationsVars, unknownGroup, branch, schema,
                 registeredVars, coroutinesVars, main, held, measurementsVars,
                 sent, raised, streamsVars, result, eventsVars, given,
                 processVars>>

EventsInit ==
  /\ part = "events" /\ Events!Init
  /\ TreesIdle /\ SequentialVarsIdle /\ CursorsIdle /\ settled = Idle
  /\ RevalidationsVarsIdle /\ UnknownGroupIdle /\ branch = Idle /\ schema = Idle
  /\ RegisteredVarsIdle /\ CoroutinesVarsIdle /\ main = Idle /\ held = Idle
  /\ MeasurementsVarsIdle /\ sent = Idle /\ usage = Idle /\ StreamsVarsIdle
  /\ UsageVarsIdle /\ given = Idle /\ ProcessVarsIdle
EventsStep ==
  /\ part = "events" /\ Events!Next
  /\ UNCHANGED <<part, trees, sequentialVars, cursors, settled,
                 revalidationsVars, unknownGroup, branch, schema,
                 registeredVars, coroutinesVars, main, held, measurementsVars,
                 sent, usage, streamsVars, usageVars, given, processVars>>

ReferencesInit ==
  /\ part = "references" /\ References!Init
  /\ TreesIdle /\ SequentialVarsIdle /\ CursorsIdle /\ settled = Idle
  /\ RevalidationsVarsIdle /\ UnknownGroupIdle /\ at = Idle /\ branch = Idle
  /\ RegisteredVarsIdle /\ CoroutinesVarsIdle /\ main = Idle /\ held = Idle
  /\ MeasurementsVarsIdle /\ sent = Idle /\ usage = Idle /\ raised = Idle
  /\ StreamsVarsIdle /\ result = Idle /\ UsageVarsIdle /\ EventsVarsIdle
  /\ ProcessVarsIdle
ReferencesStep ==
  /\ part = "references" /\ References!Next
  /\ UNCHANGED <<part, trees, sequentialVars, cursors, settled,
                 revalidationsVars, unknownGroup, at, branch, registeredVars,
                 coroutinesVars, main, held, measurementsVars, sent, usage,
                 raised, streamsVars, result, usageVars, eventsVars,
                 processVars>>

ProcessInit ==
  /\ part = "process" /\ Process!Init
  /\ TreesIdle /\ SequentialVarsIdle /\ CursorsIdle /\ settled = Idle
  /\ RevalidationsVarsIdle /\ UnknownGroupIdle /\ at = Idle /\ branch = Idle
  /\ schema = Idle /\ RegisteredVarsIdle /\ CoroutinesVarsIdle
  /\ MeasurementsVarsIdle /\ sent = Idle /\ usage = Idle /\ raised = Idle
  /\ StreamsVarsIdle /\ UsageVarsIdle /\ EventsVarsIdle /\ given = Idle
ProcessStep ==
  /\ part = "process" /\ Process!Next
  /\ UNCHANGED <<part, trees, sequentialVars, cursors, settled,
                 revalidationsVars, unknownGroup, at, branch, schema,
                 registeredVars, coroutinesVars, measurementsVars, sent,
                 usage, raised, streamsVars, usageVars, eventsVars, given>>

PipesInit ==
  /\ part = "pipes" /\ Pipes!Init
  /\ TreesIdle /\ SequentialVarsIdle /\ CursorsIdle /\ settled = Idle
  /\ RevalidationsVarsIdle /\ UnknownGroupIdle /\ at = Idle /\ branch = Idle
  /\ schema = Idle /\ RegisteredVarsIdle /\ CoroutinesVarsIdle
  /\ MeasurementsVarsIdle /\ sent = Idle /\ usage = Idle /\ raised = Idle
  /\ StreamsVarsIdle /\ UsageVarsIdle /\ EventsVarsIdle /\ given = Idle
PipesStep ==
  /\ part = "pipes" /\ Pipes!NextUntimed
  /\ UNCHANGED <<part, trees, sequentialVars, cursors, settled,
                 revalidationsVars, unknownGroup, at, branch, schema,
                 registeredVars, coroutinesVars, measurementsVars, sent,
                 usage, raised, streamsVars, usageVars, eventsVars, given>>

CallsInit == SequentialInit \/ RacingInit \/ RevalidationsInit \/
             RegisteredInit \/ GuardedInit \/ CoroutinesInit \/ ReplaysInit \/
             MeasurementsInit \/ StreamsInit \/ UsageInit \/ EventsInit \/
             ReferencesInit \/ ProcessInit \/ PipesInit
CallsNext == SequentialStep \/ RacingStep \/ RevalidationsStep \/
             RegisteredStep \/ GuardedStep \/ CoroutinesStep \/ ReplaysStep \/
             MeasurementsStep \/ StreamsStep \/ UsageStep \/ EventsStep \/
             ReferencesStep \/ ProcessStep \/ PipesStep

CallsSpec == CallsInit /\ [][CallsNext]_CallsVars

-----------------------------------------------------------------------------
(* Objects of two properties, of every kind the schemas distinguish, with  *)
(* two alternatives of them; arguments that match, and that do not.        *)
OfSchemas == INSTANCE RegisteredCall WITH
  Schemas <- {}, Arguments <- {}, Policies <- <<>>, Changing <- FALSE, MaxNodes <- 0
String(text, length) == [string |-> text, length |-> length]
Integer(n) == [integer |-> n]
Array(s) == [array |-> s]
Object(names, V(_)) == [object |-> [n \in names |-> V(n)]]

Text == OfSchemas!Bare("string")
Secret == [Text EXCEPT !.sensitive = TRUE]
Short == [Text EXCEPT !.bounds = [k \in {"maxLength"} |-> 1]]
OneText == [Text EXCEPT !.enum = {String("s", 1)}]
Positive == [OfSchemas!Bare("integer") EXCEPT
  !.bounds = [k \in {"minimum", "exclusiveMaximum"} |-> IF k = "minimum" THEN 1 ELSE 3]]
Either(a, b) == [OfSchemas!Bare("any") EXCEPT !.anyOf = <<a, b>>]
SecretOr(type) == [Either(Text, OfSchemas!Bare(type)) EXCEPT !.sensitive = TRUE]
Secrets == [OfSchemas!Bare("array") EXCEPT !.items = <<Secret>>, !.bounds = [k \in {"minItems"} |-> 1]]
ObjectOf(p, q) == [OfSchemas!Bare("object") EXCEPT !.properties = [n \in {"p", "q"} |-> IF n = "p" THEN p ELSE q]]
Open(q) == [OfSchemas!Bare("object") EXCEPT !.properties = [n \in {"q"} |-> q]]
Closed(s) == [s EXCEPT !.closed = TRUE, !.required = {"p"}]

Fields == {Text, Secret, Short, OneText, Positive, SecretOr("null"), SecretOr("integer"), Secrets}
Flat == {ObjectOf(p, q) : p \in Fields, q \in Fields}
Small == {ObjectOf(p, q) : p \in {Secret, OneText}, q \in {Secret, Text}} \cup {Open(Secret), Open(Text)}
RegistrableSchemas == Flat \cup {Closed(s) : s \in Flat} \cup {Either(a, b) : a \in Small, b \in Small}
ASecret == {ObjectOf(Secret, Text)}

Items == {String("s", 1), String("tt", 2), [null |-> TRUE], Integer(0), Integer(2), Array(<<String("s", 1)>>), Array(<<>>)}
SomeArguments ==
  {Object({"p", "q"}, LAMBDA n : IF n = "p" THEN v ELSE w) : v \in Items, w \in Items}
  \cup {Object({n}, LAMBDA m : v) : n \in {"p", "q"}, v \in Items}
ValidOrNot == {Object({"p"}, LAMBDA m : v) : v \in {String("s", 1), Integer(0)}}

(* A schema, two definitions and their references to each other, to the    *)
(* whole, to places within, to nothing and to no place.                    *)
OfJson == INSTANCE SchemaReferences WITH Schemas <- {}, Escapes <- KeyOfToken, IndexOf <- IndexOfToken
Dict(of) == OfJson!Dict(of)
To(tokens) == OfJson!To(tokens)
Leaf(of) == OfJson!Leaf(of)
TypeIs(type) == Dict([type |-> Leaf(type)])
Ref(to) == Dict([k \in {"$ref"} |-> to])
Titled(to) == Dict([k \in {"$ref", "title"} |-> IF k = "title" THEN Leaf("here") ELSE to])
ToD == To(<<"$defs", "d">>)
Pointers == {To(<<>>), ToD, To(<<"$defs", "a~1b">>), To(<<"$defs", "none">>), To(<<"properties", "p">>),
  To(<<"anyOf", "00">>), To(<<"anyOf", "1">>), To(<<"anyOf">>), OfJson!Malformed}
Inner == {TypeIs("string"), Dict([type |-> Leaf("integer"), title |-> Leaf("there")]), Titled(ToD)}
         \cup {Ref(q) : q \in Pointers}
Outer ==
  Inner \cup {Dict([k \in {"type", "$ref"} |-> IF k = "type" THEN Leaf("string") ELSE ToD])}
  \cup {Dict([properties |-> Dict([p |-> v])]) : v \in Inner}
  \cup {Dict([anyOf |-> OfJson!List(<<v, TypeIs("integer")>>)]) : v \in Inner}
  \cup {Dict([items |-> v]) : v \in Inner}
  \cup {Dict([properties |-> Dict([p |-> Ref(ToD), q |-> Dict([items |-> Ref(ToD)])]), title |-> Leaf("whole")])}
With(v, d, e) == Dict(v.of @@ [k \in {"$defs"} |-> Dict([n \in {"d", "a/b"} |-> IF n = "d" THEN d ELSE e])])
ReferringSchemas == Outer \cup {With(v, d, e) : v \in Outer, d \in Outer, e \in Inner}

-----------------------------------------------------------------------------
(* What runs in record mode put into the tree is what their handlers       *)
(* returned, where it was checked and paid for; what is served is what was *)
(* recorded; a confirmed handler runs as often as it was confirmed; replay *)
(* only reads; recordings stay.  Revalidation tells of a stored            *)
(* observation what is true of it, once, and of each one; coroutines       *)
(* record their calls each in its place, so that all get the same again.   *)
RecordsTrue ==
  /\ [](/\ part = "recorded" => Sequential!RecordedWhereChecked /\ Sequential!SpentIsSettled /\ Sequential!NoRivals
        /\ part = "races" => Racing!ServedIsRecorded /\ Racing!ConfirmedOnce
        /\ part = "revalidation" =>
             /\ Revalidations!EvidenceIsOfWhatIsStored /\ Revalidations!OneVerdict
             /\ Revalidations!SequentialOnBranch /\ Revalidations!ObservationsAreExplained
        /\ part = "coroutines" => Coroutines!CallsStayInPlace
        /\ part = "async_replay" => Replays!SameInReplay)
  /\ [][/\ part = "recorded" => Sequential!ReplayReadsOnly
        /\ part = "races" => Racing!RecordingStays]_CallsVars

(* A handler is given valid arguments only, and not against the durable    *)
(* policies of the moment or by a token that has lost its place; the audit *)
(* hides what the schema calls sensitive and nothing else.  A schema with  *)
(* references means what its expansion means, and is refused exactly when  *)
(* it has none (Registry, Run._registered_tool_call, schema.py).           *)
ToolsGuarded ==
  /\ [](/\ part = "schemas" =>
             Registered!AuditHidesSecrets /\ Registered!NothingSensitiveEscapes /\ Registered!OnlyValidRuns
        /\ part = "policies" => Guarded!DurablePoliciesHold
        /\ part = "references" => References!RefusesExactly /\ References!NoReferenceLeft /\ References!SameMeaning)
  /\ [][part = "policies" => Guarded!NoTokenOutlivesItsPlace]_CallsVars

(* Whatever fails around a call, measurements end, what was sent is        *)
(* charged, ledger and tree agree and the first error is raised; no scope  *)
(* of concurrent coroutines is overspent or keeps what a cancelled one     *)
(* held; a token that was reported is charged once, by each meter, and     *)
(* never nothing for a call that was answered.                             *)
CallsAccounted ==
  /\ part = "measured" =>
       /\ Measurements!MeasurementsEnd /\ Measurements!SentIsCharged
       /\ Measurements!AccountsAgree /\ Measurements!FirstErrorRaised
  /\ part = "recorded" => Sequential!AvoidedIsReal
  /\ part = "races" => Racing!AvoidedIsReal
  /\ part = "coroutines" => Coroutines!ScopesHold /\ Coroutines!HeldIffWaiting
  /\ part = "usage" => Usage!EachTokenOnce /\ Usage!TrueOrEstimated /\ Usage!NeverFree
                    /\ Usage!LimitsTrue /\ Usage!EstimatesCover

(* The result of a stream is what the provider sent, in order, and the     *)
(* same as without a stream; one that was cut off is not taken for whole.  *)
(* A Codex call answers with all its process said, leaves no process, and  *)
(* goes on until its deadline at most; its pipes never wait on each other. *)
AnswersWhole ==
  /\ part = "streamed" => Streams!ResultIsWhatWasSent /\ Streams!DeltasInOrder
                       /\ Streams!AnsweredIsRecorded /\ Streams!ReplayedInOrder
  /\ part = "events" => Events!StreamedEqualsWhole /\ Events!UnfinishedIsUnknown /\ Events!DeltasAreTheText
  /\ part = "process" => Process!AnswerIsWhole /\ Process!NoProcessLeft /\ Process!CallGoesOn
  /\ part = "pipes" => Pipes!NoneWaits /\ Pipes!AnswerIsWhole /\ Pipes!NoProcessLeft
=============================================================================
