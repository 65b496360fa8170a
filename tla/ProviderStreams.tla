--------------------------- MODULE ProviderStreams ----------------------------
(***************************************************************************)
(* A model call that streams: what the provider adapters make of the       *)
(* events of four APIs, and how the call ends when the stream is cut off,  *)
(* fails or is refused.  The chunks they yield go to StreamedCall; this    *)
(* module follows an answer from the provider, which makes it up as it     *)
(* goes, to the result that the last chunk carries.                        *)
(*                                                                         *)
(* An answer is a text and a sequence of tool calls, each with the pieces  *)
(* of its arguments, and the usage.  Two turns of a provider are recorded  *)
(* with it: pieces of the text that blocks of Messages begin with, and a   *)
(* terminal event of Responses that comes without the response.            *)
(***************************************************************************)
EXTENDS Naturals, Sequences, SequencesExt, FiniteSets, FiniteSetsExt, Functions

CONSTANTS
  Apis,     \* of "chat", "responses", "messages", "converse"
  Pieces,   \* of a text or of arguments
  MaxTexts, MaxCalls, MaxParts  \* bounds
VARIABLES
  api,
  at,       \* "new", "called", "stopped", "finished", "over"
  answer,   \* what the provider has said so far
  block,    \* the index of the last content block
  open,     \* the index of the block that is open, or 0
  state,    \* the adapter's
  deltas,   \* the text given to on_delta so far
  result,   \* of the call
  raised,   \* what it raised
  sound     \* the usage is one the adapter accepts
vars == <<api, at, answer, block, open, state, deltas, result, raised, sound>>

NoResult == [text |-> <<>>, calls |-> <<>>, usage |-> "absent"]
NothingSaid == [text |-> <<>>, calls |-> <<>>, begun |-> {}, bare |-> FALSE]
NewState == [text |-> <<>>, calls |-> <<>>, input |-> FALSE, usage |-> FALSE, done |-> FALSE]

TypeOK ==
  /\ api \in Apis
  /\ at \in {"new", "called", "stopped", "finished", "over"}
  /\ answer \in [text : BoundedSeq(Pieces, MaxTexts), calls : BoundedSeq(BoundedSeq(Pieces, MaxParts), MaxCalls),
                 begun : SUBSET (1 .. MaxTexts), bare : BOOLEAN]
  /\ open \in 0 .. block
  /\ Len(state.text) <= MaxTexts /\ Range(state.calls) \subseteq BoundedSeq(Pieces, MaxParts)
  /\ raised \in {"none", "before", "unknown"}
  /\ result.usage \in {"absent", "reported"}

Init ==
  /\ api \in Apis /\ at = "new" /\ answer = NothingSaid
  /\ block = 0 /\ open = 0 /\ state = NewState /\ deltas = <<>>
  /\ result = NoResult /\ raised = "none" /\ sound \in BOOLEAN

Over(r, e) == at' = "over" /\ result' = r /\ raised' = e

-----------------------------------------------------------------------------
(* The callables: the request is built, then sent within the boundary.     *)
BadRequest ==
  /\ at = "new" /\ Over(NoResult, "before")
  /\ UNCHANGED <<api, answer, block, open, state, deltas, sound>>
Create ==
  /\ at = "new" /\ at' = "called"
  /\ state' = IF api = "messages" THEN [state EXCEPT !.input = sound] ELSE state
  /\ UNCHANGED <<api, answer, block, open, deltas, result, raised, sound>>

(* Text goes into the state and, as a delta, to the caller.                *)
Delta(p) == Append(deltas, p)

SayText(p) ==
  /\ answer' = [answer EXCEPT !.text = Append(@, p)]
  /\ deltas' = Delta(p)
  /\ state' = [state EXCEPT !.text = Append(@, p)]
TextAllowed == at = "called" /\ Len(answer.text) < MaxTexts

ChatText(p) ==
  /\ api = "chat" /\ TextAllowed /\ SayText(p)
  /\ UNCHANGED <<api, at, block, open, result, raised, sound>>
ResponsesText(p) ==
  /\ api = "responses" /\ TextAllowed /\ SayText(p)
  /\ UNCHANGED <<api, at, block, open, result, raised, sound>>

(* Messages and Converse have content blocks; a text's is opened with it.  *)
(* What a block of Messages begins with goes into the state only.          *)
BlockText(p) ==
  /\ api \in {"messages", "converse"} /\ TextAllowed /\ SayText(p)
  /\ block' = (IF open = 0 THEN block ELSE block + 1) /\ open' = 0
  /\ UNCHANGED <<api, at, result, raised, sound>>

StartText(p) ==
  /\ api = "messages" /\ TextAllowed
  /\ answer' = [answer EXCEPT !.text = Append(@, p), !.begun = @ \cup {Len(answer.text) + 1}]
  /\ state' = [state EXCEPT !.text = Append(@, p)]
  /\ block' = block + 1 /\ open' = 0
  /\ UNCHANGED <<api, at, deltas, result, raised, sound>>

-----------------------------------------------------------------------------
(* A call begins: in a chat with its first fragment.                       *)
CallAllowed == at = "called" /\ Len(answer.calls) < MaxCalls
NewCall(p) == answer' = [answer EXCEPT !.calls = Append(@, p)]

ChatCall(p) ==
  /\ api = "chat" /\ CallAllowed /\ NewCall(<<p>>)
  /\ state' = [state EXCEPT !.calls = @ @@ (Len(answer.calls) + 1 :> <<p>>)]
  /\ UNCHANGED <<api, at, block, open, deltas, result, raised, sound>>
ResponsesCall(p) ==
  /\ api = "responses" /\ CallAllowed /\ NewCall(<<p>>)
  /\ UNCHANGED <<api, at, block, open, state, deltas, result, raised, sound>>
StartTool ==
  /\ api \in {"messages", "converse"} /\ CallAllowed /\ NewCall(<<>>)
  /\ block' = block + 1 /\ open' = block + 1
  /\ state' = [state EXCEPT !.calls = @ @@ (block + 1 :> <<>>)]
  /\ UNCHANGED <<api, at, deltas, result, raised, sound>>

(* Further fragments; those of a chat's calls may come in any order.       *)
MoreOf(i, p) == answer' = [answer EXCEPT !.calls[i] = Append(@, p)]
MergeToolCall(i, p) == [state.calls EXCEPT ![i] = Append(@, p)]

ChatFragment(i, p) ==
  /\ api = "chat" /\ at = "called" /\ i \in DOMAIN answer.calls /\ Len(answer.calls[i]) < MaxParts
  /\ MoreOf(i, p)
  /\ state' = [state EXCEPT !.calls = MergeToolCall(i, p)]
  /\ UNCHANGED <<api, at, block, open, deltas, result, raised, sound>>
ResponsesFragment(i, p) ==
  /\ api = "responses" /\ at = "called" /\ i \in DOMAIN answer.calls /\ Len(answer.calls[i]) < MaxParts
  /\ MoreOf(i, p)
  /\ UNCHANGED <<api, at, block, open, state, deltas, result, raised, sound>>
BlockFragment(p) ==
  /\ open # 0 /\ at = "called" /\ Len(Last(answer.calls)) < MaxParts
  /\ MoreOf(Len(answer.calls), p)
  /\ state' = [state EXCEPT !.calls[open] = Append(@, p)]
  /\ UNCHANGED <<api, at, block, open, deltas, result, raised, sound>>

-----------------------------------------------------------------------------
(* The end of the answer, and the usage: with it, before or after it.      *)
ChatFinish ==
  /\ api = "chat" /\ at = "called" /\ at' = "stopped"
  /\ state' = [state EXCEPT !.done = TRUE]
  /\ UNCHANGED <<api, answer, block, open, deltas, result, raised, sound>>
ChatUsage ==
  /\ api = "chat" /\ at = "stopped" /\ at' = "finished"
  /\ state' = [state EXCEPT !.usage = sound]
  /\ UNCHANGED <<api, answer, block, open, deltas, result, raised, sound>>

ConverseStop ==
  /\ api = "converse" /\ at = "called" /\ at' = "stopped"
  /\ state' = [state EXCEPT !.done = TRUE]
  /\ UNCHANGED <<api, answer, block, open, deltas, result, raised, sound>>
ConverseMetadata ==
  /\ api = "converse" /\ at = "stopped" /\ at' = "finished"
  /\ state' = [state EXCEPT !.usage = sound]
  /\ UNCHANGED <<api, answer, block, open, deltas, result, raised, sound>>

(* message_delta has the output's usage; message_start had the input's.    *)
MessageDelta ==
  /\ api = "messages" /\ at = "called" /\ at' = "stopped"
  /\ \E outputValid \in BOOLEAN : state' = [state EXCEPT !.usage = outputValid]
  /\ UNCHANGED <<api, answer, block, open, deltas, result, raised, sound>>
MessageStop ==
  /\ api = "messages" /\ at = "stopped" /\ at' = "finished"
  /\ state' = [state EXCEPT !.done = TRUE]
  /\ UNCHANGED <<api, answer, block, open, deltas, result, raised, sound>>

(* response.completed or incomplete has the response so far; from one that *)
(* comes without it, the result is the text that was heard, and no more.   *)
Usage(valid) == IF valid THEN "reported" ELSE "absent"
NormalizeResponse == [text |-> answer.text, calls |-> answer.calls, usage |-> Usage(sound)]
ResponsesCompleted ==
  /\ api = "responses" /\ at = "called" /\ at' = "finished"
  /\ result' = NormalizeResponse
  /\ state' = [state EXCEPT !.done = TRUE, !.usage = sound]
  /\ UNCHANGED <<api, answer, block, open, deltas, raised, sound>>
JoinedText == [NoResult EXCEPT !.text = state.text]
ResponsesBare ==
  /\ api = "responses" /\ at = "called" /\ at' = "finished"
  /\ answer' = [answer EXCEPT !.bare = TRUE]
  /\ result' = JoinedText
  /\ state' = [state EXCEPT !.done = TRUE]
  /\ UNCHANGED <<api, block, open, deltas, raised, sound>>

-----------------------------------------------------------------------------
(* _chat_final, _message_final, _stream_result: calls in their index's     *)
(* order.                                                                  *)
ByIndex(calls) == LET order == SetToSortSeq(DOMAIN calls, LAMBDA i, j : i < j) IN
                  [n \in 1 .. Len(order) |-> calls[order[n]]]
UsageValid == state.usage /\ (api = "messages" => state.input)

Final == [text |-> state.text, calls |-> ByIndex(state.calls), usage |-> Usage(UsageValid)]

(* The stream ends, wherever it was: without its terminal event that is    *)
(* an error.                                                               *)
Terminated == state.done

StreamEnds ==
  /\ at \in {"called", "stopped", "finished"}
  /\ IF ~Terminated THEN Over(NoResult, "unknown")
     ELSE Over(IF api = "responses" THEN result ELSE Final, "none")
  /\ UNCHANGED <<api, answer, block, open, state, deltas, sound>>

(* An error event, or the client or the network fails, at any point: the   *)
(* boundary marks what is raised, and the caller sees no result.           *)
BoundaryMarks == "unknown"
StreamFails ==
  /\ at \in {"called", "stopped", "finished"}
  /\ Over(NoResult, BoundaryMarks)
  /\ UNCHANGED <<api, answer, block, open, state, deltas, sound>>

Next ==
  \/ BadRequest \/ Create \/ StartTool
  \/ \E p \in Pieces : ChatText(p) \/ ResponsesText(p) \/ BlockText(p) \/ StartText(p)
                       \/ ChatCall(p) \/ ResponsesCall(p) \/ BlockFragment(p)
  \/ \E i \in 1 .. MaxCalls, p \in Pieces : ChatFragment(i, p) \/ ResponsesFragment(i, p)
  \/ ChatFinish \/ ChatUsage \/ ConverseStop \/ ConverseMetadata
  \/ MessageDelta \/ MessageStop \/ ResponsesCompleted \/ ResponsesBare
  \/ StreamEnds \/ StreamFails

Spec == Init /\ [][Next]_vars

-----------------------------------------------------------------------------
Answered == at = "over" /\ raised = "none"

(* A streamed result is what the complete response would have been: the    *)
(* same text, the same calls in the same order with all of their           *)
(* arguments, however their fragments were interleaved, and the usage only *)
(* if all of it was reported and valid.  Of a Responses stream whose end   *)
(* came without the response only the text is whole: its calls are lost,   *)
(* and no usage is made up.                                                *)
StreamedEqualsWhole ==
  Answered =>
    /\ result.text = answer.text
    /\ ~answer.bare => result.calls = answer.calls
    /\ result.usage = "reported" => sound /\ state.usage

(* "A stream that closes without a terminal Responses event or Chat        *)
(* Completions finish reason is an unknown outcome" (cloud-providers.md),  *)
(* nor can it be taken for a call that was not made: once the request was  *)
(* sent it ends with the whole answer or with an error that says so.       *)
UnfinishedIsUnknown ==
  at = "over" =>
    \/ raised = "before" /\ answer = NothingSaid
    \/ raised = "unknown"
    \/ raised = "none" /\ state.done

(* What on_delta was given is the text of the result, in order and once    *)
(* each, but for what a block of Messages began with, which no delta gives.*)
Given(text) == ByIndex(Restrict(text, DOMAIN text \ answer.begun))
DeltasAreTheText ==
  /\ deltas = Given(answer.text)
  /\ Answered => deltas = Given(result.text)
=============================================================================
