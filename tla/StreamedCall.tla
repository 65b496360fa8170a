----------------------------- MODULE StreamedCall -----------------------------
(***************************************************************************)
(* A call whose step function returns a stream of chunks: how they are     *)
(* merged into the result, passed to on_delta, kept, and emitted again in  *)
(* replay; and what is recorded when the stream, the callback or, between  *)
(* two awaits, a cancellation ends it early (_consume_step_result,         *)
(* _aconsume_step_result).                                                 *)
(*                                                                         *)
(* A chunk or a result has a text of its own and a nested object that      *)
(* holds one.  Nested objects are passed by reference, so they have an     *)
(* address: that of a chunk's is the place of the chunk in the stream.     *)
(***************************************************************************)
EXTENDS Naturals, Sequences, SequencesExt, FiniteSets

CONSTANTS
  Letters,    \* what texts are made of
  MaxChunks,  \* bound: chunks of a stream
  Keep        \* keep_chunks

VARIABLES
  heap,       \* address -> text of a nested object
  result,     \* the result so far: its text and the address of its object
  chunks,     \* the chunks so far, as result is
  sent,       \* what the provider sent, by value (history)
  emitted,    \* what on_delta was given, by value (history)
  at,         \* where the call is
  holds,      \* the reservation is held
  node,       \* what the tree has for the call
  replayed    \* what a replay gave its on_delta
vars == <<heap, result, chunks, sent, emitted, at, holds, node, replayed>>

Nothing == <<>>
Kinds == {"result", "delta", "plain"}
Chunk == [kind : Kinds, text : {Nothing} \cup {<<l>> : l \in Letters},
          object : {Nothing} \cup {<<l>> : l \in Letters}]
Texts == BoundedSeq(Letters, MaxChunks)
Empty == [text |-> Nothing, object |-> 0]

TypeOK ==
  /\ heap \in [1 .. MaxChunks -> Texts]
  /\ result \in [text : Texts, object : 0 .. MaxChunks]
  /\ chunks \in Seq([kind : Kinds, text : Texts, object : 0 .. MaxChunks])
  /\ sent \in Seq(Chunk) /\ emitted \in Seq(Chunk)
  /\ at \in {"called", "chunk", "over", "replaying"}
  /\ holds \in BOOLEAN
  /\ node.is \in {"none", "call", "unknown"}
  /\ replayed \in Seq([kind : Kinds, text : Texts, object : Texts])

NoNode == [is |-> "none", text |-> Nothing, object |-> Nothing, chunks |-> <<>>]
Init ==
  /\ heap = [i \in 1 .. MaxChunks |-> Nothing]
  /\ result = Empty /\ chunks = <<>>
  /\ sent = <<>> /\ emitted = <<>> /\ replayed = <<>>
  /\ at = "called" /\ holds = TRUE /\ node = NoNode

(* By value: with an absent object and an empty one not told apart.        *)
Deref(r) == IF r.object = 0 THEN Nothing ELSE heap[r.object]
ByValue(c) == [kind |-> c.kind, text |-> c.text, object |-> Deref(c)]

(* mark_post_dispatch_outcome_unknown: once a chunk was received, an error *)
(* leaves the outcome unknown; the estimate is settled and noted.          *)
Unknown == chunks # <<>>

-----------------------------------------------------------------------------
(* for item in value: chunk = dict(item), and on_delta(chunk).             *)
NextChunk(c) ==
  /\ at = "called" /\ Len(sent) < MaxChunks
  /\ LET address == IF c.object = Nothing THEN 0 ELSE Len(sent) + 1 IN
       /\ heap' = IF address = 0 THEN heap ELSE [heap EXCEPT ![address] = c.object]
       /\ chunks' = Append(chunks, [kind |-> c.kind, text |-> c.text, object |-> address])
  /\ sent' = Append(sent, c)
  /\ at' = "chunk"
  /\ UNCHANGED <<result, emitted, holds, node, replayed>>

(* _merge_stream_value: strings are joined, an object is merged into the   *)
(* one that is there, or else put there itself.                            *)
MergedText(c) == result.text \o c.text

PutThere(c) ==
  /\ result' = [text |-> MergedText(c), object |-> c.object]
  /\ UNCHANGED heap
MergeInto(c) ==
  /\ result' = [text |-> MergedText(c), object |-> result.object]
  /\ heap' = [heap EXCEPT ![result.object] = @ \o heap[c.object]]

MergeDelta(c) ==
  IF c.object = 0 THEN result' = [result EXCEPT !.text = MergedText(c)] /\ UNCHANGED heap
  ELSE IF result.object = 0 THEN PutThere(c) ELSE MergeInto(c)

Replace(c) ==
  /\ result' = [text |-> c.text, object |-> c.object]
  /\ UNCHANGED heap

OnDelta(c) == emitted' = Append(emitted, ByValue(c))

Consume ==
  /\ at = "chunk"
  /\ LET c == Last(chunks) IN
       /\ OnDelta(c)
       /\ IF c.kind = "result" THEN Replace(c) ELSE MergeDelta(c)
  /\ at' = "called"
  /\ UNCHANGED <<chunks, sent, holds, node, replayed>>

-----------------------------------------------------------------------------
(* The stream ends: the charges are settled and the node is recorded.      *)
Complete ==
  /\ at = "called"
  /\ node' = [is |-> "call", text |-> result.text, object |-> Deref(result),
              chunks |-> IF Keep THEN [i \in 1 .. Len(chunks) |-> ByValue(chunks[i])] ELSE <<>>]
  /\ at' = "over" /\ holds' = FALSE
  /\ UNCHANGED <<heap, result, chunks, sent, emitted, replayed>>

(* The stream raises, or yields what is no dict; on_delta raises; an await *)
(* of either is cancelled.                                                 *)
Fail ==
  /\ at \in {"called", "chunk"}
  /\ node' = IF Unknown THEN [NoNode EXCEPT !.is = "unknown"] ELSE NoNode
  /\ at' = "over" /\ holds' = FALSE
  /\ UNCHANGED <<heap, result, chunks, sent, emitted, replayed>>

(* _reemit_chunks, in replay or on a hybrid hit.                           *)
Replay ==
  /\ at = "over" /\ node.is = "call"
  /\ replayed' = node.chunks
  /\ at' = "replaying"
  /\ UNCHANGED <<heap, result, chunks, sent, emitted, holds, node>>

Next == Consume \/ Complete \/ Fail \/ Replay \/ \E c \in Chunk : NextChunk(c)

Spec == Init /\ [][Next]_vars

-----------------------------------------------------------------------------
(* The reference: what was sent since the last complete result, joined.    *)
Since(s) == LET starts == {i \in 1 .. Len(s) : s[i].kind = "result"} IN
            IF starts = {} THEN s ELSE SubSeq(s, CHOOSE i \in starts : \A j \in starts : j <= i, Len(s))
TextOf(s) == FlattenSeq([i \in 1 .. Len(s) |-> s[i].text])
ObjectOf(s) == FlattenSeq([i \in 1 .. Len(s) |-> s[i].object])

(* The recorded result is what the stream says, whatever objects its       *)
(* chunks and the result have shared on the way ("a chunk containing       *)
(* result replaces ...  delta recursively merges", api-stability.md).      *)
ResultIsWhatWasSent ==
  node.is = "call" =>
    /\ node.text = TextOf(Since(sent))
    /\ node.object = ObjectOf(Since(sent))

(* "on_delta receives stream chunks in order" (api-reference.md), each as  *)
(* it was sent and once, and all of them when the call is recorded.        *)
DeltasInOrder ==
  /\ IsPrefix(emitted, sent)
  /\ node.is = "call" => emitted = sent

(* A call that the provider had begun to answer is in the tree when it is  *)
(* over, however it ended: its reservation is never just given back.       *)
AnsweredIsRecorded == (at = "over" /\ sent # <<>>) => node.is # "none"

(* With keep_chunks a replay gives its on_delta the chunks of the call, in *)
(* their order.  Only what is text of them: an object that was merged into *)
(* is kept as it is at the end, with what came later.                      *)
ReplayedInOrder ==
  (Keep /\ at = "replaying") =>
    /\ Len(replayed) = Len(sent)
    /\ \A i \in 1 .. Len(sent) : replayed[i].kind = sent[i].kind /\ replayed[i].text = sent[i].text
=============================================================================
