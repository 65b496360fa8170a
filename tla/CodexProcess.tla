----------------------------- MODULE CodexProcess -----------------------------
(***************************************************************************)
(* One codex exec call: a process with three pipes, a thread for each, a   *)
(* bounded queue to the calling thread, a deadline and a limit on output   *)
(* (make_codex_exec_fn, _collect, _EventParser).                           *)
(*                                                                         *)
(* A chunk is one line of output, an event.  The process is external: it   *)
(* reads and writes as it likes, blocks when a pipe is full, exits with a  *)
(* status, and may leave a descendant that holds its output open.          *)
(***************************************************************************)
EXTENDS Naturals, Sequences, SequencesExt, FiniteSets

CONSTANTS
  Texts,      \* of agent messages
  MaxEvents,  \* bound: events a process writes
  MaxErrors,  \* bound: chunks it writes to stderr
  PipeSize,   \* chunks a pipe holds
  QueueSize,  \* maxsize of the queue
  Limit,      \* max_output_bytes, in chunks
  Prompt,     \* chunks of the prompt
  Faults      \* the pipes may fail, be held open, and the call be interrupted
VARIABLES
  process,   \* "running", "done", "failed", "killed"
  held,      \* a descendant holds its output
  pipe,      \* "stdout", "stderr" -> chunks in it
  stdin,     \* what of the prompt is not yet written, and not yet read
  wrote,     \* the events written to stdout, and how much to stderr (history)
  thread,    \* reader -> "reading", "sending", "closing", "ended"
  chunk,     \* reader -> the chunk it sends
  writer,    \* "writing", "failing", "ended"
  queue,
  main,      \* "collecting", "returned", "raised"
  closed, sizes, parsed, \* its own: pipes closed, chunks counted, events fed
  late,      \* the deadline has passed
  result, error
vars == <<process, held, pipe, stdin, wrote, thread, chunk, writer, queue, main, closed, sizes,
          parsed, late, result, error>>
outside == <<process, held, pipe, stdin, wrote>>
threads == <<thread, chunk, writer>>
caller == <<main, closed, sizes, parsed, result, error>>

Readers == {"stdout", "stderr"}
Events == {"thread.started", "turn.completed", "invalid"} \cup Texts

TypeOK ==
  /\ process \in {"running", "done", "failed", "killed"} /\ held \in BOOLEAN
  /\ pipe \in [Readers -> BoundedSeq(Events \cup {"chunk"}, PipeSize)]
  /\ stdin.left \in 0 .. Prompt /\ stdin.full \in BOOLEAN
  /\ thread \in [Readers -> {"reading", "sending", "closing", "ended"}]
  /\ writer \in {"writing", "failing", "ended"}
  /\ Len(queue) <= QueueSize
  /\ main \in {"collecting", "returned", "raised"}
  /\ closed \subseteq Readers /\ late \in BOOLEAN
  /\ \A r \in Readers : sizes[r] <= Limit + 1

Init ==
  /\ process = "running" /\ held = FALSE
  /\ pipe = [r \in Readers |-> <<>>] /\ stdin = [left |-> Prompt, full |-> FALSE]
  /\ wrote = [out |-> <<>>, err |-> 0]
  /\ thread = [r \in Readers |-> "reading"] /\ chunk = [r \in Readers |-> "chunk"]
  /\ writer = "writing" /\ queue = <<>>
  /\ main = "collecting" /\ closed = {} /\ sizes = [r \in Readers |-> 0] /\ parsed = <<>>
  /\ late = FALSE /\ result = "none" /\ error = "none"

-----------------------------------------------------------------------------
(* The process.                                                            *)
Alive == process = "running"
Write(r, c) == Len(pipe[r]) < PipeSize /\ pipe' = [pipe EXCEPT ![r] = Append(@, c)]
WriteEvent(e) ==
  /\ Alive /\ Len(wrote.out) < MaxEvents /\ Write("stdout", e)
  /\ wrote' = [wrote EXCEPT !.out = Append(@, e)]
  /\ UNCHANGED <<process, held, stdin, threads, queue, caller, late>>
WriteError ==
  /\ Alive /\ wrote.err < MaxErrors /\ Write("stderr", "chunk")
  /\ wrote' = [wrote EXCEPT !.err = @ + 1]
  /\ UNCHANGED <<process, held, stdin, threads, queue, caller, late>>
ReadPrompt ==
  /\ Alive /\ stdin.full /\ stdin' = [stdin EXCEPT !.full = FALSE]
  /\ UNCHANGED <<process, held, pipe, wrote, threads, queue, caller, late>>
Exit(status) ==
  /\ Alive /\ process' = status
  /\ ~Faults => wrote.err = MaxErrors  \* one that works through says it all
  /\ held' \in (IF Faults THEN BOOLEAN ELSE {FALSE})
  /\ UNCHANGED <<pipe, stdin, wrote, threads, queue, caller, late>>

(* One that works through: it takes the steps it can, until it exits.      *)
Process ==
  \/ (\E e \in Events : WriteEvent(e)) \/ WriteError \/ ReadPrompt
  \/ Exit("done") \/ Exit("failed")

-----------------------------------------------------------------------------
(* read: a chunk at a time until the end of the file or stopped.           *)
Exited == process \in {"done", "failed", "killed"}
EndOfFile(r) == pipe[r] = <<>> /\ Exited /\ ~held
Stopped == main # "collecting"

Reads(r) == r \in Readers

ReadChunk(r) ==
  /\ thread[r] = "reading" /\ ~Stopped /\ Reads(r) /\ pipe[r] # <<>>
  /\ chunk' = [chunk EXCEPT ![r] = Head(pipe[r])]
  /\ pipe' = [pipe EXCEPT ![r] = Tail(@)]
  /\ thread' = [thread EXCEPT ![r] = "sending"]
  /\ UNCHANGED <<process, held, stdin, wrote, writer, queue, caller, late>>
ReadEnds(r) ==
  /\ thread[r] = "reading" /\ (Stopped \/ EndOfFile(r))
  /\ thread' = [thread EXCEPT ![r] = "closing"]
  /\ UNCHANGED <<outside, chunk, writer, queue, caller, late>>
ReadFails(r) ==
  /\ thread[r] = "reading" /\ Faults /\ ~Stopped
  /\ chunk' = [chunk EXCEPT ![r] = "io_error"]
  /\ thread' = [thread EXCEPT ![r] = "sending"]
  /\ UNCHANGED <<outside, writer, queue, caller, late>>

(* send: waits for room in the queue, but not once the caller has stopped. *)
HasRoom == Len(queue) < QueueSize

Send(r) ==
  /\ thread[r] \in {"sending", "closing"}
  /\ \/ Stopped /\ UNCHANGED queue
     \/ ~Stopped /\ HasRoom
        /\ queue' = Append(queue, [from |-> r, is |-> IF thread[r] = "closing" THEN "closed" ELSE chunk[r]])
  /\ thread' = [thread EXCEPT ![r] =
       IF @ = "closing" THEN "ended" ELSE IF chunk[r] = "io_error" THEN "closing" ELSE "reading"]
  /\ UNCHANGED <<outside, chunk, writer, caller, late>>

(* write: a pipe that the process closed ends it without a word; of any    *)
(* other error it sends what a reader would.                               *)
WritePrompt ==
  /\ writer = "writing" /\ ~Stopped /\ stdin.left > 0 /\ ~stdin.full /\ ~Exited
  /\ stdin' = [left |-> stdin.left - 1, full |-> TRUE]
  /\ UNCHANGED <<process, held, pipe, wrote, threads, queue, caller, late>>
WriterEnds ==
  /\ writer = "writing" /\ (Stopped \/ stdin.left = 0 \/ Exited \/ Faults)
  /\ writer' = "ended"
  /\ UNCHANGED <<outside, thread, chunk, queue, caller, late>>
WriteFails ==
  /\ writer = "writing" /\ Faults /\ ~Stopped /\ stdin.left > 0
  /\ writer' = "failing"
  /\ UNCHANGED <<outside, thread, chunk, queue, caller, late>>
WriterSends ==
  /\ writer = "failing" /\ writer' = "ended"
  /\ \/ Stopped /\ UNCHANGED queue
     \/ ~Stopped /\ HasRoom /\ queue' = Append(queue, [from |-> "stdin", is |-> "io_error"])
  /\ UNCHANGED <<outside, thread, chunk, caller, late>>

-----------------------------------------------------------------------------
(* _terminate: the process and, as far as possible, its group.             *)
Terminate == process' = (IF Exited THEN process ELSE "killed")

Raise(e) ==
  /\ main' = "raised" /\ error' = e /\ Terminate
  /\ UNCHANGED <<held, pipe, stdin, wrote, threads, queue, late, result>>

(* A mutant: the process has only to exit.                                 *)
ExitIsEnough == TRUE

(* while len(closed) < 2 or process.poll() is None                         *)
AllClosed == closed = Readers
Collecting == main = "collecting" /\ ~(AllClosed /\ Exited)

IsLate == late

Timeout ==
  /\ Collecting /\ IsLate /\ Raise("timeout")
  /\ UNCHANGED <<closed, sizes, parsed>>

(* _event: whether the events so far, then e, are a protocol.              *)
Legal(e) ==
  /\ e # "invalid"
  /\ "turn.completed" \notin Range(parsed)
  /\ e = "thread.started" => e \notin Range(parsed)

GetMessage ==
  /\ Collecting /\ ~late /\ queue # <<>>
  /\ queue' = Tail(queue)
  /\ LET m == Head(queue) IN
       IF m.is = "closed" THEN
         /\ closed' = closed \cup {m.from}
         /\ UNCHANGED <<outside, threads, main, sizes, parsed, late, result, error>>
       ELSE
         /\ UNCHANGED <<held, pipe, stdin, wrote, threads, late, closed, result>>
         /\ sizes' = (IF m.is = "io_error" THEN sizes ELSE [sizes EXCEPT ![m.from] = @ + 1])
         /\ parsed' = IF m.from = "stdout" /\ Legal(m.is) /\ m.is # "io_error"
                      THEN Append(parsed, m.is) ELSE parsed
         /\ IF m.is = "io_error" \/ sizes'[m.from] > Limit
               \/ (m.from = "stdout" /\ ~Legal(m.is))
            THEN main' = "raised" /\ error' = "output" /\ Terminate
            ELSE UNCHANGED <<main, error, process>>

(* The status, then finish(): a thread, an answer and the turn's end.      *)
AnswerOf(s) == Last(SelectSeq(s, LAMBDA e : e \in Texts))
CompleteAnswer(s) == Range(s) \cap Texts # {} /\ {"thread.started", "turn.completed"} \subseteq Range(s)
Finish ==
  /\ main = "collecting" /\ AllClosed /\ Exited
  /\ IF process = "done" /\ CompleteAnswer(parsed)
     THEN /\ main' = "returned" /\ result' = AnswerOf(parsed)
          /\ UNCHANGED <<outside, threads, queue, closed, sizes, parsed, late, error>>
     ELSE Raise(IF process = "done" THEN "incomplete" ELSE "exit_status")
          /\ UNCHANGED <<closed, sizes, parsed>>

Interrupt ==
  /\ main = "collecting" /\ Faults /\ Raise("interrupt")
  /\ UNCHANGED <<closed, sizes, parsed>>

Deadline ==
  /\ ~late /\ late' = TRUE
  /\ UNCHANGED <<outside, threads, queue, caller>>

Threads == \E r \in Readers : ReadChunk(r) \/ ReadEnds(r) \/ Send(r)
Writer == WritePrompt \/ WriterEnds \/ WriterSends
Main == Timeout \/ GetMessage \/ Finish

Next ==
  \/ Process
  \/ (\E r \in Readers : ReadChunk(r) \/ ReadEnds(r) \/ Send(r) \/ ReadFails(r))
  \/ Writer \/ WriteFails
  \/ Timeout \/ GetMessage \/ Finish \/ Interrupt \/ Deadline

Spec == Init /\ [][Next]_vars

(* With a process that works through to its exit, and all the time.        *)
NextUntimed ==
  \/ Process
  \/ (\E r \in Readers : ReadChunk(r) \/ ReadEnds(r) \/ Send(r))
  \/ Writer \/ GetMessage \/ Finish

-----------------------------------------------------------------------------
(* An answer is all that a process said that exited well: nothing it wrote *)
(* is left in a pipe, a thread or the queue, its last message is the       *)
(* answer, and its turn ended last.                                        *)
AnswerIsWhole ==
  main = "returned" =>
    /\ process = "done" /\ parsed = wrote.out
    /\ Last(wrote.out) = "turn.completed"
    /\ result = AnswerOf(wrote.out)

(* "Failure cleanup kills the subprocess" (codex.py): when the call is     *)
(* over, however it ended, the process is, too.                            *)
NoProcessLeft == main # "collecting" => Exited

(* "timeout bounds the subprocess lifetime" (codex.py): whatever process   *)
(* and descendants do, the caller or its threads have something to do, or  *)
(* the deadline is still to come; as what they do is bounded, it ends.     *)
OwnSteps == Main \/ Threads \/ Writer \/ Deadline
CallGoesOn == main = "collecting" => ENABLED OwnSteps /\ (late => ENABLED Main)

(* However much the process writes to which pipe before it reads its       *)
(* prompt or exits, process, threads and caller never wait on each other:  *)
(* without any deadline something goes on until the call is over and the   *)
(* threads have ended.                                                     *)
NoneWaits ==
  (main = "collecting" \/ \E r \in Readers : thread[r] # "ended") => ENABLED NextUntimed
=============================================================================
