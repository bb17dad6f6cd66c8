------------------------------ MODULE Runtime ------------------------------
(***************************************************************************)
(* One terminal's runtime: the owner thread's loop, the reader and writer  *)
(* threads between it and the PTY, the thread that waits for the child,    *)
(* and the clients that send it input, ask it questions and close it.      *)
(* They share bounded queues, two flags and one coalescing Wake; a send    *)
(* and its notification are two steps, and any thread may run in between.  *)
(***************************************************************************)
EXTENDS InputPipe

CONSTANTS
    None,
    WriterCapacity,  \* WRITER_CAPACITY: writes the writer's queue holds
    OutputCapacity,  \* OUTPUT_CAPACITY: batches the output queue holds
    ControlBatch,    \* MESSAGE_CAPACITY: controls handled in a turn
    MaxRequests,     \* bound: input requests the clients send
    MaxQueries,      \* bound: control requests the clients send
    MaxReplies,      \* bound: replies the engine writes to one batch
    MaxOutput,       \* bound: chunks of output the application writes
    Happenings       \* bound: what else may happen, of "close", "hangup",
                     \* "exit" and the faults "write", "read" and "wait"

ASSUME RuntimeAssumption ==
    /\ {WriterCapacity, OutputCapacity, ControlBatch} \subseteq Nat \ {0}
    /\ {MaxRequests, MaxQueries, MaxReplies, MaxOutput} \subseteq Nat

Controls == {"query", "wake", "hangup", "writer_failed", "eof", "reader_failed"}

ASSUME NoControlAssumption == None \notin Nat \cup Controls

VARIABLES
    \* shared flags and queues
    closing,     \* the runtime must stop
    inputClosed, \* nothing more may reach the PTY
    requested,   \* the runtime asked to hear of writer capacity
    wake,        \* the owner's Wake is pending
    input,       \* client requests queued, one write each
    controls,    \* queued controls
    outputs,     \* queued output batches, each named by its last chunk
    writes,      \* the writer's queue
    \* owner
    pc,
    back,        \* where the running parse returns to
    drained,     \* controls handled this turn
    budget,      \* batches the end of output may still parse
    left,        \* writes the message being handled still makes
    outputTurn,  \* next_message prefers output
    pending,     \* spilled writes
    childExited,
    outputEnded,
    failed,      \* a failure was reported to the viewers
    command,     \* the shell's running command
    parsed,      \* last chunk parsed
    \* writer
    wpc, current, offset,
    \* reader
    rpc, batch, ended, empty,
    taken,       \* last chunk read
    \* child observer
    xpc, result,
    \* clients
    offered, asked, unnotified, closer,
    \* what teardown and close_input release
    released,
    \* the application and its terminal
    exited, hungUp, produced, room, faults

flagVars == <<closing, inputClosed, requested, wake>>
pipeVars == <<accepted, delivered>>
loopVars == <<back, drained, budget, left, outputTurn>>
endVars == <<childExited, outputEnded, failed, command>>
ownerVars == <<pc, loopVars, pending, endVars, parsed>>
writerVars == <<wpc, current, offset>>
readerVars == <<rpc, batch, ended, empty, taken>>
observerVars == <<xpc, result>>
clientVars == <<offered, asked, unnotified, closer>>
worldVars == <<exited, hungUp, produced, room, faults>>

vars == <<flagVars, pipeVars, input, controls, outputs, writes, ownerVars, writerVars,
          readerVars, observerVars, clientVars, released, worldVars>>

OwnerStates == {"turn", "controls", "drain", "write", "try", "closed", "flush",
                "request", "reflush", "unflushed", "full", "next", "other",
                "idle", "ending", "join_reader", "join_writer", "done"}
Returns == {"turn", "eof", "reader_failed"}
WriterStates == {"top", "receive", "dequeued", "notify", "check", "write", "wait",
                 "hung_up", "failed", "stopping", "stopped", "done"}
ReaderStates == {"top", "send", "sent", "wait", "read", "end", "ended", "done"}
Releases == {"writes", "writer", "outputs", "reader"}

RuntimeInit ==
    /\ Init
    /\ closing = FALSE /\ inputClosed = FALSE /\ requested = FALSE /\ wake = FALSE
    /\ input = 0 /\ controls = <<>> /\ outputs = <<>> /\ writes = <<>>
    /\ pc = "turn" /\ back = "turn"
    /\ drained = 0 /\ budget = 0 /\ left = 0 /\ outputTurn = FALSE
    /\ pending = <<>>
    /\ childExited = FALSE /\ outputEnded = FALSE /\ failed = FALSE
    /\ command = "running" /\ parsed = 0
    /\ wpc = "top" /\ current = None /\ offset = 0
    /\ rpc = "top" /\ batch = None /\ ended = None /\ empty = FALSE /\ taken = 0
    /\ xpc = "waiting" /\ result = "none"
    /\ offered = 0 /\ asked = 0 /\ unnotified = 0 /\ closer = "idle"
    /\ released = {}
    /\ exited = FALSE /\ hungUp = FALSE /\ produced = 0 /\ room = TRUE /\ faults = {}

Fault(kind) == kind \in Happenings /\ faults' = faults \cup {kind}

-----------------------------------------------------------------------------
(* Clients: a send first queues and then notifies. *)

Offer ==
    /\ offered < MaxRequests /\ "outputs" \notin released
    /\ offered' = offered + 1
    /\ input' = input + 1
    /\ unnotified' = unnotified + 1
    /\ UNCHANGED <<flagVars, pipeVars, controls, outputs, writes, ownerVars, writerVars,
                   readerVars, observerVars, asked, closer, released, worldVars>>

Ask ==
    /\ asked < MaxQueries /\ pc # "done"
    /\ asked' = asked + 1
    /\ controls' = Append(controls, "query")
    /\ unnotified' = unnotified + 1
    /\ UNCHANGED <<flagVars, pipeVars, input, outputs, writes, ownerVars, writerVars,
                   readerVars, observerVars, offered, closer, released,
                   worldVars>>

Notify ==
    /\ unnotified > 0
    /\ unnotified' = unnotified - 1
    /\ wake' = TRUE
    /\ UNCHANGED <<closing, inputClosed, requested, pipeVars, input, controls, outputs,
                   writes, ownerVars, writerVars, readerVars, observerVars, offered,
                   asked, closer, released, worldVars>>

(* RuntimeClient::close stores the flag and then sends a control. *)
Close ==
    /\ "close" \in Happenings /\ closer = "idle"
    /\ closer' = "stored"
    /\ closing' = TRUE
    /\ UNCHANGED <<inputClosed, requested, wake, pipeVars, input, controls, outputs,
                   writes, ownerVars, writerVars, readerVars, observerVars, offered,
                   asked, unnotified, released, worldVars>>

CloseSent ==
    /\ closer = "stored"
    /\ closer' = "sent"
    /\ controls' = Append(controls, "wake")
    /\ unnotified' = unnotified + 1
    /\ UNCHANGED <<flagVars, pipeVars, input, outputs, writes, ownerVars, writerVars,
                   readerVars, observerVars, offered, asked, released,
                   worldVars>>

-----------------------------------------------------------------------------
(* The owner: ending input, and the exit of the child. *)

CloseInput ==
    /\ inputClosed' = TRUE
    /\ pending' = <<>>
    /\ released' = released \cup {"writes", "writer"}

(* settle_ended_command: nothing can end the command once both are over. *)
Settled(exit, eof) ==
    IF exit /\ eof /\ command = "running" THEN "abandoned" ELSE command

ExitSeen == ~childExited /\ result = "exited"

(* Mutant: only the end of the output settles the command. *)
RecordExitUnsettled ==
    /\ childExited' = TRUE
    /\ CloseInput
    /\ UNCHANGED <<outputEnded, failed, closing, command>>

RecordExit ==
    /\ childExited' = TRUE
    /\ CloseInput
    /\ command' = Settled(TRUE, outputEnded)
    /\ UNCHANGED <<outputEnded, failed, closing>>

(* Reported to the viewers; the loop stops at its next check. *)
Fail == failed' = TRUE /\ closing' = TRUE

(* A turn starts by observing the exit of the child. *)
Turn ==
    /\ pc = "turn" /\ ~closing
    /\ pc' = "controls"
    /\ drained' = 0
    /\ \/ ExitSeen /\ RecordExit
       \/ /\ ~childExited /\ result = "error"
          /\ Fail
          /\ UNCHANGED <<childExited, outputEnded, command, inputClosed, pending, released>>
       \/ /\ childExited \/ result = "none"
          /\ UNCHANGED <<endVars, closing, inputClosed, pending, released>>
    /\ UNCHANGED <<requested, wake, pipeVars, input, controls, outputs, writes, back,
                   budget, left, outputTurn, parsed, writerVars, readerVars,
                   observerVars, clientVars, worldVars>>

TurnEnds ==
    /\ pc = "turn" /\ closing
    /\ pc' = "ending"
    /\ UNCHANGED <<flagVars, pipeVars, input, controls, outputs, writes, loopVars, pending,
                   endVars, parsed, writerVars, readerVars, observerVars, clientVars,
                   released, worldVars>>

-----------------------------------------------------------------------------
(* The owner: controls, at most ControlBatch a turn. *)

(* Mutant: one control too many. *)
DrainOneMore(control) ==
    /\ pc = "controls" /\ drained <= ControlBatch
    /\ controls # <<>> /\ Head(controls) = control
    /\ controls' = Tail(controls)
    /\ drained' = drained + 1

Drain(control) ==
    /\ pc = "controls" /\ drained < ControlBatch
    /\ controls # <<>> /\ Head(controls) = control
    /\ controls' = Tail(controls)
    /\ drained' = drained + 1

(* A control found after the runtime was told to stop is not handled. *)
Handle(control) == Drain(control) /\ ~closing

Answer ==
    /\ Handle("query")
    /\ UNCHANGED <<flagVars, pipeVars, input, outputs, writes, pc, back, budget, left,
                   outputTurn, pending, endVars, parsed, writerVars, readerVars,
                   observerVars, clientVars, released, worldVars>>

(* Once the runtime was told to stop it leaves the controls it finds. *)
Abandon ==
    /\ closing
    /\ \E control \in Controls : Drain(control)
    /\ pc' = "ending"
    /\ UNCHANGED <<flagVars, pipeVars, input, outputs, writes, back, budget, left,
                   outputTurn, pending, endVars, parsed, writerVars, readerVars,
                   observerVars, clientVars, released, worldVars>>

(* Mutant: a writer's failure is fatal even after the exit of the child. *)
WriterFailureFatal ==
    /\ Handle("writer_failed")
    /\ IF ExitSeen THEN RecordExit
       ELSE /\ Fail
            /\ UNCHANGED <<childExited, outputEnded, command, inputClosed, pending, released>>
    /\ UNCHANGED <<requested, wake, pipeVars, input, outputs, writes, pc, back, budget,
                   left, outputTurn, parsed, writerVars, readerVars, observerVars,
                   clientVars, worldVars>>

(* The exit may have happened since the turn began; then it is no failure. *)
WriterFailure ==
    /\ Handle("writer_failed")
    /\ IF ExitSeen THEN RecordExit
       ELSE IF childExited THEN UNCHANGED <<endVars, closing, inputClosed, pending, released>>
       ELSE /\ Fail
            /\ UNCHANGED <<childExited, outputEnded, command, inputClosed, pending, released>>
    /\ UNCHANGED <<requested, wake, pipeVars, input, outputs, writes, pc, back, budget,
                   left, outputTurn, parsed, writerVars, readerVars, observerVars,
                   clientVars, worldVars>>

WriterHangup ==
    /\ Handle("hangup")
    /\ CloseInput
    /\ UNCHANGED <<closing, requested, wake, pipeVars, input, outputs, writes, pc, back,
                   budget, left, outputTurn, endVars, parsed, writerVars, readerVars,
                   observerVars, clientVars, worldVars>>

(* Mutant: the end of output does not wait for the batches before it. *)
ReaderEndAtOnce(control) ==
    /\ Handle(control)
    /\ pc' = "drain"
    /\ back' = control
    /\ budget' = 0
    /\ IF control = "reader_failed" THEN CloseInput
       ELSE UNCHANGED <<inputClosed, pending, released>>
    /\ UNCHANGED <<closing, requested, wake, pipeVars, input, outputs, writes, left,
                   outputTurn, endVars, parsed, writerVars, readerVars, observerVars,
                   clientVars, worldVars>>

(* The reader stopped: what it queued is parsed before the end is acted on; *)
(* after a failure replies are moot, so input closes first.                 *)
ReaderEnd(control) ==
    /\ Handle(control)
    /\ pc' = "drain"
    /\ back' = control
    /\ budget' = OutputCapacity
    /\ IF control = "reader_failed" THEN CloseInput
       ELSE UNCHANGED <<inputClosed, pending, released>>
    /\ UNCHANGED <<closing, requested, wake, pipeVars, input, outputs, writes, left,
                   outputTurn, endVars, parsed, writerVars, readerVars, observerVars,
                   clientVars, worldVars>>

ControlsHandled ==
    /\ pc = "controls"
    /\ drained = ControlBatch \/ controls = <<>>
    /\ pc' = IF closing THEN "ending" ELSE "flush"
    /\ UNCHANGED <<flagVars, pipeVars, input, controls, outputs, writes, loopVars, pending,
                   endVars, parsed, writerVars, readerVars, observerVars, clientVars,
                   released, worldVars>>

-----------------------------------------------------------------------------
(* The owner: parsing output and writing to the PTY. *)

(* A message is handled when its last write is made or dropped. *)
Writing(n, return) ==
    /\ left' = n
    /\ pc' = IF n > 0 THEN "write" ELSE IF return = "turn" THEN "turn" ELSE "drain"

(* One batch may settle the command and makes some replies. *)
Parse(last, return) ==
    /\ parsed' = last
    /\ command' = IF last = MaxOutput /\ command = "running" THEN "settled" ELSE command
    /\ \E n \in 0..MaxReplies : Writing(n, return)

DrainBatch ==
    /\ pc = "drain" /\ budget > 0 /\ ~closing
    /\ outputs # <<>>
    /\ Parse(Head(outputs), back)
    /\ outputs' = Tail(outputs)
    /\ budget' = budget - 1
    /\ UNCHANGED <<flagVars, pipeVars, input, controls, writes, back, drained, outputTurn,
                   pending, childExited, outputEnded, failed, writerVars, readerVars,
                   observerVars, clientVars, released, worldVars>>

OutputEnds ==
    /\ pc = "drain"
    /\ budget = 0 \/ closing \/ outputs = <<>>
    /\ outputEnded' = TRUE
    /\ command' = Settled(childExited, TRUE)
    /\ IF back = "reader_failed" THEN Fail ELSE UNCHANGED <<failed, closing>>
    /\ pc' = "controls" /\ back' = "turn" /\ budget' = 0
    /\ UNCHANGED <<inputClosed, requested, wake, pipeVars, input, controls, outputs,
                   writes, drained, left, outputTurn, pending, childExited, parsed,
                   writerVars, readerVars, observerVars, clientVars, released, worldVars>>

(* Owner::queue_write: once input has closed a write is dropped ... *)
Write ==
    /\ pc = "write" /\ left > 0
    /\ IF inputClosed THEN Writing(left - 1, back)
       ELSE pc' = "try" /\ UNCHANGED left
    /\ UNCHANGED <<flagVars, pipeVars, input, controls, outputs, writes, back, drained,
                   budget, outputTurn, pending, endVars, parsed, writerVars, readerVars,
                   observerVars, clientVars, released, worldVars>>

WriterGone == wpc = "done" \/ "writes" \in released

(* Mutant: a write overtakes the ones that spilled. *)
TryWriteFirst ==
    /\ pc = "try" /\ (pending # <<>> \/ ~WriterGone)
    /\ Accept
    /\ IF Len(writes) < WriterCapacity
       THEN writes' = Append(writes, accepted + 1) /\ UNCHANGED pending
       ELSE pending' = Append(pending, accepted + 1) /\ UNCHANGED writes
    /\ Writing(left - 1, back)
    /\ UNCHANGED <<flagVars, input, controls, outputs, back, drained, budget, outputTurn,
                   endVars, parsed, writerVars, readerVars, observerVars, clientVars,
                   released, worldVars>>

(* ... otherwise it goes to the writer, or behind the writes that spilled, *)
(* or spills itself ...                                                    *)
TryWrite ==
    /\ pc = "try" /\ (pending # <<>> \/ ~WriterGone)
    /\ Accept
    /\ IF pending = <<>> /\ Len(writes) < WriterCapacity
       THEN writes' = Append(writes, accepted + 1) /\ UNCHANGED pending
       ELSE pending' = Append(pending, accepted + 1) /\ UNCHANGED writes
    /\ Writing(left - 1, back)
    /\ UNCHANGED <<flagVars, input, controls, outputs, back, drained, budget, outputTurn,
                   endVars, parsed, writerVars, readerVars, observerVars, clientVars,
                   released, worldVars>>

(* ... and a writer that is gone is a failure ... *)
WriteClosed ==
    /\ pc = "try" /\ pending = <<>> /\ WriterGone
    /\ pc' = "closed"
    /\ UNCHANGED <<flagVars, pipeVars, input, controls, outputs, writes, loopVars, pending,
                   endVars, parsed, writerVars, readerVars, observerVars, clientVars,
                   released, worldVars>>

(* Mutant: a writer that stopped at a hangup is a failure. *)
WriteNeverExcused ==
    /\ pc = "closed"
    /\ Fail
    /\ Writing(0, back)
    /\ UNCHANGED <<inputClosed, requested, wake, pipeVars, input, controls, outputs,
                   writes, back, drained, budget, outputTurn, childExited, outputEnded,
                   command, pending, parsed, writerVars, readerVars, observerVars,
                   clientVars, released, worldVars>>

(* ... unless it found the terminal hung up, which closed input first. *)
WriteExcused ==
    /\ pc = "closed"
    /\ IF inputClosed
       THEN /\ pending' = <<>>
            /\ Writing(left - 1, back)
            /\ UNCHANGED <<failed, closing>>
       ELSE /\ Fail
            /\ Writing(0, back)
            /\ UNCHANGED pending
    /\ UNCHANGED <<inputClosed, requested, wake, pipeVars, input, controls, outputs,
                   writes, back, drained, budget, outputTurn, childExited, outputEnded,
                   command, parsed, writerVars, readerVars, observerVars, clientVars,
                   released, worldVars>>

-----------------------------------------------------------------------------
(* The owner: spilled writes go first; no message is taken before them. *)

Flush ==
    /\ pc \in {"flush", "reflush"}
    /\ CASE pending = <<>> -> pc' = "next" /\ UNCHANGED <<writes, pending>>
         [] pending # <<>> /\ WriterGone ->
               /\ pending' = Tail(pending)
               /\ pc' = "unflushed"
               /\ UNCHANGED writes
         [] pending # <<>> /\ ~WriterGone /\ Len(writes) < WriterCapacity ->
               /\ writes' = Append(writes, Head(pending))
               /\ pending' = Tail(pending)
               /\ UNCHANGED pc
         [] OTHER ->
               /\ pc' = IF pc = "flush" THEN "request" ELSE "full"
               /\ UNCHANGED <<writes, pending>>
    /\ UNCHANGED <<flagVars, pipeVars, input, controls, outputs, loopVars, endVars, parsed,
                   writerVars, readerVars, observerVars, clientVars, released, worldVars>>

FlushExcused ==
    /\ pc = "unflushed"
    /\ IF inputClosed
       THEN /\ pending' = <<>>
            /\ pc' = "next"
            /\ UNCHANGED <<failed, closing>>
       ELSE /\ Fail
            /\ pc' = "turn"
            /\ UNCHANGED pending
    /\ UNCHANGED <<inputClosed, requested, wake, pipeVars, input, controls, outputs,
                   writes, loopVars, childExited, outputEnded, command, parsed, writerVars,
                   readerVars, observerVars, clientVars, released, worldVars>>

(* Mutant: the request is not followed by another try. *)
RequestWakeOnce ==
    /\ pc = "request"
    /\ requested' = TRUE
    /\ pc' = "full"
    /\ UNCHANGED <<closing, inputClosed, wake, pipeVars, input, controls, outputs, writes,
                   loopVars, pending, endVars, parsed, writerVars, readerVars,
                   observerVars, clientVars, released, worldVars>>

(* Asks for a wake and tries again: the writer may have made room before it *)
(* could see the request.                                                   *)
RequestWake ==
    /\ pc = "request"
    /\ requested' = TRUE
    /\ pc' = "reflush"
    /\ UNCHANGED <<closing, inputClosed, wake, pipeVars, input, controls, outputs, writes,
                   loopVars, pending, endVars, parsed, writerVars, readerVars,
                   observerVars, clientVars, released, worldVars>>

(* Mutant: it sleeps even if it stopped short. *)
AsleepAnyway == pc \in {"full", "idle"} /\ ~wake

(* Idle or full, the owner sleeps until it is notified, unless it stopped   *)
(* short of the controls' end.                                              *)
Asleep == pc \in {"full", "idle"} /\ drained < ControlBatch /\ ~wake

Wait ==
    /\ pc \in {"full", "idle"} /\ ~Asleep
    /\ wake' = (wake /\ drained = ControlBatch)
    /\ pc' = "turn"
    /\ UNCHANGED <<closing, inputClosed, requested, pipeVars, input, controls, outputs,
                   writes, loopVars, pending, endVars, parsed, writerVars, readerVars,
                   observerVars, clientVars, released, worldVars>>

-----------------------------------------------------------------------------
(* The owner: the next message, output or input, each other's turn. *)

TakeInput ==
    /\ input > 0
    /\ input' = input - 1
    /\ Writing(1, "turn")
    /\ outputTurn' = TRUE
    /\ UNCHANGED <<outputs, parsed, command>>

TakeOutput ==
    /\ outputs # <<>>
    /\ Parse(Head(outputs), "turn")
    /\ outputs' = Tail(outputs)
    /\ outputTurn' = FALSE
    /\ UNCHANGED input

(* Neither queue: the one it polls first may fill while it polls the other. *)
TakeNothing(polled, else) ==
    /\ polled
    /\ pc' = else
    /\ UNCHANGED <<input, outputs, left, parsed, command>>

NextMessage ==
    /\ \/ /\ pc = "next"
          /\ \/ outputTurn /\ TakeOutput
             \/ ~outputTurn /\ TakeInput
             \/ /\ TakeNothing(IF outputTurn THEN outputs = <<>> ELSE input = 0, "other")
                /\ UNCHANGED outputTurn
       \/ /\ pc = "other"
          /\ \/ outputTurn /\ TakeInput
             \/ ~outputTurn /\ TakeOutput
             \/ /\ TakeNothing(IF outputTurn THEN input = 0 ELSE outputs = <<>>, "idle")
                /\ outputTurn' = FALSE
    /\ UNCHANGED <<flagVars, pipeVars, controls, writes, back, drained, budget, pending,
                   childExited, outputEnded, failed, writerVars, readerVars, observerVars,
                   clientVars, released, worldVars>>

-----------------------------------------------------------------------------
(* The owner: teardown. *)

(* Mutant: the output queue outlives the reader. *)
TeardownKeepsOutput ==
    /\ pc = "ending"
    /\ closing' = TRUE
    /\ command' = IF command = "running" THEN "abandoned" ELSE command
    /\ released' = Releases \ {"outputs"}
    /\ pc' = "join_reader"
    /\ UNCHANGED <<inputClosed, requested, wake, pipeVars, input, controls, outputs,
                   writes, loopVars, pending, childExited, outputEnded, failed, parsed,
                   writerVars, readerVars, observerVars, clientVars, worldVars>>

(* A running command is settled, whatever the writer and reader wait for is *)
(* dropped or cancelled, and only then are they joined.                     *)
Teardown ==
    /\ pc = "ending"
    /\ closing' = TRUE
    /\ command' = IF command = "running" THEN "abandoned" ELSE command
    /\ released' = Releases
    /\ pc' = "join_reader"
    /\ UNCHANGED <<inputClosed, requested, wake, pipeVars, input, controls, outputs,
                   writes, loopVars, pending, childExited, outputEnded, failed, parsed,
                   writerVars, readerVars, observerVars, clientVars, worldVars>>

Join ==
    /\ \/ pc = "join_reader" /\ rpc = "done" /\ pc' = "join_writer"
       \/ pc = "join_writer" /\ wpc = "done" /\ pc' = "done"
    /\ UNCHANGED <<flagVars, pipeVars, input, controls, outputs, writes, loopVars, pending,
                   endVars, parsed, writerVars, readerVars, observerVars, clientVars,
                   released, worldVars>>

Owner ==
    \/ Turn \/ TurnEnds
    \/ Answer \/ Abandon \/ WriterFailure \/ WriterHangup
    \/ \E control \in {"eof", "reader_failed"} : ReaderEnd(control)
    \/ ControlsHandled
    \/ DrainBatch \/ OutputEnds
    \/ Write \/ TryWrite \/ WriteClosed \/ WriteExcused
    \/ Flush \/ FlushExcused \/ RequestWake \/ Wait
    \/ NextMessage
    \/ Teardown \/ Join

-----------------------------------------------------------------------------
(* The writer thread. *)

WriterTop ==
    /\ wpc = "top"
    /\ wpc' = IF closing \/ inputClosed THEN "done"
              ELSE IF current = None THEN "receive" ELSE "check"
    /\ UNCHANGED <<flagVars, pipeVars, input, controls, outputs, writes, ownerVars, current,
                   offset, readerVars, observerVars, clientVars, released, worldVars>>

Receive ==
    /\ wpc = "receive"
    /\ IF writes # <<>>
       THEN /\ current' = Head(writes)
            /\ writes' = Tail(writes)
            /\ wpc' = "dequeued"
       ELSE /\ "writes" \in released
            /\ wpc' = "done"
            /\ UNCHANGED <<current, writes>>
    /\ UNCHANGED <<flagVars, pipeVars, input, controls, outputs, ownerVars, offset, readerVars,
                   observerVars, clientVars, released, worldVars>>

(* WriterCapacity::dequeued: takes the request for a wake, if there is one. *)
Dequeued ==
    /\ wpc = "dequeued"
    /\ requested' = FALSE
    /\ wpc' = IF requested THEN "notify" ELSE "check"
    /\ UNCHANGED <<closing, inputClosed, wake, pipeVars, input, controls, outputs, writes,
                   ownerVars, current, offset, readerVars, observerVars, clientVars,
                   released, worldVars>>

WriterNotifies ==
    /\ wpc \in {"notify", "stopped"}
    /\ wake' = TRUE
    /\ wpc' = IF wpc = "notify" THEN "check" ELSE "done"
    /\ UNCHANGED <<closing, inputClosed, requested, pipeVars, input, controls, outputs,
                   writes, ownerVars, current, offset, readerVars, observerVars, clientVars,
                   released, worldVars>>

WriterChecks ==
    /\ wpc = "check"
    /\ wpc' = IF inputClosed THEN "done" ELSE "write"
    /\ UNCHANGED <<flagVars, pipeVars, input, controls, outputs, writes, ownerVars, current,
                   offset, readerVars, observerVars, clientVars, released, worldVars>>

(* The PTY takes the next part, and may be full then. *)
WritePart ==
    /\ wpc = "write" /\ offset < Parts /\ room
    /\ delivered' = Append(delivered, <<current, offset + 1>>)
    /\ offset' = offset + 1
    /\ room' \in BOOLEAN
    /\ wpc' = "top"
    /\ UNCHANGED <<flagVars, accepted, input, controls, outputs, writes, ownerVars, current,
                   readerVars, observerVars, clientVars, released, exited, hungUp, produced,
                   faults>>

WriterFlushes ==
    /\ wpc = "write" /\ offset = Parts
    /\ current' = None
    /\ offset' = 0
    /\ wpc' = "top"
    /\ UNCHANGED <<flagVars, pipeVars, input, controls, outputs, writes, ownerVars,
                   readerVars, observerVars, clientVars, released, worldVars>>

(* A write that would block, finds the terminal hung up or fails. *)
WriteStops ==
    /\ wpc = "write"
    /\ \/ offset < Parts /\ ~room /\ wpc' = "wait" /\ UNCHANGED faults
       \/ offset < Parts /\ hungUp /\ wpc' = "hung_up" /\ UNCHANGED faults
       \/ Fault("write") /\ wpc' = "failed"
    /\ UNCHANGED <<flagVars, pipeVars, input, controls, outputs, writes, ownerVars, current,
                   offset, readerVars, observerVars, clientVars, released, exited, hungUp,
                   produced, room>>

(* A cancelled wait is looked at first, then a hangup, then readiness. *)
WriterWaits ==
    /\ wpc = "wait"
    /\ \/ "writer" \in released /\ wpc' = "top" /\ UNCHANGED faults
       \/ "writer" \notin released /\ hungUp /\ wpc' = "hung_up" /\ UNCHANGED faults
       \/ "writer" \notin released /\ ~hungUp /\ room /\ wpc' = "top" /\ UNCHANGED faults
       \/ Fault("write") /\ wpc' = "failed"
    /\ UNCHANGED <<flagVars, pipeVars, input, controls, outputs, writes, ownerVars, current,
                   offset, readerVars, observerVars, clientVars, released, exited, hungUp,
                   produced, room>>

(* A hangup closes input before the runtime can hear of it. *)
HangupCloses ==
    /\ wpc = "hung_up"
    /\ inputClosed' = TRUE
    /\ wpc' = "stopping"
    /\ UNCHANGED <<closing, requested, wake, pipeVars, input, controls, outputs, writes,
                   ownerVars, current, offset, readerVars, observerVars, clientVars,
                   released, worldVars>>

(* Only a hangup reaches "stopping"; a failure leaves input open. *)
WriterReports ==
    /\ wpc \in {"stopping", "failed"}
    /\ controls' = Append(controls, IF wpc = "failed" THEN "writer_failed" ELSE "hangup")
    /\ wpc' = "stopped"
    /\ UNCHANGED <<flagVars, pipeVars, input, outputs, writes, ownerVars, current, offset,
                   readerVars, observerVars, clientVars, released, worldVars>>

Writer ==
    \/ WriterTop \/ Receive \/ Dequeued \/ WriterNotifies \/ WriterChecks
    \/ WritePart \/ WriterFlushes \/ WriteStops \/ WriterWaits
    \/ HangupCloses \/ WriterReports

-----------------------------------------------------------------------------
(* The reader thread. *)

(* forward_output sends the batch it holds before the end it found after it. *)
ReaderTop ==
    /\ rpc = "top"
    /\ rpc' = CASE closing -> "done"
                [] ~closing /\ batch # None -> "send"
                [] ~closing /\ batch = None /\ ended # None -> "end"
                [] ~closing /\ batch = None /\ ended = None /\ empty -> "wait"
                [] OTHER -> "read"
    /\ empty' = IF rpc' = "wait" THEN FALSE ELSE empty
    /\ UNCHANGED <<flagVars, pipeVars, input, controls, outputs, writes, ownerVars,
                   writerVars, batch, ended, taken, observerVars, clientVars, released,
                   worldVars>>

(* Blocks while the queue is full, until teardown drops it. *)
SendBatch ==
    /\ rpc = "send"
    /\ IF "outputs" \in released
       THEN rpc' = "done" /\ UNCHANGED <<outputs, batch>>
       ELSE /\ Len(outputs) < OutputCapacity
            /\ outputs' = Append(outputs, batch)
            /\ batch' = None
            /\ rpc' = "sent"
    /\ UNCHANGED <<flagVars, pipeVars, input, controls, writes, ownerVars, writerVars, ended,
                   empty, taken, observerVars, clientVars, released, worldVars>>

SendEnd ==
    /\ rpc = "end"
    /\ controls' = Append(controls, ended)
    /\ rpc' = "ended"
    /\ UNCHANGED <<flagVars, pipeVars, input, outputs, writes, ownerVars, writerVars, batch,
                   ended, empty, taken, observerVars, clientVars, released, worldVars>>

ReaderNotifies ==
    /\ rpc \in {"sent", "ended"}
    /\ wake' = TRUE
    /\ rpc' = IF rpc = "sent" THEN "top" ELSE "done"
    /\ UNCHANGED <<closing, inputClosed, requested, pipeVars, input, controls, outputs,
                   writes, ownerVars, writerVars, batch, ended, empty, taken, observerVars,
                   clientVars, released, worldVars>>

ReaderWaits ==
    /\ rpc = "wait"
    /\ \/ /\ produced > taken \/ hungUp \/ "reader" \in released
          /\ rpc' = "read"
          /\ UNCHANGED <<ended, faults>>
       \/ Fault("read") /\ ended' = "reader_failed" /\ rpc' = "end"
    /\ UNCHANGED <<flagVars, pipeVars, input, controls, outputs, writes, ownerVars,
                   writerVars, batch, empty, taken, observerVars, clientVars, released,
                   exited, hungUp, produced, room>>

(* A batch takes what the PTY holds, or as much as fits; it may run into    *)
(* the end or a failure, which follow it.                                  *)
ReadBatch ==
    /\ rpc = "read" /\ produced > taken
    /\ \E last \in taken + 1 .. produced : batch' = last /\ taken' = last
    /\ rpc' = "top"
    /\ \/ UNCHANGED <<ended, empty, faults>>
       \/ taken' = produced /\ ~hungUp /\ empty' = TRUE /\ UNCHANGED <<ended, faults>>
       \/ taken' = produced /\ hungUp /\ ended' = "eof" /\ UNCHANGED <<empty, faults>>
       \/ Fault("read") /\ ended' = "reader_failed" /\ UNCHANGED empty
    /\ UNCHANGED <<flagVars, pipeVars, input, controls, outputs, writes, ownerVars,
                   writerVars, observerVars, clientVars, released, exited, hungUp, produced,
                   room>>

ReadNothing ==
    /\ rpc = "read"
    /\ \/ produced = taken /\ ~hungUp /\ empty' = TRUE /\ rpc' = "top"
          /\ UNCHANGED <<ended, faults>>
       \/ produced = taken /\ hungUp /\ ended' = "eof" /\ rpc' = "end"
          /\ UNCHANGED <<empty, faults>>
       \/ Fault("read") /\ ended' = "reader_failed" /\ rpc' = "end"
          /\ UNCHANGED empty
    /\ UNCHANGED <<flagVars, pipeVars, input, controls, outputs, writes, ownerVars,
                   writerVars, batch, taken, observerVars, clientVars, released, exited,
                   hungUp, produced, room>>

Reader ==
    \/ ReaderTop \/ SendBatch \/ SendEnd \/ ReaderNotifies
    \/ ReaderWaits \/ ReadBatch \/ ReadNothing

-----------------------------------------------------------------------------
(* The thread that waits for the child, and the application. *)

(* The result is stored before the owner is woken for it; a failed wait is *)
(* reported, and tried again.                                              *)
Observe ==
    /\ \/ xpc = "waiting" /\ exited /\ result' = "exited" /\ xpc' = "observed"
          /\ UNCHANGED <<wake, faults>>
       \/ xpc = "waiting" /\ ~exited /\ result = "none" /\ Fault("wait")
          /\ result' = "error" /\ xpc' = "erred" /\ UNCHANGED wake
       \/ xpc \in {"observed", "erred"} /\ wake' = TRUE
          /\ xpc' = (IF xpc = "observed" THEN "done" ELSE "waiting")
          /\ UNCHANGED <<result, faults>>
    /\ UNCHANGED <<closing, inputClosed, requested, pipeVars, input, controls, outputs,
                   writes, ownerVars, writerVars, readerVars, clientVars, released, exited,
                   hungUp, produced, room>>

Exit ==
    /\ "exit" \in Happenings /\ ~exited
    /\ exited' = TRUE
    /\ UNCHANGED <<hungUp, produced, room, faults>>

(* The last process that held the terminal open closed it. *)
HangUp ==
    /\ "hangup" \in Happenings /\ ~hungUp
    /\ hungUp' = TRUE
    /\ UNCHANGED <<exited, produced, room, faults>>

Produce ==
    /\ produced < MaxOutput /\ ~hungUp
    /\ produced' = produced + 1
    /\ UNCHANGED <<exited, hungUp, room, faults>>

TakesInput ==
    /\ ~room /\ ~hungUp
    /\ room' = TRUE
    /\ UNCHANGED <<exited, hungUp, produced, faults>>

Application ==
    /\ Exit \/ HangUp \/ Produce \/ TakesInput
    /\ UNCHANGED <<flagVars, pipeVars, input, controls, outputs, writes, ownerVars,
                   writerVars, readerVars, observerVars, clientVars, released>>

Clients == Offer \/ Ask \/ Notify \/ Close \/ CloseSent

RuntimeNext == Owner \/ Writer \/ Reader \/ Observe \/ Clients \/ Application

RuntimeSpec == RuntimeInit /\ [][RuntimeNext]_vars

(* Threads run on, and so does a send or a close once it has begun.  What   *)
(* clients, the child and the application do next is up to them.            *)
RuntimeFairSpec ==
    /\ RuntimeSpec
    /\ WF_vars(Owner) /\ WF_vars(Writer) /\ WF_vars(Reader) /\ WF_vars(Observe)
    /\ WF_vars(Notify) /\ WF_vars(CloseSent)

-----------------------------------------------------------------------------
FlagTypes ==
    /\ closing \in BOOLEAN /\ inputClosed \in BOOLEAN
    /\ requested \in BOOLEAN /\ wake \in BOOLEAN
    /\ outputTurn \in BOOLEAN /\ childExited \in BOOLEAN
    /\ outputEnded \in BOOLEAN /\ failed \in BOOLEAN
    /\ empty \in BOOLEAN /\ exited \in BOOLEAN
    /\ hungUp \in BOOLEAN /\ room \in BOOLEAN

CountTypes ==
    /\ input \in Nat /\ left \in Nat
    /\ drained \in 0..ControlBatch /\ budget \in 0..OutputCapacity
    /\ offered \in Nat /\ asked \in Nat /\ unnotified \in Nat
    /\ produced \in Nat /\ taken \in 0..produced /\ parsed \in 0..taken

OwnerTypes ==
    /\ pc \in OwnerStates /\ back \in Returns
    /\ command \in {"running", "settled", "abandoned"}

ThreadTypes ==
    /\ wpc \in WriterStates /\ rpc \in ReaderStates
    /\ xpc \in {"waiting", "observed", "erred", "done"}
    /\ closer \in {"idle", "stored", "sent"}

ResultTypes ==
    /\ ended \in {None, "eof", "reader_failed"}
    /\ result \in {"none", "error", "exited"}
    /\ released \subseteq Releases /\ faults \subseteq Happenings

InputTypes ==
    /\ accepted \in Nat /\ delivered \in Seq(Nat \X (1..Parts))
    /\ writes \in Seq(1..accepted) /\ Len(writes) <= WriterCapacity
    /\ pending \in Seq(1..accepted)
    /\ current \in (1..accepted) \cup {None} /\ offset \in 0..Parts

OutputTypes ==
    /\ controls \in Seq(Controls)
    /\ outputs \in Seq(1..taken) /\ Len(outputs) <= OutputCapacity
    /\ batch \in (1..taken) \cup {None}

TypeOK ==
    /\ FlagTypes /\ CountTypes /\ OwnerTypes /\ ThreadTypes /\ ResultTypes
    /\ InputTypes /\ OutputTypes

(* Whatever fills, spills, hangs up or stops, the parts of the writes the   *)
(* runtime accepted reach the PTY in order, each once and none skipped.     *)
InputInOrder == Spec

(* Somebody is about to notify the owner. *)
Notifying ==
    \/ unnotified > 0 \/ closer = "stored"
    \/ wpc \in {"notify", "stopping", "failed", "stopped"}
    \/ rpc \in {"sent", "ended"}
    \/ xpc \in {"observed", "erred"}

(* No wake is lost: while the owner sleeps and nobody is about to notify    *)
(* it, it was not told to stop, it handled every control, it knows of the   *)
(* exit, and it either handled every message too or has asked a writer      *)
(* whose queue is full to notify it.                                        *)
NoLostWake ==
    Asleep /\ ~Notifying =>
        /\ ~closing /\ controls = <<>>
        /\ childExited \/ result # "exited"
        /\ IF pc = "idle" THEN input = 0 /\ outputs = <<>> /\ pending = <<>>
           ELSE requested /\ wpc # "done" /\ (writes # <<>> \/ wpc = "dequeued")

(* A hangup or the exit of the child ends input quietly: unless a client    *)
(* closes the runtime, only a read, write or wait that really failed is     *)
(* ever reported as the terminal's failure.                                 *)
FailureHasCause == failed => faults # {} \/ closer # "idle"

(* A close a client asked for is no failure of the terminal.  desktop.rs    *)
(* says so: "A stop after the exit, or after a close request, is that exit  *)
(* or close".                                                               *)
CloseIsNoFailure == failed => faults # {}

(* Once the exit of the child was observed, a writer that fails late does   *)
(* not stop the runtime, whose history viewers may still read.              *)
HistoryKept ==
    [][childExited /\ ~closing /\ closing' /\ closer' = "idle"
          => faults' \ {"write"} # {}]_vars

(* Unless the runtime was told to stop, the end of output is acted on only  *)
(* when every chunk that was read has been parsed, so no command whose end  *)
(* was read is taken to have been abandoned.                                *)
OutputComplete == outputEnded /\ ~closing => parsed = taken

(* Once the child has exited and the terminal has hung up, the running      *)
(* command is settled or abandoned, unless the runtime stops.               *)
CommandSettles == exited /\ hungUp ~> closing \/ command # "running"

(* A runtime that was told to stop, or stops by itself, ends: neither a     *)
(* full queue, a full PTY nor an idle wait holds its threads.               *)
TeardownEnds == closing ~> pc = "done"

(* While the application goes on reading, all input offered reaches it, or  *)
(* input closes, or the runtime stops.                                      *)
InputArrives ==
    []<>room => \/ <>(closing \/ inputClosed)
                \/ <>[](input = 0 /\ LastPart(delivered) = <<accepted, Parts>>)
=============================================================================
