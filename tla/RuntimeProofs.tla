--------------------------- MODULE RuntimeProofs ---------------------------
(***************************************************************************)
(* One terminal's runtime, for any capacities, any number of writes,       *)
(* replies, chunks and controls, and any exits and failures: the inductive *)
(* invariant, in parts that each explain one property, and the safety      *)
(* properties that follow from it.                                         *)
(***************************************************************************)
EXTENDS Runtime, SequenceTheorems, TLAPS

Queued(q, control) == \E i \in 1..Len(q) : q[i] = control

(* Where the owner is after its last look at the controls of a turn. *)
Late == {"flush", "request", "reflush", "unflushed", "full", "next", "other", "idle"}

Final == {"ending", "join_reader", "join_writer", "done"}

(* The owner's own bookkeeping. *)
LoopInv ==
    /\ pc \in {"try", "closed"} => left > 0
    /\ pc = "drain" => back # "turn"
    /\ pc \in {"turn", "controls"} \cup Late => back = "turn"
    /\ pc \in {"next", "other", "idle"} => pending = <<>>
    /\ pc = "full" => pending # <<>>
    /\ pc \in {"closed", "unflushed"} => WriterGone
    /\ pc \in Final => closing

(* Nothing spills once input has closed, except a write that was under way  *)
(* when the writer met a hangup; that hangup is still to be handled.        *)
NoSpill == inputClosed /\ pending = <<>> /\ pc # "try"

CloseInv ==
    /\ childExited => NoSpill
    /\ "writes" \in released => NoSpill \/ pc \in Final
    /\ inputClosed => wpc = "stopping" \/ Queued(controls, "hangup") \/ NoSpill \/ pc \in Final
    /\ wpc = "stopping" => inputClosed
    /\ Queued(controls, "hangup") => wpc \in {"stopped", "done"}

(* The number of the write under way, or of the last one finished. *)
Base == IF current = None THEN LastPart(delivered)[1] ELSE current

(* What was accepted and not yet finished is the write under way, the       *)
(* writer's queue and the spilled writes, in that order and without a gap,  *)
(* as long as there is a writer.                                            *)
PipeInv ==
    /\ wpc \in {"dequeued", "notify", "check", "write", "wait"} => current # None
    /\ wpc = "receive" => current = None
    /\ current = None => offset = 0 /\ LastPart(delivered)[2] = Parts
    /\ current # None =>
          LastPart(delivered) = IF offset = 0 THEN <<current - 1, Parts>>
                                ELSE <<current, offset>>
    /\ \A i \in 1..Len(writes) : writes[i] = Base + i
    /\ ~WriterGone =>
          /\ accepted = Base + Len(writes) + Len(pending)
          /\ \A i \in 1..Len(pending) : pending[i] = Base + Len(writes) + i

(* The reader sent all it read, and its end. *)
ReaderEnded == batch = None /\ rpc \in {"ended", "done"}

(* The last chunk in the path from the reader to the parser is the last     *)
(* one read, and the end comes after it.                                    *)
OutputInv ==
    /\ rpc \in {"send"} => batch # None
    /\ rpc \in {"sent", "wait", "read", "end", "ended"} => batch = None
    /\ rpc = "end" => ended # None
    /\ batch # None => batch = taken
    /\ batch = None => taken = (IF outputs = <<>> THEN parsed ELSE outputs[Len(outputs)])
    /\ Queued(controls, "eof") \/ Queued(controls, "reader_failed") => ReaderEnded
    /\ back # "turn" => ReaderEnded /\ Len(outputs) <= budget
    /\ outputEnded => ReaderEnded
    /\ outputEnded /\ ~closing => outputs = <<>>

(* A failure of the terminal, or a client's close. *)
Cause == faults # {} \/ closer # "idle"

CauseInv ==
    /\ failed \/ closing => Cause
    /\ wpc \in {"stopped", "done"} => Cause \/ inputClosed
    /\ wpc = "failed" \/ Queued(controls, "writer_failed") => Cause
    /\ ended = "reader_failed" \/ Queued(controls, "reader_failed") => "read" \in faults
    /\ back = "reader_failed" => "read" \in faults
    /\ result = "error" => Cause

(* What the owner will be notified of, or was. *)
WakeInv ==
    /\ \/ pc \in {"turn"} \cup Final \/ childExited
       \/ result # "exited" \/ wake \/ xpc = "observed"
    /\ pc \in Late /\ closing => wake \/ closer = "stored" \/ unnotified > 0
    /\ pc \in Late /\ drained < ControlBatch /\ controls # <<>> =>
          wake \/ unnotified > 0 \/ wpc = "stopped" \/ rpc = "ended"
    /\ outputs # <<>> =>
          \/ wake \/ rpc = "sent"
          \/ pc = "other" /\ ~outputTurn
          \/ pc \notin {"other", "idle"}
    /\ input > 0 =>
          \/ wake \/ unnotified > 0
          \/ pc = "other" /\ outputTurn
          \/ pc \notin {"other", "idle"}
    /\ pc \in {"reflush", "full"} => requested \/ wake \/ wpc = "notify"
    /\ pc = "full" => wake \/ wpc \in {"notify", "dequeued"} \/ writes # <<>>
    /\ pc = "full" /\ wpc = "done" => wake \/ closer = "stored" \/ unnotified > 0

IInv ==
    TypeOK /\ LoopInv /\ CloseInv /\ PipeInv /\ OutputInv /\ CauseInv /\ WakeInv

-----------------------------------------------------------------------------
(* The capacities and bounds are numbers, and a control is not None. *)
LEMMA Constants ==
    /\ Parts \in Nat \ {0}
    /\ WriterCapacity \in Nat \ {0} /\ OutputCapacity \in Nat \ {0}
    /\ ControlBatch \in Nat \ {0}
    /\ MaxRequests \in Nat /\ MaxQueries \in Nat
    /\ MaxReplies \in Nat /\ MaxOutput \in Nat
    /\ None \notin Nat /\ None \notin Controls
BY PartsAssumption, RuntimeAssumption, NoControlAssumption

(* Queues. *)

(* Sending to a queue. *)
LEMMA Sent ==
    ASSUME NEW S, NEW q \in Seq(S), NEW x \in S
    PROVE  /\ Append(q, x) \in Seq(S) /\ Append(q, x) # <<>>
           /\ Len(q) \in Nat /\ Len(Append(q, x)) = Len(q) + 1
           /\ \A i \in 1..Len(q) : Append(q, x)[i] = q[i]
           /\ Append(q, x)[Len(q) + 1] = x
  BY AppendProperties, EmptySeq

(* Receiving from a queue: the others move up, and the last stays the last. *)
LEMMA Received ==
    ASSUME NEW S, NEW q \in Seq(S), q # <<>>
    PROVE  /\ Tail(q) \in Seq(S) /\ Head(q) \in S /\ Head(q) = q[1]
           /\ Len(q) \in Nat \ {0} /\ Len(Tail(q)) = Len(q) - 1
           /\ \A i \in 1..Len(Tail(q)) : Tail(q)[i] = q[i + 1]
           /\ \A i \in 2..Len(q) : i - 1 \in 1..Len(Tail(q)) /\ q[i] = Tail(q)[i - 1]
           /\ IF Tail(q) = <<>> THEN q[Len(q)] = Head(q)
              ELSE q[Len(q)] = Tail(q)[Len(Tail(q))]
<1> DEFINE r == Tail(q)
<1>1. /\ r \in Seq(S) /\ Len(q) \in Nat \ {0} /\ Len(r) = Len(q) - 1
      /\ \A i \in 1..Len(r) : r[i] = q[i + 1]
      /\ Head(q) = q[1] /\ Head(q) \in S
  BY HeadTailProperties, EmptySeq
<1> HIDE DEF r
<1>2. ASSUME NEW i \in 2..Len(q)
      PROVE  i - 1 \in 1..Len(r) /\ q[i] = r[i - 1]
  <2>1. i - 1 \in 1..Len(r) /\ (i - 1) + 1 = i
    BY <1>1
  <2> QED BY <1>1, <2>1
<1>3. r = <<>> <=> Len(q) = 1
  BY <1>1, EmptySeq
<1>4. CASE Len(q) = 1
  BY <1>1, <1>2, <1>3, <1>4 DEF r
<1>5. CASE Len(q) # 1
  <2>1. Len(r) \in 1..Len(r) /\ Len(r) + 1 = Len(q)
    BY <1>1, <1>5
  <2>2. r[Len(r)] = q[Len(q)]
    BY <1>1, <2>1
  <2> QED BY <1>1, <1>2, <1>3, <1>5, <2>2 DEF r
<1> QED BY <1>4, <1>5

(* A queue of numbers up to n is one of numbers up to n + 1. *)
LEMMA Wider ==
    ASSUME NEW m \in Nat, NEW n \in Nat, m <= n, NEW q \in Seq(1..m)
    PROVE  q \in Seq(1..n)
<1>1. 1..m \subseteq 1..n
  OBVIOUS
<1> QED BY <1>1

(* What a control queue holds after a send. *)
LEMMA QueuedAppend ==
    ASSUME NEW q \in Seq(Controls), NEW x \in Controls
    PROVE  /\ Append(q, x) \in Seq(Controls) /\ Append(q, x) # <<>>
           /\ \A c : Queued(Append(q, x), c) <=> Queued(q, c) \/ c = x
BY Sent DEF Queued

(* What a control queue holds after a receive. *)
LEMMA QueuedTail ==
    ASSUME NEW q \in Seq(Controls), q # <<>>
    PROVE  /\ Tail(q) \in Seq(Controls) /\ Head(q) \in Controls
           /\ Queued(q, Head(q))
           /\ \A c : Queued(q, c) <=> Queued(Tail(q), c) \/ c = Head(q)
<1>1. Len(q) \in Nat \ {0} /\ Head(q) = q[1] /\ Queued(q, Head(q))
  BY Received DEF Queued
<1>2. ASSUME NEW c, Queued(q, c) PROVE Queued(Tail(q), c) \/ c = Head(q)
  <2>1. PICK i \in 1..Len(q) : q[i] = c
    BY <1>2 DEF Queued
  <2>2. CASE i = 1
    BY <1>1, <2>1, <2>2
  <2>3. CASE i # 1
    <3>1. i \in 2..Len(q)
      BY <1>1, <2>1, <2>3
    <3> QED BY <2>1, <3>1, Received DEF Queued
  <2> QED BY <2>2, <2>3
<1>3. ASSUME NEW c, Queued(Tail(q), c) PROVE Queued(q, c)
  <2>1. PICK i \in 1..Len(Tail(q)) : Tail(q)[i] = c
    BY <1>3 DEF Queued
  <2>2. i + 1 \in 1..Len(q) /\ q[i + 1] = c
    BY <1>1, <2>1, Received
  <2> QED BY <2>2 DEF Queued
<1> QED BY <1>1, <1>2, <1>3, Received

-----------------------------------------------------------------------------
(* The path of the writes. *)

(* The last part delivered is a part of a write, and the write under way or *)
(* last finished has a number.                                             *)
LEMMA LastTyped ==
    ASSUME InputTypes
    PROVE  LastPart(delivered) \in Nat \X (1..Parts) /\ Base \in Nat
<1>1. delivered # <<>> => delivered[Len(delivered)] \in Nat \X (1..Parts)
  BY EmptySeq, LenProperties DEF InputTypes
<1>2. LastPart(delivered) \in Nat \X (1..Parts)
  BY <1>1, Constants DEF LastPart
<1> QED BY <1>2 DEF Base, InputTypes

-----------------------------------------------------------------------------
(* The invariant, part by part and step by step. *)

(* The flags stay flags. *)
LEMMA FlagTyped ==
    ASSUME FlagTypes, [RuntimeNext]_vars
    PROVE  FlagTypes'
<1> USE Constants DEF vars, flagVars, pipeVars, loopVars, endVars, ownerVars,
    writerVars, readerVars, observerVars, clientVars, worldVars, FlagTypes
<1>1. CASE Offer
  BY <1>1 DEF Offer
<1>2. CASE Ask
  BY <1>2 DEF Ask
<1>3. CASE Notify
  BY <1>3 DEF Notify
<1>4. CASE Close
  BY <1>4 DEF Close
<1>5. CASE CloseSent
  BY <1>5 DEF CloseSent
<1>6. CASE Turn
  <2>1. /\ failed' \in BOOLEAN /\ closing' \in BOOLEAN
        /\ childExited' \in BOOLEAN /\ outputEnded' \in BOOLEAN /\ inputClosed' \in BOOLEAN
    BY <1>6 DEF Turn, ExitSeen, RecordExit, CloseInput, Fail
  <2> QED BY <1>6, <2>1 DEF Turn
<1>7. CASE TurnEnds
  BY <1>7 DEF TurnEnds
<1>8. CASE Answer
  BY <1>8 DEF Answer
<1>9. CASE Abandon
  BY <1>9 DEF Abandon
<1>10. CASE WriterFailure
  <2>1. /\ failed' \in BOOLEAN /\ closing' \in BOOLEAN
        /\ childExited' \in BOOLEAN /\ outputEnded' \in BOOLEAN /\ inputClosed' \in BOOLEAN
    BY <1>10 DEF WriterFailure, ExitSeen, RecordExit, CloseInput, Fail
  <2> QED BY <1>10, <2>1 DEF WriterFailure
<1>11. CASE WriterHangup
  BY <1>11 DEF WriterHangup, Handle, CloseInput, Drain
<1>12. ASSUME NEW control \in {"eof", "reader_failed"}, ReaderEnd(control)
      PROVE  FlagTypes'
  <2>1. inputClosed' \in BOOLEAN
    BY <1>12 DEF ReaderEnd, CloseInput
  <2> QED BY <1>12, <2>1 DEF ReaderEnd
<1>13. CASE ControlsHandled
  BY <1>13 DEF ControlsHandled
<1>14. CASE DrainBatch
  BY <1>14 DEF DrainBatch
<1>15. CASE OutputEnds
  <2>1. /\ failed' \in BOOLEAN /\ closing' \in BOOLEAN
        /\ outputEnded' \in BOOLEAN
    BY <1>15 DEF OutputEnds, Fail
  <2> QED BY <1>15, <2>1 DEF OutputEnds
<1>16. CASE Write
  BY <1>16 DEF Write
<1>17. CASE TryWrite
  BY <1>17 DEF TryWrite
<1>18. CASE WriteClosed
  BY <1>18 DEF WriteClosed
<1>19. CASE WriteExcused
  <2>1. failed' \in BOOLEAN /\ closing' \in BOOLEAN
    BY <1>19 DEF WriteExcused, Fail
  <2> QED BY <1>19, <2>1 DEF WriteExcused
<1>20. CASE Flush
  BY <1>20 DEF Flush
<1>21. CASE FlushExcused
  <2>1. failed' \in BOOLEAN /\ closing' \in BOOLEAN
    BY <1>21 DEF FlushExcused, Fail
  <2> QED BY <1>21, <2>1 DEF FlushExcused
<1>22. CASE RequestWake
  BY <1>22 DEF RequestWake
<1>23. CASE Wait
  BY <1>23 DEF Wait
<1>24. CASE NextMessage
  <2>1. outputTurn' \in BOOLEAN
    BY <1>24 DEF NextMessage, TakeInput, TakeOutput
  <2> QED BY <1>24, <2>1 DEF NextMessage
<1>25. CASE Teardown
  BY <1>25 DEF Teardown
<1>26. CASE Join
  BY <1>26 DEF Join
<1>27. CASE WriterTop
  BY <1>27 DEF WriterTop
<1>28. CASE Receive
  BY <1>28 DEF Receive
<1>29. CASE Dequeued
  <2>1. requested' \in BOOLEAN
    BY <1>29 DEF Dequeued
  <2> QED BY <1>29, <2>1 DEF Dequeued
<1>30. CASE WriterNotifies
  BY <1>30 DEF WriterNotifies
<1>31. CASE WriterChecks
  BY <1>31 DEF WriterChecks
<1>32. CASE WritePart
  BY <1>32 DEF WritePart
<1>33. CASE WriterFlushes
  BY <1>33 DEF WriterFlushes
<1>34. CASE WriteStops
  BY <1>34 DEF WriteStops
<1>35. CASE WriterWaits
  BY <1>35 DEF WriterWaits
<1>36. CASE HangupCloses
  BY <1>36 DEF HangupCloses
<1>37. CASE WriterReports
  BY <1>37 DEF WriterReports
<1>38. CASE ReaderTop
  <2>1. empty' \in BOOLEAN
    BY <1>38 DEF ReaderTop
  <2>2. UNCHANGED <<flagVars, endVars, worldVars, outputTurn>>
    BY <1>38 DEF ReaderTop
  <2> QED BY <2>1, <2>2
<1>39. CASE SendBatch
  BY <1>39 DEF SendBatch
<1>40. CASE SendEnd
  BY <1>40 DEF SendEnd
<1>41. CASE ReaderNotifies
  BY <1>41 DEF ReaderNotifies
<1>42. CASE ReaderWaits
  BY <1>42 DEF ReaderWaits
<1>43. CASE ReadBatch
  <2>1. empty' \in BOOLEAN
    BY <1>43 DEF ReadBatch
  <2> QED BY <1>43, <2>1 DEF ReadBatch
<1>44. CASE ReadNothing
  <2>1. empty' \in BOOLEAN
    BY <1>44 DEF ReadNothing
  <2> QED BY <1>44, <2>1 DEF ReadNothing
<1>45. CASE Observe
  <2>1. wake' \in BOOLEAN
    BY <1>45 DEF Observe
  <2> QED BY <1>45, <2>1 DEF Observe
<1>46. CASE Application
  <2>1. exited' \in BOOLEAN /\ hungUp' \in BOOLEAN /\ room' \in BOOLEAN
    BY <1>46 DEF Application, Exit, HangUp, Produce, TakesInput
  <2> QED BY <1>46, <2>1 DEF Application
<1>47. CASE UNCHANGED vars
  BY <1>47
<1> QED BY <1>1, <1>2, <1>3, <1>4, <1>5, <1>6, <1>7, <1>8, <1>9, <1>10, <1>11, <1>12,
    <1>13, <1>14, <1>15, <1>16, <1>17, <1>18, <1>19, <1>20, <1>21, <1>22, <1>23, <1>24,
    <1>25, <1>26, <1>27, <1>28, <1>29, <1>30, <1>31, <1>32, <1>33, <1>34, <1>35, <1>36,
    <1>37, <1>38, <1>39, <1>40, <1>41, <1>42, <1>43, <1>44, <1>45, <1>46, <1>47 DEF
    RuntimeNext, Owner, Writer, Reader, Clients

(* The counters stay in their bounds. *)
LEMMA CountTyped ==
    ASSUME CountTypes, OutputTypes, LoopInv, [RuntimeNext]_vars
    PROVE  CountTypes'
<1> USE Constants DEF vars, flagVars, pipeVars, loopVars, endVars, ownerVars,
    writerVars, readerVars, observerVars, clientVars, worldVars, CountTypes,
    OutputTypes, LoopInv
<1>1. CASE Offer
  BY <1>1 DEF Offer
<1>2. CASE Ask
  BY <1>2 DEF Ask
<1>3. CASE Notify
  BY <1>3 DEF Notify
<1>4. CASE Close
  BY <1>4 DEF Close
<1>5. CASE CloseSent
  BY <1>5 DEF CloseSent
<1>6. CASE Turn
  BY <1>6 DEF Turn
<1>7. CASE TurnEnds
  BY <1>7 DEF TurnEnds
<1>8. CASE Answer
  BY <1>8 DEF Answer, Handle, Drain
<1>9. CASE Abandon
  BY <1>9 DEF Abandon, Controls, Drain
<1>10. CASE WriterFailure
  BY <1>10 DEF WriterFailure, Handle, ExitSeen, RecordExit, Fail, Drain, CloseInput,
      Settled
<1>11. CASE WriterHangup
  BY <1>11 DEF WriterHangup, Handle, CloseInput, Drain
<1>12. ASSUME NEW control \in {"eof", "reader_failed"}, ReaderEnd(control)
      PROVE  CountTypes'
  BY <1>12 DEF ReaderEnd, Handle, CloseInput, Drain
<1>13. CASE ControlsHandled
  BY <1>13 DEF ControlsHandled
<1>14. CASE DrainBatch
  BY <1>14, Received DEF DrainBatch, Parse, Writing
<1>15. CASE OutputEnds
  BY <1>15 DEF OutputEnds
<1>16. CASE Write
  BY <1>16 DEF Write, Writing
<1>17. CASE TryWrite
  BY <1>17 DEF TryWrite, WriterGone, Accept, Writing
<1>18. CASE WriteClosed
  BY <1>18 DEF WriteClosed
<1>19. CASE WriteExcused
  BY <1>19 DEF WriteExcused, Writing, Fail
<1>20. CASE Flush
  BY <1>20 DEF Flush
<1>21. CASE FlushExcused
  BY <1>21 DEF FlushExcused
<1>22. CASE RequestWake
  BY <1>22 DEF RequestWake
<1>23. CASE Wait
  BY <1>23 DEF Wait
<1>24. CASE NextMessage
  BY <1>24, Received DEF NextMessage, TakeOutput, TakeInput, TakeNothing, Parse, Writing
<1>25. CASE Teardown
  BY <1>25 DEF Teardown
<1>26. CASE Join
  BY <1>26 DEF Join
<1>27. CASE WriterTop
  BY <1>27 DEF WriterTop
<1>28. CASE Receive
  BY <1>28 DEF Receive
<1>29. CASE Dequeued
  BY <1>29 DEF Dequeued
<1>30. CASE WriterNotifies
  BY <1>30 DEF WriterNotifies
<1>31. CASE WriterChecks
  BY <1>31 DEF WriterChecks
<1>32. CASE WritePart
  BY <1>32 DEF WritePart
<1>33. CASE WriterFlushes
  BY <1>33 DEF WriterFlushes
<1>34. CASE WriteStops
  BY <1>34 DEF WriteStops
<1>35. CASE WriterWaits
  BY <1>35 DEF WriterWaits
<1>36. CASE HangupCloses
  BY <1>36 DEF HangupCloses
<1>37. CASE WriterReports
  BY <1>37 DEF WriterReports
<1>38. CASE ReaderTop
  BY <1>38 DEF ReaderTop
<1>39. CASE SendBatch
  BY <1>39 DEF SendBatch
<1>40. CASE SendEnd
  BY <1>40 DEF SendEnd
<1>41. CASE ReaderNotifies
  BY <1>41 DEF ReaderNotifies
<1>42. CASE ReaderWaits
  BY <1>42 DEF ReaderWaits
<1>43. CASE ReadBatch
  BY <1>43 DEF ReadBatch
<1>44. CASE ReadNothing
  BY <1>44 DEF ReadNothing
<1>45. CASE Observe
  BY <1>45 DEF Observe
<1>46. CASE Application
  BY <1>46 DEF Application, Exit, HangUp, Produce, TakesInput
<1>47. CASE UNCHANGED vars
  BY <1>47
<1> QED BY <1>1, <1>2, <1>3, <1>4, <1>5, <1>6, <1>7, <1>8, <1>9, <1>10, <1>11, <1>12,
    <1>13, <1>14, <1>15, <1>16, <1>17, <1>18, <1>19, <1>20, <1>21, <1>22, <1>23, <1>24,
    <1>25, <1>26, <1>27, <1>28, <1>29, <1>30, <1>31, <1>32, <1>33, <1>34, <1>35, <1>36,
    <1>37, <1>38, <1>39, <1>40, <1>41, <1>42, <1>43, <1>44, <1>45, <1>46, <1>47 DEF
    RuntimeNext, Owner, Writer, Reader, Clients

(* The owner stays at a place of its loop. *)
LEMMA OwnerTyped ==
    ASSUME OwnerTypes, LoopInv, [RuntimeNext]_vars
    PROVE  OwnerTypes'
<1> USE Constants DEF vars, flagVars, pipeVars, loopVars, endVars, ownerVars,
    writerVars, readerVars, observerVars, clientVars, worldVars, OwnerTypes,
    OwnerStates, Returns
<1>1. CASE Offer
  BY <1>1 DEF Offer
<1>2. CASE Ask
  BY <1>2 DEF Ask
<1>3. CASE Notify
  BY <1>3 DEF Notify
<1>4. CASE Close
  BY <1>4 DEF Close
<1>5. CASE CloseSent
  BY <1>5 DEF CloseSent
<1>6. CASE Turn
  BY <1>6 DEF Turn, ExitSeen, RecordExit, Fail, CloseInput, Settled
<1>7. CASE TurnEnds
  BY <1>7 DEF TurnEnds
<1>8. CASE Answer
  BY <1>8 DEF Answer
<1>9. CASE Abandon
  BY <1>9 DEF Abandon
<1>10. CASE WriterFailure
  BY <1>10 DEF WriterFailure, Handle, ExitSeen, RecordExit, Fail, Drain, CloseInput,
      Settled
<1>11. CASE WriterHangup
  BY <1>11 DEF WriterHangup
<1>12. ASSUME NEW control \in {"eof", "reader_failed"}, ReaderEnd(control)
      PROVE  OwnerTypes'
  BY <1>12 DEF ReaderEnd, Handle, CloseInput, Drain
<1>13. CASE ControlsHandled
  BY <1>13 DEF ControlsHandled
<1>14. CASE DrainBatch
  BY <1>14 DEF DrainBatch, Parse, Writing
<1>15. CASE OutputEnds
  BY <1>15 DEF OutputEnds, Settled, Fail
<1>16. CASE Write
  BY <1>16 DEF Write, Writing
<1>17. CASE TryWrite
  BY <1>17 DEF TryWrite, WriterGone, Accept, Writing
<1>18. CASE WriteClosed
  BY <1>18 DEF WriteClosed
<1>19. CASE WriteExcused
  BY <1>19 DEF WriteExcused, Writing, Fail
<1>20. CASE Flush
  BY <1>20 DEF Flush
<1>21. CASE FlushExcused
  BY <1>21 DEF FlushExcused
<1>22. CASE RequestWake
  BY <1>22 DEF RequestWake
<1>23. CASE Wait
  BY <1>23 DEF Wait
<1>24. CASE NextMessage
  BY <1>24 DEF NextMessage, TakeOutput, TakeInput, TakeNothing, Parse, Writing
<1>25. CASE Teardown
  BY <1>25 DEF Teardown
<1>26. CASE Join
  BY <1>26 DEF Join
<1>27. CASE WriterTop
  BY <1>27 DEF WriterTop
<1>28. CASE Receive
  BY <1>28 DEF Receive
<1>29. CASE Dequeued
  BY <1>29 DEF Dequeued
<1>30. CASE WriterNotifies
  BY <1>30 DEF WriterNotifies
<1>31. CASE WriterChecks
  BY <1>31 DEF WriterChecks
<1>32. CASE WritePart
  BY <1>32 DEF WritePart
<1>33. CASE WriterFlushes
  BY <1>33 DEF WriterFlushes
<1>34. CASE WriteStops
  BY <1>34 DEF WriteStops
<1>35. CASE WriterWaits
  BY <1>35 DEF WriterWaits
<1>36. CASE HangupCloses
  BY <1>36 DEF HangupCloses
<1>37. CASE WriterReports
  BY <1>37 DEF WriterReports
<1>38. CASE ReaderTop
  BY <1>38 DEF ReaderTop
<1>39. CASE SendBatch
  BY <1>39 DEF SendBatch
<1>40. CASE SendEnd
  BY <1>40 DEF SendEnd
<1>41. CASE ReaderNotifies
  BY <1>41 DEF ReaderNotifies
<1>42. CASE ReaderWaits
  BY <1>42 DEF ReaderWaits
<1>43. CASE ReadBatch
  BY <1>43 DEF ReadBatch
<1>44. CASE ReadNothing
  BY <1>44 DEF ReadNothing
<1>45. CASE Observe
  BY <1>45 DEF Observe
<1>46. CASE Application
  BY <1>46 DEF Application
<1>47. CASE UNCHANGED vars
  BY <1>47
<1> QED BY <1>1, <1>2, <1>3, <1>4, <1>5, <1>6, <1>7, <1>8, <1>9, <1>10, <1>11, <1>12,
    <1>13, <1>14, <1>15, <1>16, <1>17, <1>18, <1>19, <1>20, <1>21, <1>22, <1>23, <1>24,
    <1>25, <1>26, <1>27, <1>28, <1>29, <1>30, <1>31, <1>32, <1>33, <1>34, <1>35, <1>36,
    <1>37, <1>38, <1>39, <1>40, <1>41, <1>42, <1>43, <1>44, <1>45, <1>46, <1>47 DEF
    RuntimeNext, Owner, Writer, Reader, Clients

(* The writer, the reader, the observer and the closer stay at theirs. *)
LEMMA ThreadTyped ==
    ASSUME ThreadTypes, [RuntimeNext]_vars
    PROVE  ThreadTypes'
<1> USE Constants DEF vars, flagVars, pipeVars, loopVars, endVars, ownerVars,
    writerVars, readerVars, observerVars, clientVars, worldVars, ThreadTypes,
    WriterStates, ReaderStates
<1>1. CASE Offer
  BY <1>1 DEF Offer
<1>2. CASE Ask
  BY <1>2 DEF Ask
<1>3. CASE Notify
  BY <1>3 DEF Notify
<1>4. CASE Close
  BY <1>4 DEF Close
<1>5. CASE CloseSent
  BY <1>5 DEF CloseSent
<1>6. CASE Turn
  BY <1>6 DEF Turn
<1>7. CASE TurnEnds
  BY <1>7 DEF TurnEnds
<1>8. CASE Answer
  BY <1>8 DEF Answer
<1>9. CASE Abandon
  BY <1>9 DEF Abandon
<1>10. CASE WriterFailure
  BY <1>10 DEF WriterFailure
<1>11. CASE WriterHangup
  BY <1>11 DEF WriterHangup
<1>12. ASSUME NEW control \in {"eof", "reader_failed"}, ReaderEnd(control)
      PROVE  ThreadTypes'
  BY <1>12 DEF ReaderEnd, Handle, CloseInput, Drain
<1>13. CASE ControlsHandled
  BY <1>13 DEF ControlsHandled
<1>14. CASE DrainBatch
  BY <1>14 DEF DrainBatch
<1>15. CASE OutputEnds
  BY <1>15 DEF OutputEnds
<1>16. CASE Write
  BY <1>16 DEF Write
<1>17. CASE TryWrite
  BY <1>17 DEF TryWrite
<1>18. CASE WriteClosed
  BY <1>18 DEF WriteClosed
<1>19. CASE WriteExcused
  BY <1>19 DEF WriteExcused
<1>20. CASE Flush
  BY <1>20 DEF Flush
<1>21. CASE FlushExcused
  BY <1>21 DEF FlushExcused
<1>22. CASE RequestWake
  BY <1>22 DEF RequestWake
<1>23. CASE Wait
  BY <1>23 DEF Wait
<1>24. CASE NextMessage
  BY <1>24 DEF NextMessage
<1>25. CASE Teardown
  BY <1>25 DEF Teardown
<1>26. CASE Join
  BY <1>26 DEF Join
<1>27. CASE WriterTop
  BY <1>27 DEF WriterTop
<1>28. CASE Receive
  BY <1>28 DEF Receive
<1>29. CASE Dequeued
  BY <1>29 DEF Dequeued
<1>30. CASE WriterNotifies
  BY <1>30 DEF WriterNotifies
<1>31. CASE WriterChecks
  BY <1>31 DEF WriterChecks
<1>32. CASE WritePart
  BY <1>32 DEF WritePart
<1>33. CASE WriterFlushes
  BY <1>33 DEF WriterFlushes
<1>34. CASE WriteStops
  BY <1>34 DEF WriteStops
<1>35. CASE WriterWaits
  BY <1>35 DEF WriterWaits
<1>36. CASE HangupCloses
  BY <1>36 DEF HangupCloses
<1>37. CASE WriterReports
  BY <1>37 DEF WriterReports
<1>38. CASE ReaderTop
  BY <1>38 DEF ReaderTop
<1>39. CASE SendBatch
  BY <1>39 DEF SendBatch
<1>40. CASE SendEnd
  BY <1>40 DEF SendEnd
<1>41. CASE ReaderNotifies
  BY <1>41 DEF ReaderNotifies
<1>42. CASE ReaderWaits
  BY <1>42 DEF ReaderWaits
<1>43. CASE ReadBatch
  BY <1>43 DEF ReadBatch
<1>44. CASE ReadNothing
  BY <1>44 DEF ReadNothing
<1>45. CASE Observe
  BY <1>45 DEF Observe
<1>46. CASE Application
  BY <1>46 DEF Application
<1>47. CASE UNCHANGED vars
  BY <1>47
<1> QED BY <1>1, <1>2, <1>3, <1>4, <1>5, <1>6, <1>7, <1>8, <1>9, <1>10, <1>11, <1>12,
    <1>13, <1>14, <1>15, <1>16, <1>17, <1>18, <1>19, <1>20, <1>21, <1>22, <1>23, <1>24,
    <1>25, <1>26, <1>27, <1>28, <1>29, <1>30, <1>31, <1>32, <1>33, <1>34, <1>35, <1>36,
    <1>37, <1>38, <1>39, <1>40, <1>41, <1>42, <1>43, <1>44, <1>45, <1>46, <1>47 DEF
    RuntimeNext, Owner, Writer, Reader, Clients

(* What was found, released or failed. *)
LEMMA ResultTyped ==
    ASSUME ResultTypes, [RuntimeNext]_vars
    PROVE  ResultTypes'
<1> USE Constants DEF vars, flagVars, pipeVars, loopVars, endVars, ownerVars,
    writerVars, readerVars, observerVars, clientVars, worldVars, ResultTypes, Releases
<1>1. CASE Offer
  BY <1>1 DEF Offer
<1>2. CASE Ask
  BY <1>2 DEF Ask
<1>3. CASE Notify
  BY <1>3 DEF Notify
<1>4. CASE Close
  BY <1>4 DEF Close
<1>5. CASE CloseSent
  BY <1>5 DEF CloseSent
<1>6. CASE Turn
  BY <1>6 DEF Turn, ExitSeen, RecordExit, Fail, CloseInput, Settled
<1>7. CASE TurnEnds
  BY <1>7 DEF TurnEnds
<1>8. CASE Answer
  BY <1>8 DEF Answer
<1>9. CASE Abandon
  BY <1>9 DEF Abandon
<1>10. CASE WriterFailure
  BY <1>10 DEF WriterFailure, Handle, ExitSeen, RecordExit, Fail, Drain, CloseInput,
      Settled
<1>11. CASE WriterHangup
  BY <1>11 DEF WriterHangup, Handle, CloseInput, Drain
<1>12. ASSUME NEW control \in {"eof", "reader_failed"}, ReaderEnd(control)
      PROVE  ResultTypes'
  BY <1>12 DEF ReaderEnd, Handle, CloseInput, Drain
<1>13. CASE ControlsHandled
  BY <1>13 DEF ControlsHandled
<1>14. CASE DrainBatch
  BY <1>14 DEF DrainBatch
<1>15. CASE OutputEnds
  BY <1>15 DEF OutputEnds
<1>16. CASE Write
  BY <1>16 DEF Write
<1>17. CASE TryWrite
  BY <1>17 DEF TryWrite
<1>18. CASE WriteClosed
  BY <1>18 DEF WriteClosed
<1>19. CASE WriteExcused
  BY <1>19 DEF WriteExcused
<1>20. CASE Flush
  BY <1>20 DEF Flush
<1>21. CASE FlushExcused
  BY <1>21 DEF FlushExcused
<1>22. CASE RequestWake
  BY <1>22 DEF RequestWake
<1>23. CASE Wait
  BY <1>23 DEF Wait
<1>24. CASE NextMessage
  BY <1>24 DEF NextMessage
<1>25. CASE Teardown
  BY <1>25 DEF Teardown
<1>26. CASE Join
  BY <1>26 DEF Join
<1>27. CASE WriterTop
  BY <1>27 DEF WriterTop
<1>28. CASE Receive
  BY <1>28 DEF Receive
<1>29. CASE Dequeued
  BY <1>29 DEF Dequeued
<1>30. CASE WriterNotifies
  BY <1>30 DEF WriterNotifies
<1>31. CASE WriterChecks
  BY <1>31 DEF WriterChecks
<1>32. CASE WritePart
  BY <1>32 DEF WritePart
<1>33. CASE WriterFlushes
  BY <1>33 DEF WriterFlushes
<1>34. CASE WriteStops
  BY <1>34 DEF WriteStops, Fault
<1>35. CASE WriterWaits
  BY <1>35 DEF WriterWaits, Fault
<1>36. CASE HangupCloses
  BY <1>36 DEF HangupCloses
<1>37. CASE WriterReports
  BY <1>37 DEF WriterReports
<1>38. CASE ReaderTop
  BY <1>38 DEF ReaderTop
<1>39. CASE SendBatch
  BY <1>39 DEF SendBatch
<1>40. CASE SendEnd
  BY <1>40 DEF SendEnd
<1>41. CASE ReaderNotifies
  BY <1>41 DEF ReaderNotifies
<1>42. CASE ReaderWaits
  BY <1>42 DEF ReaderWaits, Fault
<1>43. CASE ReadBatch
  BY <1>43 DEF ReadBatch, Fault
<1>44. CASE ReadNothing
  BY <1>44 DEF ReadNothing, Fault
<1>45. CASE Observe
  BY <1>45 DEF Observe, Fault
<1>46. CASE Application
  BY <1>46 DEF Application, Exit, HangUp, Produce, TakesInput
<1>47. CASE UNCHANGED vars
  BY <1>47
<1> QED BY <1>1, <1>2, <1>3, <1>4, <1>5, <1>6, <1>7, <1>8, <1>9, <1>10, <1>11, <1>12,
    <1>13, <1>14, <1>15, <1>16, <1>17, <1>18, <1>19, <1>20, <1>21, <1>22, <1>23, <1>24,
    <1>25, <1>26, <1>27, <1>28, <1>29, <1>30, <1>31, <1>32, <1>33, <1>34, <1>35, <1>36,
    <1>37, <1>38, <1>39, <1>40, <1>41, <1>42, <1>43, <1>44, <1>45, <1>46, <1>47 DEF
    RuntimeNext, Owner, Writer, Reader, Clients

(* The writes, wherever they are, are writes that were accepted. *)
LEMMA InputTyped ==
    ASSUME InputTypes, PipeInv, [RuntimeNext]_vars
    PROVE  InputTypes'
<1> USE Constants DEF vars, flagVars, pipeVars, loopVars, endVars, ownerVars,
    writerVars, readerVars, observerVars, clientVars, worldVars, InputTypes
<1>1. CASE Offer
  BY <1>1 DEF Offer
<1>2. CASE Ask
  BY <1>2 DEF Ask
<1>3. CASE Notify
  BY <1>3 DEF Notify
<1>4. CASE Close
  BY <1>4 DEF Close
<1>5. CASE CloseSent
  BY <1>5 DEF CloseSent
<1>6. CASE Turn
  BY <1>6, EmptySeq DEF Turn, ExitSeen, RecordExit, Fail, CloseInput, Settled
<1>7. CASE TurnEnds
  BY <1>7 DEF TurnEnds
<1>8. CASE Answer
  BY <1>8 DEF Answer
<1>9. CASE Abandon
  BY <1>9 DEF Abandon
<1>10. CASE WriterFailure
  BY <1>10, EmptySeq DEF WriterFailure, Handle, ExitSeen, RecordExit, Fail, Drain,
      CloseInput, Settled
<1>11. CASE WriterHangup
  BY <1>11, EmptySeq DEF WriterHangup, Handle, CloseInput, Drain
<1>12. ASSUME NEW control \in {"eof", "reader_failed"}, ReaderEnd(control)
      PROVE  InputTypes'
  BY <1>12, EmptySeq DEF ReaderEnd, Handle, CloseInput, Drain
<1>13. CASE ControlsHandled
  BY <1>13 DEF ControlsHandled
<1>14. CASE DrainBatch
  BY <1>14 DEF DrainBatch
<1>15. CASE OutputEnds
  BY <1>15 DEF OutputEnds
<1>16. CASE Write
  BY <1>16 DEF Write
<1>17. CASE TryWrite
  <2> DEFINE m == accepted + 1
             w == Append(writes, m)
             p == Append(pending, m)
  <2>1. m \in 1..m /\ writes \in Seq(1..m) /\ pending \in Seq(1..m)
    BY Wider
  <2>2. /\ w \in Seq(1..m) /\ p \in Seq(1..m)
        /\ Len(w) = Len(writes) + 1 /\ Len(writes) \in Nat
    BY <2>1, Sent
  <2>3. /\ accepted' = m /\ UNCHANGED <<delivered, current, offset>>
        /\ \/ writes' = w /\ pending' = pending /\ Len(writes) < WriterCapacity
           \/ pending' = p /\ writes' = writes
    BY <1>17 DEF TryWrite, Accept
  <2>4. m \in Nat /\ current \in (1..m) \cup {None}
    OBVIOUS
  <2> HIDE DEF m, w, p
  <2> QED BY <2>1, <2>2, <2>3, <2>4
<1>18. CASE WriteClosed
  BY <1>18 DEF WriteClosed
<1>19. CASE WriteExcused
  BY <1>19, EmptySeq DEF WriteExcused, Writing, Fail
<1>20. CASE Flush
  <2> DEFINE w == Append(writes, Head(pending))
             p == Tail(pending)
  <2>1. UNCHANGED <<accepted, delivered, current, offset>>
    BY <1>20 DEF Flush
  <2>2. \/ UNCHANGED <<writes, pending>>
        \/ pending # <<>> /\ pending' = p /\ UNCHANGED writes
        \/ /\ pending # <<>> /\ pending' = p
           /\ Len(writes) < WriterCapacity /\ writes' = w
    BY <1>20 DEF Flush
  <2>3. pending # <<>> => Head(pending) \in 1..accepted /\ p \in Seq(1..accepted)
    BY Received
  <2>4. pending # <<>> => /\ w \in Seq(1..accepted)
                          /\ Len(w) = Len(writes) + 1 /\ Len(writes) \in Nat
    BY <2>3, Sent
  <2> HIDE DEF w, p
  <2> QED BY <2>1, <2>2, <2>3, <2>4
<1>21. CASE FlushExcused
  BY <1>21, EmptySeq DEF FlushExcused, Fail
<1>22. CASE RequestWake
  BY <1>22 DEF RequestWake
<1>23. CASE Wait
  BY <1>23 DEF Wait
<1>24. CASE NextMessage
  BY <1>24 DEF NextMessage
<1>25. CASE Teardown
  BY <1>25 DEF Teardown
<1>26. CASE Join
  BY <1>26 DEF Join
<1>27. CASE WriterTop
  BY <1>27 DEF WriterTop
<1>28. CASE Receive
  <2>1. CASE UNCHANGED <<writes, current>>
    BY <1>28, <2>1 DEF Receive
  <2>2. CASE writes # <<>> /\ writes' = Tail(writes) /\ current' = Head(writes)
    BY <1>28, <2>2, Received DEF Receive
  <2> QED BY <1>28, <2>1, <2>2 DEF Receive
<1>29. CASE Dequeued
  BY <1>29 DEF Dequeued
<1>30. CASE WriterNotifies
  BY <1>30 DEF WriterNotifies
<1>31. CASE WriterChecks
  BY <1>31 DEF WriterChecks
<1>32. CASE WritePart
  <2>1. delivered' = Append(delivered, <<current, offset + 1>>)
    BY <1>32 DEF WritePart
  <2>2. current \in Nat /\ offset + 1 \in 1..Parts
    BY <1>32 DEF WritePart, PipeInv
  <2>3. delivered' \in Seq(Nat \X (1..Parts))
    BY <2>1, <2>2, Sent
  <2> QED BY <1>32, <2>2, <2>3 DEF WritePart
<1>33. CASE WriterFlushes
  BY <1>33 DEF WriterFlushes
<1>34. CASE WriteStops
  BY <1>34 DEF WriteStops
<1>35. CASE WriterWaits
  BY <1>35 DEF WriterWaits
<1>36. CASE HangupCloses
  BY <1>36 DEF HangupCloses
<1>37. CASE WriterReports
  BY <1>37 DEF WriterReports
<1>38. CASE ReaderTop
  BY <1>38 DEF ReaderTop
<1>39. CASE SendBatch
  BY <1>39 DEF SendBatch
<1>40. CASE SendEnd
  BY <1>40 DEF SendEnd
<1>41. CASE ReaderNotifies
  BY <1>41 DEF ReaderNotifies
<1>42. CASE ReaderWaits
  BY <1>42 DEF ReaderWaits
<1>43. CASE ReadBatch
  BY <1>43 DEF ReadBatch
<1>44. CASE ReadNothing
  BY <1>44 DEF ReadNothing
<1>45. CASE Observe
  BY <1>45 DEF Observe
<1>46. CASE Application
  BY <1>46 DEF Application
<1>47. CASE UNCHANGED vars
  BY <1>47
<1> QED BY <1>1, <1>2, <1>3, <1>4, <1>5, <1>6, <1>7, <1>8, <1>9, <1>10, <1>11, <1>12,
    <1>13, <1>14, <1>15, <1>16, <1>17, <1>18, <1>19, <1>20, <1>21, <1>22, <1>23, <1>24,
    <1>25, <1>26, <1>27, <1>28, <1>29, <1>30, <1>31, <1>32, <1>33, <1>34, <1>35, <1>36,
    <1>37, <1>38, <1>39, <1>40, <1>41, <1>42, <1>43, <1>44, <1>45, <1>46, <1>47 DEF
    RuntimeNext, Owner, Writer, Reader, Clients

(* The chunks, wherever they are, are chunks that were read. *)
LEMMA OutputTyped ==
    ASSUME OutputTypes, CountTypes, ResultTypes, OutputInv, [RuntimeNext]_vars
    PROVE  OutputTypes'
<1> USE Constants DEF vars, flagVars, pipeVars, loopVars, endVars, ownerVars,
    writerVars, readerVars, observerVars, clientVars, worldVars, OutputTypes,
    CountTypes, ResultTypes
<1>1. CASE Offer
  BY <1>1 DEF Offer
<1>2. CASE Ask
  <2>1. controls' \in Seq(Controls)
    BY <1>2, Sent DEF Ask, Controls
  <2> QED BY <1>2, <2>1 DEF Ask
<1>3. CASE Notify
  BY <1>3 DEF Notify
<1>4. CASE Close
  BY <1>4 DEF Close
<1>5. CASE CloseSent
  <2>1. controls' \in Seq(Controls)
    BY <1>5, Sent DEF CloseSent, Controls
  <2> QED BY <1>5, <2>1 DEF CloseSent
<1>6. CASE Turn
  BY <1>6 DEF Turn
<1>7. CASE TurnEnds
  BY <1>7 DEF TurnEnds
<1>8. CASE Answer
  BY <1>8, QueuedTail DEF Answer, Handle, Drain
<1>9. CASE Abandon
  BY <1>9 DEF Abandon, Controls, Drain
<1>10. CASE WriterFailure
  BY <1>10, QueuedTail DEF WriterFailure, Handle, ExitSeen, RecordExit, Fail, Drain,
      CloseInput, Settled
<1>11. CASE WriterHangup
  BY <1>11, QueuedTail DEF WriterHangup, Handle, CloseInput, Drain
<1>12. ASSUME NEW control \in {"eof", "reader_failed"}, ReaderEnd(control)
      PROVE  OutputTypes'
  BY <1>12, QueuedTail DEF ReaderEnd, Handle, CloseInput, Drain
<1>13. CASE ControlsHandled
  BY <1>13 DEF ControlsHandled
<1>14. CASE DrainBatch
  BY <1>14 DEF DrainBatch
<1>15. CASE OutputEnds
  BY <1>15 DEF OutputEnds
<1>16. CASE Write
  BY <1>16 DEF Write
<1>17. CASE TryWrite
  BY <1>17 DEF TryWrite
<1>18. CASE WriteClosed
  BY <1>18 DEF WriteClosed
<1>19. CASE WriteExcused
  BY <1>19 DEF WriteExcused
<1>20. CASE Flush
  BY <1>20 DEF Flush
<1>21. CASE FlushExcused
  BY <1>21 DEF FlushExcused
<1>22. CASE RequestWake
  BY <1>22 DEF RequestWake
<1>23. CASE Wait
  BY <1>23 DEF Wait
<1>24. CASE NextMessage
  <2>1. outputs # <<>> =>
           Tail(outputs) \in Seq(1..taken) /\ Len(Tail(outputs)) <= OutputCapacity
    BY Received
  <2>2. CASE TakeInput
    BY <1>24, <2>2 DEF NextMessage, TakeInput
  <2>3. CASE TakeOutput
    BY <1>24, <2>1, <2>3 DEF NextMessage, TakeOutput
  <2>4. CASE UNCHANGED outputs
    BY <1>24, <2>4 DEF NextMessage
  <2> QED BY <1>24, <2>2, <2>3, <2>4 DEF NextMessage, TakeNothing
<1>25. CASE Teardown
  BY <1>25 DEF Teardown
<1>26. CASE Join
  BY <1>26 DEF Join
<1>27. CASE WriterTop
  BY <1>27 DEF WriterTop
<1>28. CASE Receive
  BY <1>28 DEF Receive
<1>29. CASE Dequeued
  BY <1>29 DEF Dequeued
<1>30. CASE WriterNotifies
  BY <1>30 DEF WriterNotifies
<1>31. CASE WriterChecks
  BY <1>31 DEF WriterChecks
<1>32. CASE WritePart
  BY <1>32 DEF WritePart
<1>33. CASE WriterFlushes
  BY <1>33 DEF WriterFlushes
<1>34. CASE WriteStops
  BY <1>34 DEF WriteStops
<1>35. CASE WriterWaits
  BY <1>35 DEF WriterWaits
<1>36. CASE HangupCloses
  BY <1>36 DEF HangupCloses
<1>37. CASE WriterReports
  <2>1. controls' \in Seq(Controls)
    BY <1>37, Sent DEF WriterReports, Controls
  <2> QED BY <1>37, <2>1 DEF WriterReports
<1>38. CASE ReaderTop
  BY <1>38 DEF ReaderTop
<1>39. CASE SendBatch
  <2>1. CASE "outputs" \in released
    BY <1>39, <2>1 DEF SendBatch
  <2>2. CASE "outputs" \notin released
    <3> DEFINE q == Append(outputs, batch)
    <3>1. batch \in 1..taken
      BY <1>39 DEF SendBatch, OutputInv
    <3>2. q \in Seq(1..taken) /\ Len(q) = Len(outputs) + 1 /\ Len(outputs) \in Nat
      BY <3>1, Sent
    <3>3. outputs' = q /\ Len(outputs) < OutputCapacity /\ batch' = None
      BY <1>39, <2>2 DEF SendBatch
    <3> HIDE DEF q
    <3> QED BY <1>39, <3>2, <3>3 DEF SendBatch
  <2> QED BY <2>1, <2>2
<1>40. CASE SendEnd
  <2>1. ended \in Controls
    BY <1>40 DEF SendEnd, OutputInv, Controls
  <2> QED BY <1>40, <2>1, QueuedAppend DEF SendEnd
<1>41. CASE ReaderNotifies
  BY <1>41 DEF ReaderNotifies
<1>42. CASE ReaderWaits
  BY <1>42 DEF ReaderWaits
<1>43. CASE ReadBatch
  BY <1>43 DEF ReadBatch
<1>44. CASE ReadNothing
  BY <1>44 DEF ReadNothing
<1>45. CASE Observe
  BY <1>45 DEF Observe
<1>46. CASE Application
  BY <1>46 DEF Application
<1>47. CASE UNCHANGED vars
  BY <1>47
<1> QED BY <1>1, <1>2, <1>3, <1>4, <1>5, <1>6, <1>7, <1>8, <1>9, <1>10, <1>11, <1>12,
    <1>13, <1>14, <1>15, <1>16, <1>17, <1>18, <1>19, <1>20, <1>21, <1>22, <1>23, <1>24,
    <1>25, <1>26, <1>27, <1>28, <1>29, <1>30, <1>31, <1>32, <1>33, <1>34, <1>35, <1>36,
    <1>37, <1>38, <1>39, <1>40, <1>41, <1>42, <1>43, <1>44, <1>45, <1>46, <1>47 DEF
    RuntimeNext, Owner, Writer, Reader, Clients

(* The owner keeps its own bookkeeping. *)
LEMMA LoopStep ==
    ASSUME LoopInv, CloseInv, OwnerTypes, CountTypes, [RuntimeNext]_vars
    PROVE  LoopInv'
<1> USE Constants DEF vars, flagVars, pipeVars, loopVars, endVars, ownerVars,
    writerVars, readerVars, observerVars, clientVars, worldVars, LoopInv, CloseInv,
    OwnerTypes, CountTypes, OwnerStates, Returns, Late, Final, NoSpill, WriterGone
<1>1. CASE Offer
  BY <1>1 DEF Offer
<1>2. CASE Ask
  BY <1>2 DEF Ask
<1>3. CASE Notify
  BY <1>3 DEF Notify
<1>4. CASE Close
  BY <1>4 DEF Close
<1>5. CASE CloseSent
  BY <1>5 DEF CloseSent
<1>6. CASE Turn
  BY <1>6 DEF Turn
<1>7. CASE TurnEnds
  BY <1>7 DEF TurnEnds
<1>8. CASE Answer
  BY <1>8 DEF Answer
<1>9. CASE Abandon
  BY <1>9 DEF Abandon
<1>10. CASE WriterFailure
  BY <1>10 DEF WriterFailure, Handle, ExitSeen, RecordExit, Fail, Drain, CloseInput,
      Settled
<1>11. CASE WriterHangup
  BY <1>11 DEF WriterHangup, Handle, CloseInput, Drain
<1>12. ASSUME NEW control \in {"eof", "reader_failed"}, ReaderEnd(control)
      PROVE  LoopInv'
  BY <1>12 DEF ReaderEnd, Handle, CloseInput, Drain
<1>13. CASE ControlsHandled
  BY <1>13 DEF ControlsHandled
<1>14. CASE DrainBatch
  BY <1>14 DEF DrainBatch, Parse, Writing
<1>15. CASE OutputEnds
  BY <1>15 DEF OutputEnds
<1>16. CASE Write
  BY <1>16 DEF Write, Writing
<1>17. CASE TryWrite
  BY <1>17 DEF TryWrite, Accept, Writing
<1>18. CASE WriteClosed
  BY <1>18 DEF WriteClosed
<1>19. CASE WriteExcused
  BY <1>19 DEF WriteExcused, Writing, Fail
<1>20. CASE Flush
  BY <1>20 DEF Flush
<1>21. CASE FlushExcused
  BY <1>21 DEF FlushExcused
<1>22. CASE RequestWake
  BY <1>22 DEF RequestWake
<1>23. CASE Wait
  BY <1>23 DEF Wait
<1>24. CASE NextMessage
  BY <1>24 DEF NextMessage, TakeOutput, TakeInput, TakeNothing, Parse, Writing
<1>25. CASE Teardown
  BY <1>25 DEF Teardown
<1>26. CASE Join
  BY <1>26 DEF Join
<1>27. CASE WriterTop
  BY <1>27 DEF WriterTop
<1>28. CASE Receive
  BY <1>28 DEF Receive
<1>29. CASE Dequeued
  BY <1>29 DEF Dequeued
<1>30. CASE WriterNotifies
  BY <1>30 DEF WriterNotifies
<1>31. CASE WriterChecks
  BY <1>31 DEF WriterChecks
<1>32. CASE WritePart
  BY <1>32 DEF WritePart
<1>33. CASE WriterFlushes
  BY <1>33 DEF WriterFlushes
<1>34. CASE WriteStops
  BY <1>34 DEF WriteStops
<1>35. CASE WriterWaits
  BY <1>35 DEF WriterWaits
<1>36. CASE HangupCloses
  BY <1>36 DEF HangupCloses
<1>37. CASE WriterReports
  BY <1>37 DEF WriterReports
<1>38. CASE ReaderTop
  BY <1>38 DEF ReaderTop
<1>39. CASE SendBatch
  BY <1>39 DEF SendBatch
<1>40. CASE SendEnd
  BY <1>40 DEF SendEnd
<1>41. CASE ReaderNotifies
  BY <1>41 DEF ReaderNotifies
<1>42. CASE ReaderWaits
  BY <1>42 DEF ReaderWaits
<1>43. CASE ReadBatch
  BY <1>43 DEF ReadBatch
<1>44. CASE ReadNothing
  BY <1>44 DEF ReadNothing
<1>45. CASE Observe
  BY <1>45 DEF Observe
<1>46. CASE Application
  BY <1>46 DEF Application
<1>47. CASE UNCHANGED vars
  BY <1>47
<1> QED BY <1>1, <1>2, <1>3, <1>4, <1>5, <1>6, <1>7, <1>8, <1>9, <1>10, <1>11, <1>12,
    <1>13, <1>14, <1>15, <1>16, <1>17, <1>18, <1>19, <1>20, <1>21, <1>22, <1>23, <1>24,
    <1>25, <1>26, <1>27, <1>28, <1>29, <1>30, <1>31, <1>32, <1>33, <1>34, <1>35, <1>36,
    <1>37, <1>38, <1>39, <1>40, <1>41, <1>42, <1>43, <1>44, <1>45, <1>46, <1>47 DEF
    RuntimeNext, Owner, Writer, Reader, Clients

(* Nothing spills once input has closed. *)
LEMMA CloseStep ==
    ASSUME LoopInv, CloseInv, OwnerTypes, OutputTypes, ThreadTypes, OutputInv,
        ResultTypes, [RuntimeNext]_vars
    PROVE  CloseInv'
<1> USE Constants DEF vars, flagVars, pipeVars, loopVars, endVars, ownerVars,
    writerVars, readerVars, observerVars, clientVars, worldVars, LoopInv, CloseInv,
    OwnerTypes, OutputTypes, Late, Final, NoSpill, WriterGone, Controls
<1>1. CASE Offer
  BY <1>1 DEF Offer
<1>2. CASE Ask
  BY <1>2, QueuedAppend DEF Ask
<1>3. CASE Notify
  BY <1>3 DEF Notify
<1>4. CASE Close
  BY <1>4 DEF Close
<1>5. CASE CloseSent
  BY <1>5, QueuedAppend DEF CloseSent
<1>6. CASE Turn
  BY <1>6 DEF Turn, ExitSeen, RecordExit, Fail, CloseInput, Settled
<1>7. CASE TurnEnds
  BY <1>7 DEF TurnEnds
<1>8. CASE Answer
  BY <1>8, QueuedTail DEF Answer, Handle, Drain
<1>9. CASE Abandon
  <2>1. PICK control \in Controls : Drain(control)
    BY <1>9 DEF Abandon
  <2> QED BY <1>9, <2>1, QueuedTail DEF Abandon, Drain
<1>10. CASE WriterFailure
  BY <1>10, QueuedTail DEF WriterFailure, Handle, ExitSeen, RecordExit, Fail, Drain,
      CloseInput, Settled
<1>11. CASE WriterHangup
  BY <1>11, QueuedTail DEF WriterHangup, Handle, CloseInput, Drain
<1>12. ASSUME NEW control \in {"eof", "reader_failed"}, ReaderEnd(control)
      PROVE  CloseInv'
  BY <1>12, QueuedTail DEF ReaderEnd, Handle, CloseInput, Drain
<1>13. CASE ControlsHandled
  BY <1>13 DEF ControlsHandled
<1>14. CASE DrainBatch
  BY <1>14 DEF DrainBatch, Parse, Writing
<1>15. CASE OutputEnds
  BY <1>15 DEF OutputEnds
<1>16. CASE Write
  BY <1>16 DEF Write, Writing
<1>17. CASE TryWrite
  BY <1>17 DEF TryWrite
<1>18. CASE WriteClosed
  BY <1>18 DEF WriteClosed
<1>19. CASE WriteExcused
  BY <1>19 DEF WriteExcused, Writing, Fail
<1>20. CASE Flush
  BY <1>20 DEF Flush
<1>21. CASE FlushExcused
  BY <1>21 DEF FlushExcused
<1>22. CASE RequestWake
  BY <1>22 DEF RequestWake
<1>23. CASE Wait
  BY <1>23 DEF Wait
<1>24. CASE NextMessage
  BY <1>24 DEF NextMessage, TakeOutput, TakeInput, TakeNothing, Parse, Writing
<1>25. CASE Teardown
  BY <1>25 DEF Teardown
<1>26. CASE Join
  BY <1>26 DEF Join
<1>27. CASE WriterTop
  BY <1>27 DEF WriterTop
<1>28. CASE Receive
  BY <1>28 DEF Receive
<1>29. CASE Dequeued
  BY <1>29 DEF Dequeued
<1>30. CASE WriterNotifies
  BY <1>30 DEF WriterNotifies
<1>31. CASE WriterChecks
  BY <1>31 DEF WriterChecks
<1>32. CASE WritePart
  BY <1>32 DEF WritePart
<1>33. CASE WriterFlushes
  BY <1>33 DEF WriterFlushes
<1>34. CASE WriteStops
  BY <1>34 DEF WriteStops
<1>35. CASE WriterWaits
  BY <1>35 DEF WriterWaits
<1>36. CASE HangupCloses
  BY <1>36 DEF HangupCloses
<1>37. CASE WriterReports
  BY <1>37, QueuedAppend DEF WriterReports
<1>38. CASE ReaderTop
  BY <1>38 DEF ReaderTop
<1>39. CASE SendBatch
  BY <1>39 DEF SendBatch
<1>40. CASE SendEnd
  BY <1>40, QueuedAppend DEF SendEnd, ResultTypes, OutputInv
<1>41. CASE ReaderNotifies
  BY <1>41 DEF ReaderNotifies
<1>42. CASE ReaderWaits
  BY <1>42 DEF ReaderWaits
<1>43. CASE ReadBatch
  BY <1>43 DEF ReadBatch
<1>44. CASE ReadNothing
  BY <1>44 DEF ReadNothing
<1>45. CASE Observe
  BY <1>45 DEF Observe
<1>46. CASE Application
  BY <1>46 DEF Application
<1>47. CASE UNCHANGED vars
  BY <1>47
<1> QED BY <1>1, <1>2, <1>3, <1>4, <1>5, <1>6, <1>7, <1>8, <1>9, <1>10, <1>11, <1>12,
    <1>13, <1>14, <1>15, <1>16, <1>17, <1>18, <1>19, <1>20, <1>21, <1>22, <1>23, <1>24,
    <1>25, <1>26, <1>27, <1>28, <1>29, <1>30, <1>31, <1>32, <1>33, <1>34, <1>35, <1>36,
    <1>37, <1>38, <1>39, <1>40, <1>41, <1>42, <1>43, <1>44, <1>45, <1>46, <1>47 DEF
    RuntimeNext, Owner, Writer, Reader, Clients

(* The writes stay in order and without a gap. *)
LEMMA PipeStep ==
    ASSUME PipeInv, InputTypes, CloseInv, LoopInv, [RuntimeNext]_vars
    PROVE  PipeInv'
<1> USE Constants DEF vars, flagVars, pipeVars, loopVars, endVars, ownerVars,
    writerVars, readerVars, observerVars, clientVars, worldVars, PipeInv, InputTypes,
    Base, WriterGone
<1>1. CASE Offer
  BY <1>1 DEF Offer
<1>2. CASE Ask
  BY <1>2 DEF Ask
<1>3. CASE Notify
  BY <1>3 DEF Notify
<1>4. CASE Close
  BY <1>4 DEF Close
<1>5. CASE CloseSent
  BY <1>5 DEF CloseSent
<1>6. CASE Turn
  BY <1>6 DEF Turn, ExitSeen, RecordExit, Fail, CloseInput, Settled
<1>7. CASE TurnEnds
  BY <1>7 DEF TurnEnds
<1>8. CASE Answer
  BY <1>8 DEF Answer
<1>9. CASE Abandon
  BY <1>9 DEF Abandon
<1>10. CASE WriterFailure
  BY <1>10 DEF WriterFailure, Handle, ExitSeen, RecordExit, Fail, Drain, CloseInput,
      Settled
<1>11. CASE WriterHangup
  BY <1>11 DEF WriterHangup, Handle, CloseInput, Drain
<1>12. ASSUME NEW control \in {"eof", "reader_failed"}, ReaderEnd(control)
      PROVE  PipeInv'
  BY <1>12 DEF ReaderEnd, Handle, CloseInput, Drain
<1>13. CASE ControlsHandled
  BY <1>13 DEF ControlsHandled
<1>14. CASE DrainBatch
  BY <1>14 DEF DrainBatch
<1>15. CASE OutputEnds
  BY <1>15 DEF OutputEnds
<1>16. CASE Write
  BY <1>16 DEF Write
<1>17. CASE TryWrite
  <2> DEFINE m == accepted + 1
             w == Append(writes, m)
             p == Append(pending, m)
  <2>1. m \in 1..m /\ writes \in Seq(1..m) /\ pending \in Seq(1..m)
    BY Wider
  <2>2. /\ Len(w) = Len(writes) + 1 /\ Len(writes) \in Nat
        /\ \A i \in 1..Len(writes) : w[i] = writes[i]
        /\ w[Len(writes) + 1] = m
        /\ Len(p) = Len(pending) + 1 /\ Len(pending) \in Nat
        /\ \A i \in 1..Len(pending) : p[i] = pending[i]
        /\ p[Len(pending) + 1] = m
    BY <2>1, Sent
  <2>3. UNCHANGED <<delivered, wpc, current, offset, released>> /\ UNCHANGED Base
    BY <1>17 DEF TryWrite, Accept
  <2>4. Base \in Nat
    BY LastTyped
  <2>5. /\ accepted' = m
        /\ \/ ~WriterGone /\ pending = <<>> /\ writes' = w /\ pending' = pending
           \/ writes' = writes /\ pending' = p
    BY <1>17 DEF TryWrite, Accept
  <2>6. /\ \A i \in 1..Len(writes) : writes[i] = Base + i
        /\ ~WriterGone => m = Base + Len(writes) + Len(pending) + 1
        /\ ~WriterGone => \A i \in 1..Len(pending) : pending[i] = Base + Len(writes) + i
    BY <2>2, <2>4
  <2>7. pending = <<>> => Len(pending) = 0
    BY EmptySeq
  <2> HIDE DEF m, w, p, Base
  <2>8. CASE ~WriterGone /\ pending = <<>> /\ writes' = w /\ pending' = pending
    <3>1. m = Base + Len(writes) + 1
      BY <2>2, <2>4, <2>6, <2>7, <2>8
    <3>2. \A i \in 1..Len(w) : w[i] = Base + i
      <4> TAKE i \in 1..Len(w)
      <4>1. i \in 1..Len(writes) \/ i = Len(writes) + 1
        BY <2>2
      <4>2. CASE i = Len(writes) + 1
        BY <2>2, <2>4, <3>1, <4>2
      <4> QED BY <2>2, <2>6, <4>1, <4>2
    <3>3. m = Base + Len(w) + Len(pending)
      BY <2>2, <2>4, <2>7, <2>8, <3>1
    <3> QED BY <2>3, <2>5, <2>7, <2>8, <3>2, <3>3
  <2>9. CASE writes' = writes /\ pending' = p
    <3>1. ~WriterGone => m = Base + Len(writes) + Len(p)
      BY <2>2, <2>4, <2>6
    <3>2. ASSUME ~WriterGone, NEW i \in 1..Len(p)
          PROVE  p[i] = Base + Len(writes) + i
      <4>1. i \in 1..Len(pending) \/ i = Len(pending) + 1
        BY <2>2
      <4>2. CASE i = Len(pending) + 1
        BY <2>2, <2>4, <2>6, <3>2, <4>2
      <4> QED BY <2>2, <2>6, <3>2, <4>1, <4>2
    <3> QED BY <2>3, <2>5, <2>9, <3>1, <3>2
  <2> QED BY <2>5, <2>8, <2>9
<1>18. CASE WriteClosed
  BY <1>18 DEF WriteClosed
<1>19. CASE WriteExcused
  BY <1>19 DEF WriteExcused, LoopInv
<1>20. CASE Flush
  <2> DEFINE w == Append(writes, Head(pending))
             p == Tail(pending)
  <2>1. UNCHANGED <<accepted, delivered, wpc, current, offset, released>> /\ UNCHANGED Base
    BY <1>20 DEF Flush
  <2>2. Base \in Nat
    BY LastTyped
  <2>3. CASE UNCHANGED <<writes, pending>>
    BY <2>1, <2>3
  <2>4. CASE WriterGone /\ UNCHANGED writes
    BY <2>1, <2>4
  <2>5. CASE pending # <<>> /\ ~WriterGone /\ writes' = w /\ pending' = p
    <3>1. /\ Head(pending) \in 1..accepted /\ Head(pending) = pending[1]
          /\ Len(pending) \in Nat \ {0} /\ Len(p) = Len(pending) - 1
          /\ \A i \in 1..Len(p) : p[i] = pending[i + 1]
      BY <2>5, Received
    <3>2. /\ Len(w) = Len(writes) + 1 /\ Len(writes) \in Nat
          /\ \A i \in 1..Len(writes) : w[i] = writes[i]
          /\ w[Len(writes) + 1] = Head(pending)
      BY <3>1, Sent
    <3>3. /\ \A i \in 1..Len(writes) : writes[i] = Base + i
          /\ accepted = Base + Len(writes) + Len(pending)
          /\ \A i \in 1..Len(pending) : pending[i] = Base + Len(writes) + i
      BY <2>5
    <3> HIDE DEF w, p, Base
    <3>4. Head(pending) = Base + Len(writes) + 1
      BY <3>1, <3>3
    <3>5. \A i \in 1..Len(w) : w[i] = Base + i
      <4> TAKE i \in 1..Len(w)
      <4>1. i \in 1..Len(writes) \/ i = Len(writes) + 1
        BY <3>2
      <4>2. CASE i = Len(writes) + 1
        BY <2>2, <3>2, <3>4, <4>2
      <4> QED BY <3>2, <3>3, <4>1, <4>2
    <3>6. \A i \in 1..Len(p) : p[i] = Base + Len(w) + i
      <4> TAKE i \in 1..Len(p)
      <4>1. i + 1 \in 1..Len(pending) /\ p[i] = Base + Len(writes) + (i + 1)
        BY <3>1, <3>3
      <4> QED BY <2>2, <3>2, <4>1
    <3>7. accepted = Base + Len(w) + Len(p)
      BY <2>2, <3>1, <3>2, <3>3
    <3> QED BY <2>1, <2>5, <3>5, <3>6, <3>7
  <2> QED BY <1>20, <2>3, <2>4, <2>5 DEF Flush
<1>21. CASE FlushExcused
  BY <1>21 DEF FlushExcused, LoopInv
<1>22. CASE RequestWake
  BY <1>22 DEF RequestWake
<1>23. CASE Wait
  BY <1>23 DEF Wait
<1>24. CASE NextMessage
  BY <1>24 DEF NextMessage
<1>25. CASE Teardown
  BY <1>25 DEF Teardown, Releases
<1>26. CASE Join
  BY <1>26 DEF Join
<1>27. CASE WriterTop
  BY <1>27 DEF WriterTop
<1>28. CASE Receive
  <2> DEFINE w == Tail(writes)
  <2>1. UNCHANGED <<accepted, delivered, pending, offset, released>> /\ current = None
    BY <1>28 DEF Receive
  <2>2. CASE UNCHANGED <<writes, current>> /\ wpc' = "done"
    BY <2>1, <2>2
  <2>3. CASE writes # <<>> /\ writes' = w /\ current' = Head(writes) /\ wpc' = "dequeued"
    <3>1. /\ Head(writes) \in 1..accepted /\ Head(writes) = writes[1]
          /\ Len(writes) \in Nat \ {0} /\ Len(w) = Len(writes) - 1
          /\ \A i \in 1..Len(w) : w[i] = writes[i + 1]
      BY <2>3, Received
    <3>2. Base \in Nat /\ LastPart(delivered) = <<Base, Parts>> /\ offset = 0
      BY <2>1, LastTyped
    <3>3. Head(writes) = Base + 1 /\ Head(writes) # None
      BY <3>1
    <3>4. Base' = Base + 1 /\ current' = Base + 1 /\ current' # None
      BY <2>3, <3>3
    <3> HIDE DEF w, Base
    <3>5. \A i \in 1..Len(w) : w[i] = (Base + 1) + i
      <4> TAKE i \in 1..Len(w)
      <4>1. i + 1 \in 1..Len(writes) /\ w[i] = Base + (i + 1)
        BY <3>1
      <4> QED BY <3>2, <4>1
    <3>6. /\ wpc # "done"
          /\ ~WriterGone => Base + 1 + Len(w) = Base + Len(writes)
      BY <1>28, <3>1, <3>2 DEF Receive
    <3>7. LastPart(delivered) = <<current' - 1, Parts>>
      BY <3>2, <3>4
    <3> QED BY <2>1, <2>3, <3>1, <3>2, <3>4, <3>5, <3>6, <3>7
  <2> QED BY <1>28, <2>2, <2>3 DEF Receive
<1>29. CASE Dequeued
  BY <1>29 DEF Dequeued
<1>30. CASE WriterNotifies
  BY <1>30 DEF WriterNotifies
<1>31. CASE WriterChecks
  BY <1>31 DEF WriterChecks
<1>32. CASE WritePart
  <2> DEFINE S == Nat \X (1..Parts)
             x == <<current, offset + 1>>
             d == Append(delivered, x)
  <2>1. current \in Nat /\ offset + 1 \in 1..Parts /\ current # None
    BY <1>32 DEF WritePart
  <2>2. delivered \in Seq(S) /\ x \in S /\ delivered' = d
    BY <1>32, <2>1 DEF WritePart
  <2>3. d # <<>> /\ d[Len(d)] = x
    <3> HIDE DEF S, x
    <3>1. /\ d # <<>> /\ Len(d) = Len(delivered) + 1
          /\ d[Len(delivered) + 1] = x
      BY <2>2, Sent
    <3> HIDE DEF d
    <3> QED BY <3>1
  <2>4. LastPart(delivered)' = <<current, offset + 1>>
    <3> HIDE DEF d
    <3> QED BY <2>2, <2>3 DEF LastPart
  <2>5. /\ UNCHANGED <<accepted, writes, pending, current, released>>
        /\ offset' = offset + 1 /\ wpc' = "top" /\ wpc = "write"
    BY <1>32 DEF WritePart
  <2> QED BY <2>1, <2>4, <2>5
<1>33. CASE WriterFlushes
  BY <1>33 DEF WriterFlushes
<1>34. CASE WriteStops
  BY <1>34 DEF WriteStops
<1>35. CASE WriterWaits
  BY <1>35 DEF WriterWaits
<1>36. CASE HangupCloses
  BY <1>36 DEF HangupCloses
<1>37. CASE WriterReports
  BY <1>37 DEF WriterReports
<1>38. CASE ReaderTop
  BY <1>38 DEF ReaderTop
<1>39. CASE SendBatch
  BY <1>39 DEF SendBatch
<1>40. CASE SendEnd
  BY <1>40 DEF SendEnd
<1>41. CASE ReaderNotifies
  BY <1>41 DEF ReaderNotifies
<1>42. CASE ReaderWaits
  BY <1>42 DEF ReaderWaits
<1>43. CASE ReadBatch
  BY <1>43 DEF ReadBatch
<1>44. CASE ReadNothing
  BY <1>44 DEF ReadNothing
<1>45. CASE Observe
  BY <1>45 DEF Observe
<1>46. CASE Application
  BY <1>46 DEF Application
<1>47. CASE UNCHANGED vars
  BY <1>47
<1> QED BY <1>1, <1>2, <1>3, <1>4, <1>5, <1>6, <1>7, <1>8, <1>9, <1>10, <1>11, <1>12,
    <1>13, <1>14, <1>15, <1>16, <1>17, <1>18, <1>19, <1>20, <1>21, <1>22, <1>23, <1>24,
    <1>25, <1>26, <1>27, <1>28, <1>29, <1>30, <1>31, <1>32, <1>33, <1>34, <1>35, <1>36,
    <1>37, <1>38, <1>39, <1>40, <1>41, <1>42, <1>43, <1>44, <1>45, <1>46, <1>47 DEF
    RuntimeNext, Owner, Writer, Reader, Clients

(* The last chunk read stays the last one on its way to the parser. *)
LEMMA OutputStep ==
    ASSUME OutputInv, LoopInv, CountTypes, OutputTypes, OwnerTypes, [RuntimeNext]_vars
    PROVE  OutputInv'
<1> USE Constants DEF vars, flagVars, pipeVars, loopVars, endVars, ownerVars,
    writerVars, readerVars, observerVars, clientVars, worldVars, OutputInv, LoopInv,
    CountTypes, OutputTypes, Late, Final, ReaderEnded, Controls
<1>1. CASE Offer
  BY <1>1 DEF Offer
<1>2. CASE Ask
  BY <1>2, QueuedAppend DEF Ask
<1>3. CASE Notify
  BY <1>3 DEF Notify
<1>4. CASE Close
  BY <1>4 DEF Close
<1>5. CASE CloseSent
  BY <1>5, QueuedAppend DEF CloseSent
<1>6. CASE Turn
  BY <1>6 DEF Turn, ExitSeen, RecordExit, Fail, CloseInput, Settled
<1>7. CASE TurnEnds
  BY <1>7 DEF TurnEnds
<1>8. CASE Answer
  BY <1>8, QueuedTail DEF Answer, Handle, Drain
<1>9. CASE Abandon
  <2>1. PICK control \in Controls : Drain(control)
    BY <1>9 DEF Abandon
  <2> QED BY <1>9, <2>1, QueuedTail DEF Abandon, Drain
<1>10. CASE WriterFailure
  BY <1>10, QueuedTail DEF WriterFailure, Handle, ExitSeen, RecordExit, Fail, Drain,
      CloseInput, Settled
<1>11. CASE WriterHangup
  BY <1>11, QueuedTail DEF WriterHangup, Handle, CloseInput, Drain
<1>12. ASSUME NEW control \in {"eof", "reader_failed"}, ReaderEnd(control)
      PROVE  OutputInv'
  BY <1>12, QueuedTail DEF ReaderEnd, Handle, CloseInput, Drain
<1>13. CASE ControlsHandled
  BY <1>13 DEF ControlsHandled
<1>14. CASE DrainBatch
  <2> DEFINE q == Tail(outputs)
  <2>1. /\ Len(q) = Len(outputs) - 1 /\ Len(outputs) \in Nat \ {0}
        /\ IF q = <<>> THEN outputs[Len(outputs)] = Head(outputs)
           ELSE outputs[Len(outputs)] = q[Len(q)]
    BY <1>14, Received DEF DrainBatch
  <2>2. /\ outputs # <<>> /\ outputs' = q /\ parsed' = Head(outputs) /\ budget' = budget - 1
        /\ UNCHANGED <<controls, back, outputEnded, closing, rpc, batch, ended, taken>>
    BY <1>14 DEF DrainBatch, Parse
  <2> HIDE DEF q
  <2> QED BY <2>1, <2>2
<1>15. CASE OutputEnds
  BY <1>15 DEF OutputEnds, Settled, Fail
<1>16. CASE Write
  BY <1>16 DEF Write
<1>17. CASE TryWrite
  BY <1>17 DEF TryWrite
<1>18. CASE WriteClosed
  BY <1>18 DEF WriteClosed
<1>19. CASE WriteExcused
  BY <1>19 DEF WriteExcused, Writing, Fail
<1>20. CASE Flush
  BY <1>20 DEF Flush
<1>21. CASE FlushExcused
  BY <1>21 DEF FlushExcused, Fail
<1>22. CASE RequestWake
  BY <1>22 DEF RequestWake
<1>23. CASE Wait
  BY <1>23 DEF Wait
<1>24. CASE NextMessage
  BY <1>24, Received DEF NextMessage, TakeOutput, TakeInput, TakeNothing, Parse, Writing
<1>25. CASE Teardown
  BY <1>25 DEF Teardown
<1>26. CASE Join
  BY <1>26 DEF Join
<1>27. CASE WriterTop
  BY <1>27 DEF WriterTop
<1>28. CASE Receive
  BY <1>28 DEF Receive
<1>29. CASE Dequeued
  BY <1>29 DEF Dequeued
<1>30. CASE WriterNotifies
  BY <1>30 DEF WriterNotifies
<1>31. CASE WriterChecks
  BY <1>31 DEF WriterChecks
<1>32. CASE WritePart
  BY <1>32 DEF WritePart
<1>33. CASE WriterFlushes
  BY <1>33 DEF WriterFlushes
<1>34. CASE WriteStops
  BY <1>34 DEF WriteStops
<1>35. CASE WriterWaits
  BY <1>35 DEF WriterWaits
<1>36. CASE HangupCloses
  BY <1>36 DEF HangupCloses
<1>37. CASE WriterReports
  BY <1>37, QueuedAppend DEF WriterReports
<1>38. CASE ReaderTop
  BY <1>38 DEF ReaderTop
<1>39. CASE SendBatch
  BY <1>39 DEF SendBatch
<1>40. CASE SendEnd
  BY <1>40 DEF SendEnd
<1>41. CASE ReaderNotifies
  BY <1>41 DEF ReaderNotifies
<1>42. CASE ReaderWaits
  BY <1>42 DEF ReaderWaits
<1>43. CASE ReadBatch
  BY <1>43 DEF ReadBatch
<1>44. CASE ReadNothing
  BY <1>44 DEF ReadNothing
<1>45. CASE Observe
  BY <1>45 DEF Observe
<1>46. CASE Application
  BY <1>46 DEF Application
<1>47. CASE UNCHANGED vars
  BY <1>47
<1> QED BY <1>1, <1>2, <1>3, <1>4, <1>5, <1>6, <1>7, <1>8, <1>9, <1>10, <1>11, <1>12,
    <1>13, <1>14, <1>15, <1>16, <1>17, <1>18, <1>19, <1>20, <1>21, <1>22, <1>23, <1>24,
    <1>25, <1>26, <1>27, <1>28, <1>29, <1>30, <1>31, <1>32, <1>33, <1>34, <1>35, <1>36,
    <1>37, <1>38, <1>39, <1>40, <1>41, <1>42, <1>43, <1>44, <1>45, <1>46, <1>47 DEF
    RuntimeNext, Owner, Writer, Reader, Clients

(* What makes the runtime fail has a cause. *)
LEMMA CauseStep ==
    ASSUME CauseInv, CloseInv, LoopInv, OutputInv, OutputTypes, ResultTypes,
        [RuntimeNext]_vars
    PROVE  CauseInv'
<1> USE Constants DEF vars, flagVars, pipeVars, loopVars, endVars, ownerVars,
    writerVars, readerVars, observerVars, clientVars, worldVars, CauseInv, Cause,
    CloseInv, LoopInv, OutputTypes, Late, Final, NoSpill, WriterGone, Controls
<1>1. CASE Offer
  BY <1>1 DEF Offer
<1>2. CASE Ask
  BY <1>2, QueuedAppend DEF Ask
<1>3. CASE Notify
  BY <1>3 DEF Notify
<1>4. CASE Close
  BY <1>4 DEF Close
<1>5. CASE CloseSent
  BY <1>5, QueuedAppend DEF CloseSent
<1>6. CASE Turn
  BY <1>6 DEF Turn, ExitSeen, RecordExit, Fail, CloseInput, Settled
<1>7. CASE TurnEnds
  BY <1>7 DEF TurnEnds
<1>8. CASE Answer
  BY <1>8, QueuedTail DEF Answer, Handle, Drain
<1>9. CASE Abandon
  <2>1. PICK control \in Controls : Drain(control)
    BY <1>9 DEF Abandon
  <2> QED BY <1>9, <2>1, QueuedTail DEF Abandon, Drain
<1>10. CASE WriterFailure
  BY <1>10, QueuedTail DEF WriterFailure, Handle, ExitSeen, RecordExit, Fail, Drain,
      CloseInput, Settled
<1>11. CASE WriterHangup
  BY <1>11, QueuedTail DEF WriterHangup, Handle, CloseInput, Drain
<1>12. ASSUME NEW control \in {"eof", "reader_failed"}, ReaderEnd(control)
      PROVE  CauseInv'
  BY <1>12, QueuedTail DEF ReaderEnd, Handle, CloseInput, Drain
<1>13. CASE ControlsHandled
  BY <1>13 DEF ControlsHandled
<1>14. CASE DrainBatch
  BY <1>14 DEF DrainBatch
<1>15. CASE OutputEnds
  BY <1>15 DEF OutputEnds
<1>16. CASE Write
  BY <1>16 DEF Write
<1>17. CASE TryWrite
  BY <1>17 DEF TryWrite
<1>18. CASE WriteClosed
  BY <1>18 DEF WriteClosed
<1>19. CASE WriteExcused
  BY <1>19 DEF WriteExcused
<1>20. CASE Flush
  BY <1>20 DEF Flush
<1>21. CASE FlushExcused
  BY <1>21 DEF FlushExcused
<1>22. CASE RequestWake
  BY <1>22 DEF RequestWake
<1>23. CASE Wait
  BY <1>23 DEF Wait
<1>24. CASE NextMessage
  BY <1>24 DEF NextMessage
<1>25. CASE Teardown
  BY <1>25 DEF Teardown
<1>26. CASE Join
  BY <1>26 DEF Join
<1>27. CASE WriterTop
  BY <1>27 DEF WriterTop
<1>28. CASE Receive
  BY <1>28 DEF Receive
<1>29. CASE Dequeued
  BY <1>29 DEF Dequeued
<1>30. CASE WriterNotifies
  BY <1>30 DEF WriterNotifies
<1>31. CASE WriterChecks
  BY <1>31 DEF WriterChecks
<1>32. CASE WritePart
  BY <1>32 DEF WritePart
<1>33. CASE WriterFlushes
  BY <1>33 DEF WriterFlushes
<1>34. CASE WriteStops
  BY <1>34 DEF WriteStops, Fault
<1>35. CASE WriterWaits
  BY <1>35 DEF WriterWaits, Fault
<1>36. CASE HangupCloses
  BY <1>36 DEF HangupCloses
<1>37. CASE WriterReports
  BY <1>37, QueuedAppend DEF WriterReports
<1>38. CASE ReaderTop
  BY <1>38 DEF ReaderTop
<1>39. CASE SendBatch
  BY <1>39 DEF SendBatch
<1>40. CASE SendEnd
  BY <1>40, QueuedAppend DEF SendEnd, ResultTypes, OutputInv
<1>41. CASE ReaderNotifies
  BY <1>41 DEF ReaderNotifies
<1>42. CASE ReaderWaits
  BY <1>42 DEF ReaderWaits, Fault
<1>43. CASE ReadBatch
  BY <1>43 DEF ReadBatch, Fault
<1>44. CASE ReadNothing
  BY <1>44 DEF ReadNothing, Fault
<1>45. CASE Observe
  BY <1>45 DEF Observe, Fault
<1>46. CASE Application
  BY <1>46 DEF Application, Exit, HangUp, Produce, TakesInput
<1>47. CASE UNCHANGED vars
  BY <1>47
<1> QED BY <1>1, <1>2, <1>3, <1>4, <1>5, <1>6, <1>7, <1>8, <1>9, <1>10, <1>11, <1>12,
    <1>13, <1>14, <1>15, <1>16, <1>17, <1>18, <1>19, <1>20, <1>21, <1>22, <1>23, <1>24,
    <1>25, <1>26, <1>27, <1>28, <1>29, <1>30, <1>31, <1>32, <1>33, <1>34, <1>35, <1>36,
    <1>37, <1>38, <1>39, <1>40, <1>41, <1>42, <1>43, <1>44, <1>45, <1>46, <1>47 DEF
    RuntimeNext, Owner, Writer, Reader, Clients

(* What the owner will be notified of stays so. *)
LEMMA WakeStep ==
    ASSUME WakeInv, LoopInv, CloseInv, OutputInv, CountTypes, OutputTypes, OwnerTypes,
        InputTypes, [RuntimeNext]_vars
    PROVE  WakeInv'
<1> USE Constants DEF vars, flagVars, pipeVars, loopVars, endVars, ownerVars,
    writerVars, readerVars, observerVars, clientVars, worldVars, WakeInv, LoopInv,
    CountTypes, OutputTypes, InputTypes, Late, Final, WriterGone, Controls
<1>1. CASE Offer
  BY <1>1 DEF Offer
<1>2. CASE Ask
  BY <1>2 DEF Ask
<1>3. CASE Notify
  BY <1>3 DEF Notify
<1>4. CASE Close
  BY <1>4 DEF Close
<1>5. CASE CloseSent
  BY <1>5 DEF CloseSent
<1>6. CASE Turn
  BY <1>6 DEF Turn, ExitSeen, RecordExit, Fail, CloseInput, Settled
<1>7. CASE TurnEnds
  BY <1>7 DEF TurnEnds
<1>8. CASE Answer
  BY <1>8, QueuedTail DEF Answer, Handle, Drain
<1>9. CASE Abandon
  BY <1>9 DEF Abandon
<1>10. CASE WriterFailure
  BY <1>10, QueuedTail DEF WriterFailure, Handle, ExitSeen, RecordExit, Fail, Drain,
      CloseInput, Settled
<1>11. CASE WriterHangup
  BY <1>11, QueuedTail DEF WriterHangup, Handle, CloseInput, Drain
<1>12. ASSUME NEW control \in {"eof", "reader_failed"}, ReaderEnd(control)
      PROVE  WakeInv'
  BY <1>12, QueuedTail DEF ReaderEnd, Handle, CloseInput, Drain
<1>13. CASE ControlsHandled
  BY <1>13 DEF ControlsHandled
<1>14. CASE DrainBatch
  BY <1>14 DEF DrainBatch, Parse, Writing
<1>15. CASE OutputEnds
  BY <1>15 DEF OutputEnds
<1>16. CASE Write
  BY <1>16 DEF Write, Writing
<1>17. CASE TryWrite
  BY <1>17 DEF TryWrite, Accept, Writing
<1>18. CASE WriteClosed
  BY <1>18 DEF WriteClosed
<1>19. CASE WriteExcused
  BY <1>19 DEF WriteExcused, Writing, Fail
<1>20. CASE Flush
  <2>1. CASE pending = <<>>
    BY <1>20, <2>1 DEF Flush
  <2>2. CASE pending # <<>> /\ pc' = "unflushed"
    BY <1>20, <2>2 DEF Flush
  <2>3. CASE UNCHANGED pc
    BY <1>20, <2>3 DEF Flush
  <2>4. CASE ~WriterGone /\ Len(writes) >= WriterCapacity /\ UNCHANGED writes
    <3>1. writes # <<>>
      BY <2>4, EmptySeq
    <3> QED BY <1>20, <2>4, <3>1 DEF Flush
  <2> QED BY <1>20, <2>1, <2>2, <2>3, <2>4 DEF Flush
<1>21. CASE FlushExcused
  BY <1>21 DEF FlushExcused
<1>22. CASE RequestWake
  BY <1>22 DEF RequestWake
<1>23. CASE Wait
  BY <1>23 DEF Wait
<1>24. CASE NextMessage
  <2>1. CASE TakeInput
    BY <1>24, <2>1 DEF NextMessage, TakeInput, Writing
  <2>2. CASE TakeOutput
    BY <1>24, <2>2 DEF NextMessage, TakeOutput, Parse, Writing
  <2>3. CASE ~TakeInput /\ ~TakeOutput
    <3>1. CASE pc = "next"
      BY <1>24, <2>3, <3>1 DEF NextMessage, TakeNothing
    <3>2. CASE pc = "other"
      BY <1>24, <2>3, <3>2 DEF NextMessage, TakeNothing
    <3> QED BY <1>24, <3>1, <3>2 DEF NextMessage
  <2> QED BY <2>1, <2>2, <2>3
<1>25. CASE Teardown
  BY <1>25 DEF Teardown
<1>26. CASE Join
  BY <1>26 DEF Join
<1>27. CASE WriterTop
  BY <1>27 DEF WriterTop, CloseInv, NoSpill
<1>28. CASE Receive
  BY <1>28 DEF Receive
<1>29. CASE Dequeued
  BY <1>29 DEF Dequeued
<1>30. CASE WriterNotifies
  BY <1>30 DEF WriterNotifies
<1>31. CASE WriterChecks
  BY <1>31 DEF WriterChecks, CloseInv, NoSpill
<1>32. CASE WritePart
  BY <1>32 DEF WritePart
<1>33. CASE WriterFlushes
  BY <1>33 DEF WriterFlushes
<1>34. CASE WriteStops
  BY <1>34 DEF WriteStops
<1>35. CASE WriterWaits
  BY <1>35 DEF WriterWaits
<1>36. CASE HangupCloses
  BY <1>36 DEF HangupCloses
<1>37. CASE WriterReports
  BY <1>37 DEF WriterReports
<1>38. CASE ReaderTop
  BY <1>38 DEF ReaderTop
<1>39. CASE SendBatch
  BY <1>39 DEF SendBatch
<1>40. CASE SendEnd
  BY <1>40 DEF SendEnd
<1>41. CASE ReaderNotifies
  BY <1>41 DEF ReaderNotifies
<1>42. CASE ReaderWaits
  BY <1>42 DEF ReaderWaits
<1>43. CASE ReadBatch
  BY <1>43 DEF ReadBatch
<1>44. CASE ReadNothing
  BY <1>44 DEF ReadNothing
<1>45. CASE Observe
  BY <1>45 DEF Observe
<1>46. CASE Application
  BY <1>46 DEF Application
<1>47. CASE UNCHANGED vars
  BY <1>47
<1> QED BY <1>1, <1>2, <1>3, <1>4, <1>5, <1>6, <1>7, <1>8, <1>9, <1>10, <1>11, <1>12,
    <1>13, <1>14, <1>15, <1>16, <1>17, <1>18, <1>19, <1>20, <1>21, <1>22, <1>23, <1>24,
    <1>25, <1>26, <1>27, <1>28, <1>29, <1>30, <1>31, <1>32, <1>33, <1>34, <1>35, <1>36,
    <1>37, <1>38, <1>39, <1>40, <1>41, <1>42, <1>43, <1>44, <1>45, <1>46, <1>47 DEF
    RuntimeNext, Owner, Writer, Reader, Clients

-----------------------------------------------------------------------------
(* It holds at first: the queues are empty and nothing has happened yet. *)
LEMMA Initially == RuntimeInit => IInv
<1> SUFFICES ASSUME RuntimeInit PROVE IInv
  OBVIOUS
<1> USE Constants, EmptySeq DEF RuntimeInit, Init
<1>1. TypeOK
  <2>1. FlagTypes
    BY DEF FlagTypes
  <2> HIDE EmptySeq
  <2>2. 0 \in 0..ControlBatch /\ 0 \in 0..OutputCapacity /\ 0 \in 0..0
    BY Constants
  <2>3. CountTypes
    BY <2>2 DEF CountTypes
  <2> USE EmptySeq
  <2>4. OwnerTypes /\ ThreadTypes /\ ResultTypes
    BY DEF OwnerTypes, ThreadTypes, ResultTypes, OwnerStates, Returns, WriterStates,
           ReaderStates
  <2>5. InputTypes /\ OutputTypes
    BY DEF InputTypes, OutputTypes
  <2> QED BY <2>1, <2>3, <2>4, <2>5 DEF TypeOK
<1>2. LoopInv /\ CloseInv
  BY DEF LoopInv, CloseInv, Late, Final, Queued
<1>3. PipeInv
  BY DEF PipeInv, Base, LastPart, WriterGone
<1>4. OutputInv /\ CauseInv
  <2>1. \A control : ~Queued(controls, control)
    BY DEF Queued
  <2>2. OutputInv
    BY <2>1 DEF OutputInv
  <2>3. CauseInv
    BY <2>1 DEF CauseInv, Controls
  <2> QED BY <2>2, <2>3
<1>5. WakeInv
  BY DEF WakeInv, Late
<1> QED BY <1>1, <1>2, <1>3, <1>4, <1>5 DEF IInv

(* The inductive invariant: where every thread is, what it holds and what   *)
(* is queued for it, together.                                             *)
THEOREM Invariant == RuntimeSpec => []IInv
<1>1. ASSUME IInv, [RuntimeNext]_vars PROVE IInv'
  <2> USE <1>1 DEF IInv, TypeOK
  <2>1. TypeOK'
    BY FlagTyped, CountTyped, OwnerTyped, ThreadTyped, ResultTyped, InputTyped, OutputTyped
  <2>2. LoopInv' /\ CloseInv' /\ PipeInv'
    BY LoopStep, CloseStep, PipeStep
  <2>3. OutputInv' /\ CauseInv' /\ WakeInv'
    BY OutputStep, CauseStep, WakeStep
  <2> QED BY <2>1, <2>2, <2>3
<1> QED BY <1>1, Initially, PTL DEF RuntimeSpec

-----------------------------------------------------------------------------
(* Every queue keeps its capacity and its type, and so does every counter:  *)
(* Runtime's and WriterCapacity's bounded channels.                         *)
THEOREM TypeCorrect == RuntimeSpec => []TypeOK
BY Invariant, PTL DEF IInv

(* Owner::wait never sleeps through something it was, or will not be,       *)
(* notified of: see NoLostWake.                                            *)
THEOREM WakesKept == RuntimeSpec => []NoLostWake
<1>1. ASSUME IInv PROVE NoLostWake
  <2> SUFFICES ASSUME Asleep, ~Notifying
               PROVE  /\ ~closing /\ controls = <<>>
                      /\ childExited \/ result # "exited"
                      /\ IF pc = "idle" THEN input = 0 /\ outputs = <<>> /\ pending = <<>>
                         ELSE requested /\ wpc # "done" /\ (writes # <<>> \/ wpc = "dequeued")
    BY DEF NoLostWake
  <2> USE <1>1 DEF IInv, TypeOK, WakeInv, Asleep, Notifying, Late, Final
  <2>1. unnotified = 0 /\ input \in Nat
    BY DEF CountTypes
  <2>2. ~closing /\ controls = <<>> /\ (childExited \/ result # "exited")
    BY <2>1 DEF CountTypes
  <2>3. CASE pc = "idle"
    BY <2>1, <2>2, <2>3 DEF LoopInv
  <2>4. CASE pc = "full"
    BY <2>1, <2>2, <2>4
  <2> QED BY <2>2, <2>3, <2>4
<1> QED BY <1>1, Invariant, PTL

(* Owner::fail and the writer's and reader's reports: a hangup or an exit   *)
(* is no failure.                                                          *)
THEOREM FailuresCaused == RuntimeSpec => []FailureHasCause
<1>1. IInv => FailureHasCause
  BY DEF IInv, CauseInv, Cause, FailureHasCause
<1> QED BY <1>1, Invariant, PTL

(* Owner::drain_output: the end of output never overtakes the output. *)
THEOREM OutputFirst == RuntimeSpec => []OutputComplete
<1>1. IInv => OutputComplete
  BY DEF IInv, OutputInv, ReaderEnded, OutputComplete
<1> QED BY <1>1, Invariant, PTL

(* The owner's handling of a writer's late failure: the runtime goes on     *)
(* after the exit of the child, unless the reader or the wait failed or a   *)
(* client closes it.                                                       *)
THEOREM HistoryPreserved == RuntimeSpec => HistoryKept
<1> DEFINE Kept == childExited /\ ~closing /\ closing' /\ closer' = "idle"
                      => faults' \ {"write"} # {}
<1>1. ASSUME IInv, [RuntimeNext]_vars PROVE [Kept]_vars
  <2> SUFFICES ASSUME childExited, ~closing, closing', closer' = "idle"
               PROVE  faults' \ {"write"} # {}
    OBVIOUS
  <2> USE <1>1 DEF IInv, TypeOK, vars, flagVars, pipeVars, loopVars, endVars, ownerVars,
            writerVars, readerVars, observerVars, clientVars, worldVars
  <2>1. CASE Offer
    BY <2>1 DEF Offer
  <2>2. CASE Ask
    BY <2>2 DEF Ask
  <2>3. CASE Notify
    BY <2>3 DEF Notify
  <2>4. CASE Close
    BY <2>4 DEF Close
  <2>5. CASE CloseSent
    BY <2>5 DEF CloseSent
  <2>6. CASE Turn
    BY <2>6 DEF Turn, ExitSeen, RecordExit, CauseInv
  <2>7. CASE TurnEnds
    BY <2>7 DEF TurnEnds
  <2>8. CASE Answer
    BY <2>8 DEF Answer
  <2>9. CASE Abandon
    BY <2>9 DEF Abandon
  <2>10. CASE WriterFailure
    BY <2>10 DEF WriterFailure, ExitSeen, RecordExit
  <2>11. CASE WriterHangup
    BY <2>11 DEF WriterHangup
  <2>12. ASSUME NEW control \in {"eof", "reader_failed"}, ReaderEnd(control)
        PROVE  FALSE
    BY <2>12 DEF ReaderEnd
  <2>13. CASE ControlsHandled
    BY <2>13 DEF ControlsHandled
  <2>14. CASE DrainBatch
    BY <2>14 DEF DrainBatch
  <2>15. CASE OutputEnds
    <3>1. back = "reader_failed"
      BY <2>15 DEF OutputEnds
    <3>2. "read" \in faults'
      BY <2>15, <3>1 DEF OutputEnds, CauseInv
    <3> QED BY <3>2
  <2>16. CASE Write
    BY <2>16 DEF Write
  <2>17. CASE TryWrite
    BY <2>17 DEF TryWrite
  <2>18. CASE WriteClosed
    BY <2>18 DEF WriteClosed
  <2>19. CASE WriteExcused
    BY <2>19 DEF WriteExcused, CloseInv, NoSpill
  <2>20. CASE Flush
    BY <2>20 DEF Flush
  <2>21. CASE FlushExcused
    BY <2>21 DEF FlushExcused, CloseInv, NoSpill
  <2>22. CASE RequestWake
    BY <2>22 DEF RequestWake
  <2>23. CASE Wait
    BY <2>23 DEF Wait
  <2>24. CASE NextMessage
    BY <2>24 DEF NextMessage
  <2>25. CASE Teardown
    BY <2>25 DEF Teardown, LoopInv, Final
  <2>26. CASE Join
    BY <2>26 DEF Join
  <2>27. CASE WriterTop
    BY <2>27 DEF WriterTop
  <2>28. CASE Receive
    BY <2>28 DEF Receive
  <2>29. CASE Dequeued
    BY <2>29 DEF Dequeued
  <2>30. CASE WriterNotifies
    BY <2>30 DEF WriterNotifies
  <2>31. CASE WriterChecks
    BY <2>31 DEF WriterChecks
  <2>32. CASE WritePart
    BY <2>32 DEF WritePart
  <2>33. CASE WriterFlushes
    BY <2>33 DEF WriterFlushes
  <2>34. CASE WriteStops
    BY <2>34 DEF WriteStops
  <2>35. CASE WriterWaits
    BY <2>35 DEF WriterWaits
  <2>36. CASE HangupCloses
    BY <2>36 DEF HangupCloses
  <2>37. CASE WriterReports
    BY <2>37 DEF WriterReports
  <2>38. CASE ReaderTop
    BY <2>38 DEF ReaderTop
  <2>39. CASE SendBatch
    BY <2>39 DEF SendBatch
  <2>40. CASE SendEnd
    BY <2>40 DEF SendEnd
  <2>41. CASE ReaderNotifies
    BY <2>41 DEF ReaderNotifies
  <2>42. CASE ReaderWaits
    BY <2>42 DEF ReaderWaits
  <2>43. CASE ReadBatch
    BY <2>43 DEF ReadBatch
  <2>44. CASE ReadNothing
    BY <2>44 DEF ReadNothing
  <2>45. CASE Observe
    BY <2>45 DEF Observe
  <2>46. CASE Application
    BY <2>46 DEF Application
  <2>47. CASE UNCHANGED vars
    BY <2>47
  <2> QED BY <2>1, <2>2, <2>3, <2>4, <2>5, <2>6, <2>7, <2>8, <2>9, <2>10, <2>11, <2>12,
      <2>13, <2>14, <2>15, <2>16, <2>17, <2>18, <2>19, <2>20, <2>21, <2>22, <2>23,
      <2>24, <2>25, <2>26, <2>27, <2>28, <2>29, <2>30, <2>31, <2>32, <2>33, <2>34,
      <2>35, <2>36, <2>37, <2>38, <2>39, <2>40, <2>41, <2>42, <2>43, <2>44, <2>45,
      <2>46, <2>47 DEF RuntimeNext, Owner, Writer, Reader, Clients
<1>2. IInv /\ [RuntimeNext]_vars => [Kept]_vars
  BY <1>1
<1> QED BY <1>2, Invariant, PTL DEF RuntimeSpec, HistoryKept

(* Owner::queue_write, flush_pending and the writer: the runtime implements *)
(* InputPipe.  A write that is queued or spilled is an Accept, a part that  *)
(* the PTY takes a Deliver, and every other step leaves the pipe alone.     *)
THEOREM InputOrdered == RuntimeSpec => InputInOrder
<1>1. ASSUME IInv, [RuntimeNext]_vars PROVE [Next]_<<accepted, delivered>>
  <2> USE DEF vars, flagVars, pipeVars, loopVars, endVars, ownerVars, writerVars,
            readerVars, observerVars, clientVars, worldVars
  <2>1. CASE TryWrite
    BY <2>1 DEF TryWrite, Next
  <2>2. CASE WritePart
    <3> DEFINE part == <<current, offset + 1>>
    <3>1. InputTypes /\ PipeInv
      BY <1>1 DEF IInv, TypeOK
    <3>2. current \in 1..accepted /\ offset + 1 \in 1..Parts
      BY <2>2, <3>1, Constants DEF WritePart, InputTypes, PipeInv
    <3>3. Follows(LastPart(delivered), part)
      BY <2>2, <3>1, <3>2, Constants DEF WritePart, InputTypes, PipeInv, Follows
    <3>4. delivered' = Append(delivered, part) /\ UNCHANGED accepted
      BY <2>2 DEF WritePart
    <3> QED BY <3>2, <3>3, <3>4 DEF Next, Deliver
  <2>3. ASSUME ~TryWrite, ~WritePart PROVE UNCHANGED <<accepted, delivered>>
    <3>1. CASE Offer
      BY <3>1 DEF Offer
    <3>2. CASE Ask
      BY <3>2 DEF Ask
    <3>3. CASE Notify
      BY <3>3 DEF Notify
    <3>4. CASE Close
      BY <3>4 DEF Close
    <3>5. CASE CloseSent
      BY <3>5 DEF CloseSent
    <3>6. CASE Turn
      BY <3>6 DEF Turn
    <3>7. CASE TurnEnds
      BY <3>7 DEF TurnEnds
    <3>8. CASE Answer
      BY <3>8 DEF Answer
    <3>9. CASE Abandon
      BY <3>9 DEF Abandon
    <3>10. CASE WriterFailure
      BY <3>10 DEF WriterFailure
    <3>11. CASE WriterHangup
      BY <3>11 DEF WriterHangup
    <3>12. ASSUME NEW control \in {"eof", "reader_failed"}, ReaderEnd(control)
          PROVE  UNCHANGED <<accepted, delivered>>
      BY <3>12 DEF ReaderEnd
    <3>13. CASE ControlsHandled
      BY <3>13 DEF ControlsHandled
    <3>14. CASE DrainBatch
      BY <3>14 DEF DrainBatch
    <3>15. CASE OutputEnds
      BY <3>15 DEF OutputEnds
    <3>16. CASE Write
      BY <3>16 DEF Write
    <3>17. CASE WriteClosed
      BY <3>17 DEF WriteClosed
    <3>18. CASE WriteExcused
      BY <3>18 DEF WriteExcused
    <3>19. CASE Flush
      BY <3>19 DEF Flush
    <3>20. CASE FlushExcused
      BY <3>20 DEF FlushExcused
    <3>21. CASE RequestWake
      BY <3>21 DEF RequestWake
    <3>22. CASE Wait
      BY <3>22 DEF Wait
    <3>23. CASE NextMessage
      BY <3>23 DEF NextMessage
    <3>24. CASE Teardown
      BY <3>24 DEF Teardown
    <3>25. CASE Join
      BY <3>25 DEF Join
    <3>26. CASE WriterTop
      BY <3>26 DEF WriterTop
    <3>27. CASE Receive
      BY <3>27 DEF Receive
    <3>28. CASE Dequeued
      BY <3>28 DEF Dequeued
    <3>29. CASE WriterNotifies
      BY <3>29 DEF WriterNotifies
    <3>30. CASE WriterChecks
      BY <3>30 DEF WriterChecks
    <3>31. CASE WriterFlushes
      BY <3>31 DEF WriterFlushes
    <3>32. CASE WriteStops
      BY <3>32 DEF WriteStops
    <3>33. CASE WriterWaits
      BY <3>33 DEF WriterWaits
    <3>34. CASE HangupCloses
      BY <3>34 DEF HangupCloses
    <3>35. CASE WriterReports
      BY <3>35 DEF WriterReports
    <3>36. CASE ReaderTop
      BY <3>36 DEF ReaderTop
    <3>37. CASE SendBatch
      BY <3>37 DEF SendBatch
    <3>38. CASE SendEnd
      BY <3>38 DEF SendEnd
    <3>39. CASE ReaderNotifies
      BY <3>39 DEF ReaderNotifies
    <3>40. CASE ReaderWaits
      BY <3>40 DEF ReaderWaits
    <3>41. CASE ReadBatch
      BY <3>41 DEF ReadBatch
    <3>42. CASE ReadNothing
      BY <3>42 DEF ReadNothing
    <3>43. CASE Observe
      BY <3>43 DEF Observe
    <3>44. CASE Application
      BY <3>44 DEF Application
    <3>45. CASE UNCHANGED vars
      BY <3>45
    <3> QED BY <1>1, <2>3, <3>1, <3>2, <3>3, <3>4, <3>5, <3>6, <3>7, <3>8, <3>9, <3>10,
        <3>11, <3>12, <3>13, <3>14, <3>15, <3>16, <3>17, <3>18, <3>19, <3>20, <3>21,
        <3>22, <3>23, <3>24, <3>25, <3>26, <3>27, <3>28, <3>29, <3>30, <3>31, <3>32,
        <3>33, <3>34, <3>35, <3>36, <3>37, <3>38, <3>39, <3>40, <3>41, <3>42, <3>43,
        <3>44, <3>45 DEF RuntimeNext, Owner, Writer, Reader, Clients
  <2> QED BY <2>1, <2>2, <2>3
<1>2. RuntimeInit => Init
  BY DEF RuntimeInit
<1> QED BY <1>1, <1>2, Invariant, PTL DEF RuntimeSpec, InputInOrder, Spec
=============================================================================
