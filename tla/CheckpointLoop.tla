--------------------------- MODULE CheckpointLoop ---------------------------
(***************************************************************************)
(* Checkpoint on one event loop as asyncio runs it when no resumption is   *)
(* late: a task that ends schedules its callbacks in the order in which    *)
(* they were added, so the coroutines that wait for it go on one after the *)
(* other in the order in which they began to wait, the one that started    *)
(* the task first, unless it was cancelled.                                *)
(***************************************************************************)
EXTENDS MCCheckpoint

VARIABLE queue  \* the callers that wait for a task, the longest first

LoopInit == Init /\ queue = <<>>

\* A caller that begins to wait, or waits for another task, goes to the end.
Queue ==
  LET new == {c \in Caller : Awaited(c)' \notin {NoEvent, Awaited(c)}}
  IN  queue' = SelectSeq(queue, LAMBDA c : Awaited(c)' = Awaited(c))
                 \o SetToSeq(new)

\* The first caller whose task is done goes on before anything else happens.
Resume ==
  \E i \in DOMAIN queue :
    /\ Resumable(queue[i]) /\ \A j \in 1 .. i - 1 : ~Resumable(queue[j])
    /\ AppendReturn(queue[i]) \/ Wake(queue[i])

LoopNext ==
  /\ \/ Resume
     \/ (\A c \in Caller : ~Resumable(c)) /\ Next
  /\ Queue

LoopSpec == LoopInit /\ [][LoopNext]_<<vars, queue>>
=============================================================================
