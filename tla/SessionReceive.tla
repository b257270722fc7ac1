---------------------------- MODULE SessionReceive ----------------------------
(***************************************************************************)
(* The receive path of ServerHost's NetworkSession: OnReceived on the I/O  *)
(* thread, ConsumePendingBytesOnRunner on the job runner, a parse worker,  *)
(* and the end of the session, over the two ledgers they share.            *)
(*                                                                         *)
(* A chunk is its size and the number of frames it completes; every body   *)
(* has one byte, so bytes and tasks of the parse ledger are one number.    *)
(* mReceiveMutex and mParseStateMutex are each held over one action.       *)
(***************************************************************************)
EXTENDS Integers, Sequences, SequencesExt, FiniteSetsExt

CONSTANTS
  Chunks,        \* what the transport delivers: a sequence of [bytes, frames]
  Modes,         \* "workers" or "sync": parseWorkerThreadCount zero or not
  MaxFrames,     \* MaximumFramesPerReceiveJob
  MaxReceive, MaxChunks,    \* of the session; the host's total is HostReceive
  HostReceive,
  MaxTasks,      \* maxPendingParseTasks
  Faults         \* posts and appends that may fail

VARIABLES
  mode,
  rx,       \* pending chunks, bytes and chunks charged, job queued, deferred
  reader,   \* frames ready, and the number completed so far
  parse,    \* unscheduled, in flight, and the tasks charged
  life,     \* the session's state, finalized, and whether its end was told
  net,      \* the I/O thread: its next chunk, and where it is
  jobs,     \* the job runner's queue
  run,      \* the job it runs
  item,     \* where the one ParseWorkItem is, and its frame
  handled,  \* frames the handlers have seen
  faults

vars == <<mode, rx, reader, parse, life, net, jobs, run, item, handled, faults>>

Idle == [at |-> "idle", batch |-> <<>>, size |-> 0, count |-> 0, budget |-> 0, then |-> ""]
NoItem == [at |-> "none", frame |-> 0]

Init ==
  /\ mode \in Modes
  /\ rx = [pending |-> <<>>, bytes |-> 0, chunks |-> 0, job |-> FALSE, defBytes |-> 0, defChunks |-> 0]
  /\ reader = [ready |-> <<>>, completed |-> 0]
  /\ parse = [unscheduled |-> 0, inFlight |-> FALSE, tasks |-> 0]
  /\ life = [state |-> "open", final |-> FALSE, told |-> FALSE]
  /\ net = [next |-> 1, at |-> "idle"]
  /\ jobs = <<>> /\ run = Idle /\ item = NoItem
  /\ handled = 0 /\ faults = 0

Open == life.state = "open"
SizeOf(chunks) == FoldLeft(LAMBDA sum, c : sum + c.bytes, 0, chunks)

\* Only an open session changes; the transport ends a closing one later.
Closing == [life EXCEPT !.state = IF @ = "open" THEN "closing" ELSE @]
Fault == faults < Faults /\ faults' = faults + 1

-----------------------------------------------------------------------------
(* The I/O thread.                                                         *)

\* OnBytesReceived reads the state of the session first, outside the lock.
OnReceived ==
  /\ net.at = "idle" /\ net.next <= Len(Chunks) /\ Open
  /\ net' = [net EXCEPT !.at = "received"]
  /\ UNCHANGED <<mode, rx, reader, parse, life, jobs, run, item, handled, faults>>

\* Over a limit the session is disconnected, otherwise the chunk is charged
\* and, unless one is queued, a job is due.
KeepReceived ==
  LET chunk == Chunks[net.next] IN
  /\ net.at = "received"
  /\ IF rx.bytes + chunk.bytes > MaxReceive \/ rx.chunks >= MaxChunks \/ rx.bytes + chunk.bytes > HostReceive
     THEN life' = Closing /\ UNCHANGED rx /\ net' = [next |-> net.next + 1, at |-> "idle"]
     ELSE /\ rx' = [rx EXCEPT !.pending = Append(@, chunk), !.bytes = @ + chunk.bytes, !.chunks = @ + 1,
                              !.job = TRUE]
          /\ net' = [next |-> net.next + 1, at |-> IF rx.job THEN "idle" ELSE "post"] /\ UNCHANGED life
  /\ UNCHANGED <<mode, reader, parse, jobs, run, item, handled, faults>>

PostJob ==
  /\ net.at = "post" /\ net' = [net EXCEPT !.at = "idle"]
  /\ \/ jobs' = Append(jobs, "consume") /\ UNCHANGED <<life, faults>>
     \/ Fault /\ life' = Closing /\ UNCHANGED jobs
  /\ UNCHANGED <<mode, rx, reader, parse, run, item, handled>>

\* The peer or the application.
Disconnect ==
  /\ Open /\ life' = Closing
  /\ UNCHANGED <<mode, rx, reader, parse, net, jobs, run, item, handled, faults>>

\* DiscardQueuedReceiveBytes
DiscardReceived ==
  [rx EXCEPT !.pending = <<>>, !.bytes = @ - SizeOf(rx.pending), !.chunks = @ - Len(rx.pending), !.job = FALSE]

OnDisconnected ==
  /\ life.state = "closing" /\ net.at = "idle"
  /\ life' = [life EXCEPT !.state = "closed"] /\ rx' = DiscardReceived
  /\ \/ jobs' = Append(jobs, "finalize") /\ net' = [net EXCEPT !.at = "gone"] /\ UNCHANGED faults
     \/ Fault /\ net' = [net EXCEPT !.at = "finalize"] /\ UNCHANGED jobs
  /\ UNCHANGED <<mode, reader, parse, run, item, handled>>

\* DiscardQueuedParseFramesLocked
DiscardParse ==
  /\ reader' = [reader EXCEPT !.ready = <<>>]
  /\ parse' = [parse EXCEPT !.tasks = @ - parse.unscheduled, !.unscheduled = 0]

MutantFinalize ==
  life' = [life EXCEPT !.final = TRUE, !.told = TRUE] /\ UNCHANGED <<reader, parse>>

Finalize ==
  life' = [life EXCEPT !.final = TRUE, !.told = TRUE] /\ DiscardParse

\* FinalizeAfterRunnerFailure waits for the handler that is running.
FinalizeAfterRunnerFailure ==
  /\ net.at = "finalize" /\ run.at \notin {"handler", "parsedHandler"}
  /\ Finalize /\ net' = [net EXCEPT !.at = "gone"]
  /\ UNCHANGED <<mode, rx, jobs, run, item, handled, faults>>

-----------------------------------------------------------------------------
(* ConsumePendingBytesOnRunner.                                            *)

Begin(job) == run.at = "idle" /\ jobs # <<>> /\ Head(jobs) = job /\ jobs' = Tail(jobs)

FinalizeOnRunner ==
  /\ Begin("finalize") /\ Finalize
  /\ UNCHANGED <<mode, rx, net, run, item, handled, faults>>

\* What an earlier job left comes first.
Consume ==
  /\ Begin("consume")
  /\ run' = [Idle EXCEPT !.budget = MaxFrames, !.then = "deferred",
                         !.at = IF rx.defChunks = 0 THEN "swap" ELSE IF Open THEN "dispatch" ELSE "deferred"]
  /\ UNCHANGED <<mode, rx, reader, parse, life, net, item, handled, faults>>

HasUndispatchedFrames == mode = "sync" /\ Open /\ ~life.final /\ reader.ready # <<>>

\* ReleaseDeferredReceiveBatchOnRunner
ReleaseDeferred ==
  [rx EXCEPT !.bytes = @ - rx.defBytes, !.chunks = @ - rx.defChunks, !.defBytes = 0, !.defChunks = 0]

\* The job goes to the end of the line again, or the session ends.
Repost ==
  /\ run' = Idle
  /\ \/ jobs' = Append(jobs, "consume") /\ UNCHANGED <<rx, life, faults>>
     \/ Fault /\ rx' = ReleaseDeferred /\ life' = Closing /\ UNCHANGED jobs

Deferred ==
  /\ run.at = "deferred"
  /\ \/ HasUndispatchedFrames /\ Repost
     \/ /\ ~HasUndispatchedFrames
        /\ rx' = ReleaseDeferred /\ run' = [run EXCEPT !.at = "swap"] /\ UNCHANGED <<jobs, life, faults>>
  /\ UNCHANGED <<mode, reader, parse, net, item, handled>>

\* The batch is taken in one section; an empty one is noticed in the next.
Swap ==
  /\ run.at = "swap"
  /\ rx' = [rx EXCEPT !.pending = <<>>]
  /\ run' = [run EXCEPT !.batch = rx.pending, !.size = SizeOf(rx.pending), !.count = Len(rx.pending),
                        !.at = IF rx.pending = <<>> THEN "empty" ELSE IF Open THEN "chunk" ELSE "refuse"]
  /\ UNCHANGED <<mode, reader, parse, life, net, jobs, item, handled, faults>>

Empty ==
  /\ run.at = "empty"
  /\ rx' = [rx EXCEPT !.job = FALSE] /\ run' = Idle
  /\ UNCHANGED <<mode, reader, parse, life, net, jobs, item, handled, faults>>

\* CompleteReceiveBatchOnRunner
Completed == [rx EXCEPT !.bytes = @ - run.size, !.chunks = @ - run.count]

\* The session was closing when the batch was taken.
Refuse ==
  /\ run.at = "refuse"
  /\ rx' = [Completed EXCEPT !.pending = <<>>, !.job = FALSE,
               !.bytes = @ - SizeOf(rx.pending), !.chunks = @ - Len(rx.pending)]
  /\ run' = Idle
  /\ UNCHANGED <<mode, reader, parse, life, net, jobs, item, handled, faults>>

\* ConsumeBytesOnRunner: Append under the parser's mutex.  With workers every
\* frame is admitted to the parse ledger before it is stored; a refusal
\* throws away what the reader holds and ends the session.
ConsumeBytes ==
  LET chunk == Head(run.batch)
      new == [n \in 1..chunk.frames |-> reader.completed + n]
      room == mode = "sync" \/ parse.tasks + chunk.frames <= MaxTasks
  IN
  /\ run.at = "chunk" /\ run.batch # <<>>
  /\ IF ~Open \/ life.final
     THEN run' = [run EXCEPT !.batch = Tail(@)] /\ UNCHANGED <<reader, parse, life, faults>>
     ELSE \/ /\ room
             /\ reader' = [ready |-> reader.ready \o new, completed |-> reader.completed + chunk.frames]
             /\ IF mode = "sync" THEN UNCHANGED parse
                ELSE parse' = [parse EXCEPT !.unscheduled = @ + chunk.frames, !.tasks = @ + chunk.frames]
             /\ run' = [run EXCEPT !.batch = Tail(@), !.then = "chunk",
                           !.at = IF mode = "sync" THEN "dispatch" ELSE "startNext"]
             /\ UNCHANGED <<life, faults>>
          \/ /\ IF room THEN Fault ELSE UNCHANGED faults
             /\ life' = Closing /\ run' = [run EXCEPT !.batch = Tail(@)]
             /\ IF mode = "sync" THEN UNCHANGED <<reader, parse>> ELSE DiscardParse
  /\ UNCHANGED <<mode, rx, net, jobs, item, handled>>

\* DispatchCompletedFramesOnRunner: one frame, while the budget lasts.
Dispatch ==
  /\ run.at = "dispatch"
  /\ IF run.budget = 0 \/ reader.ready = <<>>
     THEN run' = [run EXCEPT !.at = run.then] /\ UNCHANGED <<reader, item, life, faults>>
     ELSE /\ reader' = [reader EXCEPT !.ready = Tail(@)]
          /\ \/ /\ Open /\ ~life.final
                /\ run' = [run EXCEPT !.at = "handler", !.budget = @ - 1]
                /\ item' = [at |-> "handled", frame |-> Head(reader.ready)] /\ UNCHANGED <<life, faults>>
             \/ /\ ~Open \/ life.final
                /\ run' = [run EXCEPT !.at = run.then, !.budget = @ - 1] /\ UNCHANGED <<item, life, faults>>
             \/ /\ Fault /\ life' = Closing                          \* the body was no message
                /\ run' = [run EXCEPT !.at = run.then, !.budget = @ - 1] /\ UNCHANGED item
  /\ UNCHANGED <<mode, rx, parse, net, jobs, handled>>

\* The handler may disconnect its own session.
Handler ==
  /\ run.at = "handler"
  /\ handled' = handled + 1 /\ item' = NoItem
  /\ life' \in {life, Closing}
  /\ run' = [run EXCEPT !.at = IF life'.state = "open" THEN "dispatch" ELSE run.then]
  /\ UNCHANGED <<mode, rx, reader, parse, net, jobs, faults>>

\* The batch's charge is kept while frames of it wait for the next job.
BatchEnds ==
  /\ run.at = "chunk" /\ run.batch = <<>>
  /\ rx' = IF HasUndispatchedFrames
           THEN [rx EXCEPT !.defBytes = run.size, !.defChunks = run.count] ELSE Completed
  /\ run' = [run EXCEPT !.at = "after", !.size = 0, !.count = 0]
  /\ UNCHANGED <<mode, reader, parse, life, net, jobs, item, handled, faults>>

\* One section decides: discard, come again, or let the next chunk queue a job.
AfterBatch ==
  /\ run.at = "after"
  /\ \/ /\ ~Open /\ run' = [run EXCEPT !.at = "discard"] /\ UNCHANGED <<rx, jobs, life, faults>>
     \/ /\ Open /\ (rx.pending # <<>> \/ rx.defChunks # 0)
        /\ Repost
     \/ /\ Open /\ rx.pending = <<>> /\ rx.defChunks = 0
        /\ rx' = [rx EXCEPT !.job = FALSE] /\ run' = Idle /\ UNCHANGED <<jobs, life, faults>>
  /\ UNCHANGED <<mode, reader, parse, net, item, handled>>

Discard ==
  /\ run.at = "discard"
  /\ rx' = [ReleaseDeferred EXCEPT !.pending = <<>>, !.job = FALSE,
               !.bytes = @ - SizeOf(rx.pending), !.chunks = @ - Len(rx.pending)]
  /\ run' = Idle
  /\ UNCHANGED <<mode, reader, parse, life, net, jobs, item, handled, faults>>

-----------------------------------------------------------------------------
(* The parse workers.                                                      *)

\* StartNextParseOnRunner: one body of a session at a time.  A pool that
\* refuses it ends the session.
MutantStartNext(back) ==
  /\ IF ~Open \/ life.final \/ reader.ready = <<>>
     THEN UNCHANGED <<reader, parse, item, life, faults>>
     ELSE /\ reader' = [reader EXCEPT !.ready = Tail(@)]
          /\ item' = [at |-> "pool", frame |-> Head(reader.ready)]
          /\ parse' = [parse EXCEPT !.unscheduled = @ - 1, !.inFlight = TRUE]
          /\ UNCHANGED <<life, faults>>
  /\ run' = back

StartNextParse(back) ==
  /\ IF ~Open \/ life.final \/ parse.inFlight \/ reader.ready = <<>>
     THEN UNCHANGED <<reader, parse, item, life, faults>>
     ELSE /\ reader' = [reader EXCEPT !.ready = Tail(@)]
          /\ \/ /\ item' = [at |-> "pool", frame |-> Head(reader.ready)]
                /\ parse' = [parse EXCEPT !.unscheduled = @ - 1, !.inFlight = TRUE]
                /\ UNCHANGED <<life, faults>>
             \/ /\ Fault /\ life' = Closing /\ UNCHANGED item
                /\ parse' = [parse EXCEPT !.unscheduled = @ - 1, !.tasks = @ - 1]
  /\ run' = back

StartAfterAppend ==
  /\ run.at = "startNext" /\ StartNextParse([run EXCEPT !.at = "chunk"])
  /\ UNCHANGED <<mode, rx, net, jobs, handled>>

\* The worker posts the completion; refused, it drops the body and disconnects.
\* A pool that is stopping drops it too.
Parsed ==
  /\ item.at = "pool"
  /\ \/ /\ jobs' = Append(jobs, "parsed") /\ item' = [item EXCEPT !.at = "posted"]
        /\ UNCHANGED <<parse, life, faults>>
     \/ /\ Fault /\ item' = NoItem /\ parse' = [parse EXCEPT !.tasks = @ - 1]
        /\ life' = Closing /\ UNCHANGED jobs
  /\ UNCHANGED <<mode, rx, reader, net, run, handled>>

\* CompleteParsedMessageOnRunner; the item is released when it returns.
CompleteParsed ==
  /\ Begin("parsed")
  /\ IF Open /\ ~life.final
     THEN /\ parse' = [parse EXCEPT !.inFlight = FALSE]
          /\ \/ run' = [Idle EXCEPT !.at = "parsedHandler"] /\ UNCHANGED <<item, life, faults>>
             \/ Fault /\ life' = Closing                           \* the body was no message
                /\ run' = [Idle EXCEPT !.at = "parsedEnds"] /\ UNCHANGED item
     ELSE /\ parse' = [parse EXCEPT !.inFlight = FALSE, !.tasks = @ - 1]
          /\ item' = NoItem /\ run' = Idle /\ UNCHANGED <<life, faults>>
  /\ UNCHANGED <<mode, rx, reader, net, handled>>

ParsedHandler ==
  /\ run.at = "parsedHandler"
  /\ handled' = handled + 1
  /\ life' \in {life, Closing}
  /\ run' = [run EXCEPT !.at = IF life'.state = "open" THEN "parsedNext" ELSE "parsedEnds"]
  /\ UNCHANGED <<mode, rx, reader, parse, net, jobs, item, faults>>

\* The next body is charged beside the old one, which then goes.
ParsedNext ==
  /\ run.at = "parsedNext"
  /\ IF ~Open \/ life.final \/ parse.inFlight \/ reader.ready = <<>>
     THEN /\ parse' = [parse EXCEPT !.tasks = @ - 1] /\ item' = NoItem
          /\ UNCHANGED <<reader, life, faults>>
     ELSE /\ reader' = [reader EXCEPT !.ready = Tail(@)]
          /\ \/ /\ item' = [at |-> "pool", frame |-> Head(reader.ready)]
                /\ parse' = [parse EXCEPT !.unscheduled = @ - 1, !.inFlight = TRUE, !.tasks = @ - 1]
                /\ UNCHANGED <<life, faults>>
             \/ /\ Fault /\ life' = Closing /\ item' = NoItem
                /\ parse' = [parse EXCEPT !.unscheduled = @ - 1, !.tasks = @ - 2]
  /\ run' = Idle
  /\ UNCHANGED <<mode, rx, net, jobs, handled>>

ParsedEnds ==
  /\ run.at = "parsedEnds"
  /\ parse' = [parse EXCEPT !.tasks = @ - 1] /\ item' = NoItem /\ run' = Idle
  /\ UNCHANGED <<mode, rx, reader, life, net, jobs, handled, faults>>

-----------------------------------------------------------------------------

Next ==
  \/ OnReceived \/ KeepReceived \/ PostJob \/ Disconnect \/ OnDisconnected \/ FinalizeAfterRunnerFailure
  \/ FinalizeOnRunner \/ Consume \/ Deferred \/ Swap \/ Empty \/ Refuse \/ ConsumeBytes \/ Dispatch
  \/ Handler \/ BatchEnds \/ AfterBatch \/ Discard
  \/ StartAfterAppend \/ Parsed \/ CompleteParsed \/ ParsedHandler \/ ParsedNext \/ ParsedEnds

Spec == Init /\ [][Next]_vars

-----------------------------------------------------------------------------

TypeOK ==
  /\ life.state \in {"open", "closing", "closed"}
  /\ rx.bytes \in 0..MaxReceive /\ rx.chunks \in 0..MaxChunks /\ rx.bytes <= HostReceive
  /\ parse.tasks \in 0..MaxTasks /\ faults \in 0..Faults /\ handled \in Nat

\* The receive ledger is what is pending, what the job holds and what it
\* deferred, to the byte; the parse ledger is the stored frames and the one
\* body a worker or its completion holds.
LedgersAreExact ==
  /\ rx.bytes = SizeOf(rx.pending) + run.size + rx.defBytes
  /\ rx.chunks = Len(rx.pending) + run.count + rx.defChunks
  /\ mode = "workers" =>
       /\ parse.unscheduled = Len(reader.ready)
       /\ parse.tasks = parse.unscheduled + IF item = NoItem THEN 0 ELSE 1
  /\ mode = "sync" => parse.tasks = 0

\* A session whose end was told and whose jobs are over holds nothing.
EndReturnsEverything ==
  life.told /\ jobs = <<>> /\ run = Idle /\ item = NoItem =>
    rx.bytes = 0 /\ rx.chunks = 0 /\ parse.tasks = 0 /\ reader.ready = <<>>

\* The handlers see the frames in the order of the stream, none twice and
\* none left out, one at a time, and none after the end of the session was
\* told, although workers finish on their own threads.
MessagesAreInOrder ==
  /\ run.at \in {"handler", "parsedHandler"} => item.frame = handled + 1 /\ ~life.told
  /\ item.at = "pool" /\ run.at # "parsedNext" /\ Open => item.frame = handled + 1

\* Bytes that OnReceived kept have a job to take them, queued, running or
\* about to be posted, as long as the session is open.
NoBatchForgotten ==
  Open /\ rx.pending # <<>> =>
    net.at = "post" \/ "consume" \in Range(jobs) \/ run.at \notin {"idle", "parsedHandler", "parsedNext", "parsedEnds"}

\* With parse workers no batch is forgotten, and neither is a stored frame: a
\* body is being parsed or completed, or the job that stored it goes on.
NothingForgottenWithWorkers ==
  mode = "workers" =>
    /\ NoBatchForgotten
    /\ Open /\ reader.ready # <<>> =>
         item # NoItem \/ run.at \in {"startNext", "parsedHandler", "parsedNext"}

\* All of this together.
ReceiveIsExact ==
  TypeOK /\ LedgersAreExact /\ EndReturnsEverything /\ MessagesAreInOrder /\ NothingForgottenWithWorkers

=============================================================================
