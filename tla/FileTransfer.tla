---------------------------- MODULE FileTransfer ----------------------------
(***************************************************************************)
(* Web::SendFile: a file as the response of one request.  The plan (which  *)
(* status, which bytes), the task that an executor runs or discards, its   *)
(* writes with their waits for capacity, and who ends the response when    *)
(* the task does not.                                                      *)
(***************************************************************************)
EXTENDS Integers, FiniteSets

CONSTANTS
  Sizes,      \* of the file
  Requests,   \* method; conditions, each absent, met or failed; the range asked for
  Chunk,      \* bytes written at once
  Stalls,     \* times the connection's queue fills
  None

VARIABLES
  file,      \* its size now, and when the transfer opened it
  request,
  plan,      \* status, offset, length
  refs,      \* who keeps the FileTaskLifetime: the caller, the job
  life,      \* admitted, completed; the task cancelled by itself (TaskHandle, executor)
  task,      \* where the task is, what it is doing again after a wait
  resp,      \* the response: phase, bytes written
  wait,      \* the subscription for capacity, and whether it set ready
  full,      \* the connection takes no more
  stop,      \* the response's cancellation, which the task's follows
  stalls

vars == <<file, request, plan, refs, life, task, resp, wait, full, stop, stalls>>

NoPlan == [status |-> 0, offset |-> 0, length |-> 0]

Init ==
  /\ request \in Requests /\ \E n \in Sizes : file = [size |-> n, opened |-> n]
  /\ plan = NoPlan /\ refs = {"caller"} /\ life = [admitted |-> FALSE, completed |-> FALSE, cancelled |-> FALSE]
  /\ task = [at |-> "new", again |-> None] /\ resp = [phase |-> "new", bytes |-> 0]
  /\ wait = [sub |-> None, ready |-> FALSE] /\ full = FALSE /\ stop = FALSE /\ stalls = 0

-----------------------------------------------------------------------------
\* PlanFileResponse.

Retrieval(r) == r.method \in {"GET", "HEAD"}

\* The status the conditions give: If-Match before If-Unmodified-Since,
\* If-None-Match before If-Modified-Since.
Conditions(r) ==
  CASE r.match = "failed" -> 412
    [] r.match = None /\ r.unmodified = "failed" -> 412
    [] r.noneMatch = "failed" -> IF Retrieval(r) THEN 304 ELSE 412
    [] r.noneMatch = None /\ r.modified = "failed" /\ Retrieval(r) -> 304
    [] OTHER -> 200

Full(size) == [status |-> 200, offset |-> 0, length |-> size]
Unsatisfied == [status |-> 416, offset |-> 0, length |-> 0]
Least(m, n) == IF m < n THEN m ELSE n

\* A suffix, or a first and an optional last byte.
MutantRange(range, size) ==
  IF range.first = None
  THEN IF range.last = 0 \/ size = 0 THEN Unsatisfied
       ELSE [status |-> 206, offset |-> size - Least(size, range.last), length |-> Least(size, range.last)]
  ELSE IF range.last # None /\ range.first > range.last THEN Full(size)
  ELSE IF range.first >= size THEN Unsatisfied
  ELSE [status |-> 206, offset |-> range.first,
        length |-> (IF range.last = None THEN size - 1 ELSE range.last) - range.first + 1]
Range(range, size) ==
  IF range.first = None
  THEN IF range.last = 0 \/ size = 0 THEN Unsatisfied
       ELSE [status |-> 206, offset |-> size - Least(size, range.last), length |-> Least(size, range.last)]
  ELSE IF range.last # None /\ range.first > range.last THEN Full(size)
  ELSE IF range.first >= size THEN Unsatisfied
  ELSE [status |-> 206, offset |-> range.first,
        length |-> (IF range.last = None THEN size - 1 ELSE Least(range.last, size - 1)) - range.first + 1]

PlanFileResponse(r, size) ==
  IF Conditions(r) # 200 THEN [status |-> Conditions(r), offset |-> 0, length |-> 0]
  ELSE IF r.method = "GET" /\ r.range # None /\ r.ifRange # "failed" THEN Range(r.range, size)
  ELSE Full(size)

NoContent == request.method = "HEAD" \/ plan.status = 304

-----------------------------------------------------------------------------
\* The lifetime: the last reference aborts the response of an admitted task
\* that did not complete.

Cancelled == stop \/ life.cancelled
Ends == resp.phase \in {"finished", "aborted"}
AbortedResponse == IF Ends THEN resp ELSE [resp EXCEPT !.phase = "aborted"]

MutantReleases(who, l) == refs' = refs \ {who} /\ UNCHANGED <<resp, stop>>
Releases(who, l) ==
  /\ refs' = refs \ {who}
  /\ LET aborts == refs = {who} /\ l.admitted /\ ~l.completed IN
     resp' = (IF aborts THEN AbortedResponse ELSE resp) /\ stop' = (stop \/ (aborts /\ ~Ends))

\* SendFile: the executor takes the job, or refuses it and the response stays.
Submit ==
  /\ task.at = "new" /\ refs = {"caller"}
  /\ \/ task' = [task EXCEPT !.at = "queued"] /\ refs' = refs \cup {"job"}
     \/ task' = [task EXCEPT !.at = "refused"] /\ refs' = {}
  /\ UNCHANGED <<file, request, plan, life, resp, wait, full, stop, stalls>>

\* Submit returned: the job may have run, or been discarded, by now.
Admits ==
  /\ "caller" \in refs /\ task.at # "new" /\ ~life.admitted /\ life' = [life EXCEPT !.admitted = TRUE]
  /\ Releases("caller", [life EXCEPT !.admitted = TRUE])
  /\ UNCHANGED <<file, request, plan, task, wait, full, stalls>>

Discards ==
  /\ task.at = "queued" /\ Cancelled /\ task' = [task EXCEPT !.at = "gone"] /\ Releases("job", life)
  /\ UNCHANGED <<file, request, plan, life, wait, full, stalls>>

\* TransferFile ends with an abort of what is not finished.
Aborts ==
  /\ task' = [at |-> "returns", again |-> None] /\ resp' = AbortedResponse /\ stop' = (stop \/ ~Ends)
  /\ UNCHANGED <<file, request, plan, refs, life, wait, full, stalls>>

Returns ==
  /\ task.at = "returns" /\ task' = [task EXCEPT !.at = "gone"] /\ life' = [life EXCEPT !.completed = TRUE]
  /\ Releases("job", [life EXCEPT !.completed = TRUE])
  /\ UNCHANGED <<file, request, plan, wait, full, stalls>>

\* The file is looked at: absent (FileError answers, or aborts), or planned.
Opens ==
  /\ task.at = "queued"
  /\ \/ Cancelled /\ Aborts
     \/ ~Cancelled /\ full /\ Aborts
     \/ /\ ~Cancelled /\ ~full /\ ~Ends /\ task' = [at |-> "returns", again |-> None]
        /\ resp' = [resp EXCEPT !.phase = "finished"]
        /\ UNCHANGED <<file, request, plan, refs, life, wait, full, stop, stalls>>
     \/ /\ ~Cancelled /\ file' = [file EXCEPT !.opened = file.size] /\ plan' = PlanFileResponse(request, file.size)
        /\ task' = [at |-> "start", again |-> None]
        /\ UNCHANGED <<request, refs, life, resp, wait, full, stop, stalls>>

\* What follows a write that was taken.
After == IF plan.length = resp'.bytes \/ NoContent THEN "finish" ELSE "read"

\* RetryWrite: cancelled; taken; refused by a response that ended; or full, and then it waits.
Writes(next) ==
  \/ (Cancelled \/ Ends) /\ Aborts
  \/ /\ ~Cancelled /\ ~Ends /\ ~full /\ next
     /\ UNCHANGED <<file, request, plan, refs, life, wait, full, stop, stalls>>
  \/ /\ ~Cancelled /\ ~Ends /\ full /\ task' = [at |-> "wait", again |-> task.at]
     /\ UNCHANGED <<file, request, plan, refs, life, resp, wait, full, stop, stalls>>

Starts ==
  task.at = "start" /\ Writes(resp' = [resp EXCEPT !.phase = "streaming"] /\ task' = [at |-> After, again |-> None])

\* A file that became shorter cannot be sent any more.
Reads ==
  /\ task.at = "read"
  /\ \/ (Cancelled \/ file.size < plan.offset + plan.length) /\ Aborts
     \/ ~Cancelled /\ file.size >= plan.offset + plan.length /\ task' = [task EXCEPT !.at = "write"]
        /\ UNCHANGED <<file, request, plan, refs, life, resp, wait, full, stop, stalls>>

WritesChunk ==
  /\ task.at = "write"
  /\ Writes(/\ resp' = [resp EXCEPT !.bytes = @ + Least(Chunk, plan.length - @)]
            /\ task' = [at |-> After, again |-> None])

Finishes ==
  task.at = "finish" /\ Writes(resp' = [resp EXCEPT !.phase = "finished"] /\ task' = [at |-> "returns", again |-> None])

-----------------------------------------------------------------------------
\* WaitForCapacity: a callback that refers to the waiter's stack.

Subscribes ==
  /\ task.at = "wait"
  /\ \/ Ends /\ Aborts
     \/ /\ ~Ends /\ wait' = [sub |-> "pending", ready |-> FALSE] /\ task' = [task EXCEPT !.at = "waiting"]
        /\ UNCHANGED <<file, request, plan, refs, life, resp, full, stop, stalls>>

\* The capacity came, or the response ended: the callback is under way, then sets ready.
Fires ==
  /\ \/ wait.sub = "pending" /\ (~full \/ Ends) /\ wait' = [wait EXCEPT !.sub = "firing"]
     \/ wait.sub = "firing" /\ wait' = [sub |-> "fired", ready |-> TRUE]
  /\ UNCHANGED <<file, request, plan, refs, life, task, resp, full, stop, stalls>>

\* Reset joins a callback under way before the stack goes.
MutantMayReset == TRUE
MayReset == wait.sub # "firing"

Wakes ==
  /\ task.at = "waiting" /\ (wait.ready \/ Cancelled) /\ MayReset
  /\ wait' = [wait EXCEPT !.ready = FALSE, !.sub = IF @ = "firing" THEN @ ELSE None]
  /\ task' = IF Cancelled \/ Ends THEN [at |-> "cancelled", again |-> None] ELSE [at |-> task.again, again |-> None]
  /\ UNCHANGED <<file, request, plan, refs, life, resp, full, stop, stalls>>

WaitFailed == task.at = "cancelled" /\ Aborts

-----------------------------------------------------------------------------
\* The rest of the world: the queue, the connection, the file.

Fills ==
  /\ \/ ~full /\ stalls < Stalls /\ full' = TRUE /\ stalls' = stalls + 1
     \/ full /\ full' = FALSE /\ UNCHANGED stalls
  /\ UNCHANGED <<file, request, plan, refs, life, task, resp, wait, stop>>

\* The task's own cancellation leaves the response to the task.
Cancels ==
  /\ ~life.cancelled /\ life' = [life EXCEPT !.cancelled = TRUE]
  /\ UNCHANGED <<file, request, plan, refs, task, resp, wait, full, stop, stalls>>

Disconnects ==
  /\ ~Ends /\ resp' = AbortedResponse /\ stop' = TRUE
  /\ UNCHANGED <<file, request, plan, refs, life, task, wait, full, stalls>>

Shrinks ==
  /\ file.size > 0 /\ file' = [file EXCEPT !.size = 0]
  /\ UNCHANGED <<request, plan, refs, life, task, resp, wait, full, stop, stalls>>

Next ==
  \/ Submit \/ Admits \/ Discards \/ Opens \/ Starts \/ Reads \/ WritesChunk \/ Finishes \/ Returns
  \/ Subscribes \/ Fires \/ Wakes \/ WaitFailed \/ Fills \/ Cancels \/ Disconnects \/ Shrinks

Spec == Init /\ [][Next]_vars

-----------------------------------------------------------------------------

TypeOK ==
  /\ refs \subseteq {"caller", "job"} /\ wait.sub \in {None, "pending", "firing", "fired"}
  /\ resp.phase \in {"new", "streaming", "finished", "aborted"} /\ resp.bytes \in 0..plan.length

\* The bytes a valid range asks of a file.
Asked(range, size) ==
  {i \in 0..(size - 1) : IF range.first = None THEN i >= size - range.last
                         ELSE i >= range.first /\ (range.last = None \/ i <= range.last)}

\* A partial response is exactly the bytes asked for, 416 says there are none,
\* and whatever is not 200 or 206 has no content.
PlansAreExact ==
  plan.status # 0 =>
    /\ plan.offset + plan.length <= file.opened
    /\ plan.status = 206 => /\ plan.length > 0
                            /\ Asked(request.range, file.opened) = plan.offset..(plan.offset + plan.length - 1)
    /\ plan.status = 416 => Asked(request.range, file.opened) = {}
    /\ plan.status \notin {200, 206} => plan.length = 0

\* A response that finished after its head carried all it announced; one
\* whose task is gone has ended, even when the task never ran; a refused
\* transfer never touched it.
ResponsesEnd ==
  /\ resp.phase = "finished" /\ plan.status # 0 => NoContent \/ resp.bytes = plan.length
  /\ refs = {} /\ task.at = "gone" => Ends
  /\ task.at = "refused" => resp.phase \in {"new", "aborted"} /\ ~life.admitted

\* A callback never outlives the stack it writes to, and a wait that nothing
\* will end does not exist.
WaitsAreSafe ==
  /\ wait.sub = "firing" => task.at = "waiting"
  /\ task.at = "waiting" => wait.sub # None

\* A file transfer, all in all.
TransferIsExact == TypeOK /\ PlansAreExact /\ ResponsesEnd /\ WaitsAreSafe

=============================================================================
