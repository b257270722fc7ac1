--------------------------- MODULE BoundedChannel ----------------------------
(***************************************************************************)
(* Runtime::BoundedChannel: a queue bounded in messages and in bytes, with *)
(* blocking receivers and one readiness subscription per direction.        *)
(*                                                                         *)
(* One action is one critical section of State::mutex with the notify_all  *)
(* that follows it.  The subscriptions a section takes out are completed   *)
(* after the unlock, by Fire: firing holds those the callers still carry.  *)
(* A subscription keeps the first completion it is given                   *)
(* (CompletionSubscription.tla).                                           *)
(***************************************************************************)
EXTENDS Integers, Sequences, FiniteSets, Functions

CONSTANTS
  Messages,      \* one element per TrySend
  Bytes,         \* the declared bytes of each message
  Receivers,     \* one element per TryReceive or Receive
  Blocking,      \* those that call Receive
  Timed,         \* those of Blocking with a deadline
  Waits,         \* one element per WaitForReadReady or WaitForWriteReady
  Writing,       \* those that wait for room
  WaitBytes,     \* the bytes a writing wait asks for
  MaxMessages, MaxRetainedBytes,
  None

ASSUME BoundedChannelAssumption ==
  /\ MaxMessages \in Nat \ {0} /\ MaxRetainedBytes \in Nat \ {0}
  /\ Bytes \in [Messages -> Nat] /\ WaitBytes \in [Waits -> 0 .. MaxRetainedBytes]
  /\ Blocking \subseteq Receivers /\ Timed \subseteq Blocking /\ Writing \subseteq Waits
  /\ None \notin Waits \cup Messages

VARIABLES
  alive,               \* some handle is left
  queue, bytes, closed,
  read, write,         \* State::read and State::write: a subscription or None
  writeBytes,
  msg,                 \* what TrySend returned: new, Ok, WouldBlock, TooLarge or Closed
  receiver,            \* new, waiting, awake or what the call returned
  stopped,             \* the receivers whose stop token was stopped
  wait,                \* new, refused, pending or the code a subscription was given
  firing,              \* <<subscription, code>> pairs taken out and not yet completed
  received             \* the values handed out, in order

callVars == <<msg, receiver, stopped>>
vars == <<alive, queue, bytes, closed, read, write, writeBytes, callVars, wait, firing, received>>

Init ==
  /\ alive = TRUE /\ queue = <<>> /\ bytes = 0 /\ closed = FALSE
  /\ read = None /\ write = None /\ writeBytes = 0
  /\ msg = [m \in Messages |-> "new"] /\ receiver = [r \in Receivers |-> "new"]
  /\ stopped = {} /\ wait = [s \in Waits |-> "new"] /\ firing = {} /\ received = <<>>

-----------------------------------------------------------------------------
\* State::CanSend for a queue q holding b bytes.
CanSend(q, b, amount) == Len(q) < MaxMessages /\ amount <= MaxRetainedBytes - b

Notified == [r \in Receivers |-> IF receiver[r] = "waiting" THEN "awake" ELSE receiver[r]]

\* Complete(code) on a source that may be empty, once the lock is released.
Carry(s, code) == IF s = None THEN {} ELSE {<<s, code>>}

IsPending(s) == s # None /\ wait[s] = "pending"

-----------------------------------------------------------------------------
(* TrySend, Receive and Close.                                             *)

\* A slip in the order of the values.
MutantSend(m) ==
  /\ queue' = <<m>> \o queue /\ bytes' = bytes + Bytes[m]
  /\ firing' = firing \cup Carry(read, "Ok") /\ read' = None
  /\ receiver' = Notified

Send(m) ==
  /\ queue' = Append(queue, m) /\ bytes' = bytes + Bytes[m]
  /\ firing' = firing \cup Carry(read, "Ok") /\ read' = None
  /\ receiver' = Notified

SendCode(m) ==
  IF Bytes[m] > MaxRetainedBytes THEN "TooLarge"
  ELSE IF closed THEN "Closed"
  ELSE IF CanSend(queue, bytes, Bytes[m]) THEN "Ok" ELSE "WouldBlock"

TrySend(m) ==
  /\ alive /\ msg[m] = "new" /\ msg' = [msg EXCEPT ![m] = SendCode(m)]
  /\ IF SendCode(m) = "Ok" THEN Send(m) ELSE UNCHANGED <<queue, bytes, firing, read, receiver>>
  /\ UNCHANGED <<alive, closed, write, writeBytes, stopped, wait, received>>

Available == closed \/ queue # <<>>

\* Only the write subscription that now has room is taken out.
MutantFreesRoom(q, b) == CanSend(queue, bytes, writeBytes)

FreesRoom(q, b) == CanSend(q, b, writeBytes)

Answer(r, code) == receiver' = [receiver EXCEPT ![r] = code]

\* A value leaves the queue and everyone blocked looks again.
Pop(r) ==
  LET m == Head(queue)  q == Tail(queue)  b == bytes - Bytes[m] IN
    /\ queue' = q /\ bytes' = b /\ received' = Append(received, m)
    /\ receiver' = [Notified EXCEPT ![r] = "Ok"]
    /\ IF FreesRoom(q, b)
       THEN firing' = firing \cup Carry(write, "Ok") /\ write' = None
       ELSE UNCHANGED <<firing, write>>

EmptyCode(r) ==
  IF r \in stopped THEN "Cancelled" ELSE IF closed THEN "Closed" ELSE "WouldBlock"

MutantConclude(r) ==
  \/ queue # <<>> /\ Pop(r)
  \/ /\ queue = <<>>
     /\ Answer(r, EmptyCode(r))
     /\ UNCHANGED <<queue, bytes, received, firing, write>>

\* The rest of ReceiveImpl once the wait is over: a stopped call takes nothing.
Conclude(r) ==
  \/ r \notin stopped /\ queue # <<>> /\ Pop(r)
  \/ /\ r \in stopped \/ queue = <<>>
     /\ Answer(r, EmptyCode(r))
     /\ UNCHANGED <<queue, bytes, received, firing, write>>

Receive(r) ==
  /\ alive /\ receiver[r] \in {"new", "awake"}
  /\ \/ /\ r \in Blocking /\ r \notin stopped /\ ~Available
        /\ Answer(r, "waiting") /\ UNCHANGED <<queue, bytes, received, firing, write>>
     \/ (r \notin Blocking \/ r \in stopped \/ Available) /\ Conclude(r)
  /\ UNCHANGED <<alive, closed, read, writeBytes, msg, stopped, wait>>

\* wait_until gives up at the deadline if there is still nothing to take.
Timeout(r) ==
  /\ receiver[r] \in {"waiting", "awake"} /\ r \in Timed /\ ~Available
  /\ Answer(r, IF r \in stopped THEN "Cancelled" ELSE "Timeout")
  /\ UNCHANGED <<alive, queue, bytes, closed, read, write, writeBytes, msg, stopped, wait, firing,
                 received>>

\* The caller's token is stopped; condition_variable_any wakes its wait.
StopRequested(r) ==
  /\ r \in Blocking /\ r \notin stopped /\ receiver[r] \in {"new", "waiting", "awake"}
  /\ stopped' = stopped \cup {r}
  /\ receiver' = [receiver EXCEPT ![r] = IF @ = "waiting" THEN "awake" ELSE @]
  /\ UNCHANGED <<alive, queue, bytes, closed, read, write, writeBytes, msg, wait, firing, received>>

Close ==
  /\ alive /\ ~closed /\ closed' = TRUE
  /\ firing' = firing \cup Carry(read, IF queue = <<>> THEN "Closed" ELSE "Ok")
                      \cup Carry(write, "Closed")
  /\ read' = None /\ write' = None /\ receiver' = Notified
  /\ UNCHANGED <<alive, queue, bytes, writeBytes, msg, stopped, wait, received>>

-----------------------------------------------------------------------------
(* WaitForReadReady and WaitForWriteReady.                                 *)

\* A wait for more than the channel holds is refused before it looks (TooLarge).
SubscribeCode(s) ==
  IF s \in Writing
  THEN IF closed THEN "Closed"
       ELSE IF CanSend(queue, bytes, WaitBytes[s]) THEN "Ok" ELSE "WouldBlock"
  ELSE IF queue # <<>> THEN "Ok"
       ELSE IF closed THEN "Closed" ELSE "WouldBlock"

Direction(s) == IF s \in Writing THEN write ELSE read

MutantOccupied(s) == FALSE

\* A subscription its owner cancelled no longer holds the place.
Occupied(s) == IsPending(Direction(s))

Subscribe(s) ==
  /\ alive /\ wait[s] = "new"
  /\ \/ /\ Occupied(s)
        /\ wait' = [wait EXCEPT ![s] = "refused"]
        /\ UNCHANGED <<read, write, writeBytes, firing>>
     \/ /\ ~Occupied(s)
        /\ wait' = [wait EXCEPT ![s] = "pending"]
        /\ writeBytes' = IF s \in Writing THEN WaitBytes[s] ELSE writeBytes
        /\ IF SubscribeCode(s) = "WouldBlock"
           THEN /\ write' = IF s \in Writing THEN s ELSE write
                /\ read'  = IF s \in Writing THEN read ELSE s
                /\ UNCHANGED firing
           ELSE firing' = firing \cup {<<s, SubscribeCode(s)>>} /\ UNCHANGED <<read, write>>
  /\ UNCHANGED <<alive, queue, bytes, closed, callVars, received>>

\* The owner, or the token bound to the subscription, cancels it.
CancelWait(s) ==
  /\ wait[s] = "pending" /\ wait' = [wait EXCEPT ![s] = "Cancelled"]
  /\ UNCHANGED <<alive, queue, bytes, closed, read, write, writeBytes, callVars, firing, received>>

\* Complete on a source carried out of a critical section.
Fire(f) ==
  /\ f \in firing /\ firing' = firing \ {f}
  /\ wait' = [wait EXCEPT ![f[1]] = IF @ = "pending" THEN f[2] ELSE @]
  /\ UNCHANGED <<alive, queue, bytes, closed, read, write, writeBytes, callVars, received>>

\* ~State: every call holds a handle, so none is under way.
Destroy ==
  /\ alive /\ firing = {} /\ \A r \in Receivers : receiver[r] \notin {"waiting", "awake"}
  /\ alive' = FALSE /\ firing' = Carry(read, "Closed") \cup Carry(write, "Closed")
  /\ read' = None /\ write' = None
  /\ UNCHANGED <<queue, bytes, closed, writeBytes, callVars, wait, received>>

-----------------------------------------------------------------------------
Next ==
  \/ \E m \in Messages : TrySend(m)
  \/ \E r \in Receivers : Receive(r) \/ Timeout(r) \/ StopRequested(r)
  \/ \E s \in Waits : Subscribe(s) \/ CancelWait(s)
  \/ \E f \in firing : Fire(f)
  \/ Close \/ Destroy

Spec == Init /\ [][Next]_vars

-----------------------------------------------------------------------------
(* Properties.                                                             *)

TypeOK ==
  /\ queue \in Seq(Messages) /\ bytes \in Nat /\ writeBytes \in 0 .. MaxRetainedBytes
  /\ read \in (Waits \ Writing) \cup {None} /\ write \in Writing \cup {None}
  /\ msg \in [Messages -> {"new", "Ok", "TooLarge", "Closed", "WouldBlock"}]
  /\ receiver \in [Receivers -> {"new", "waiting", "awake", "Ok", "Cancelled", "Timeout",
                                 "Closed", "WouldBlock"}]
  /\ wait \in [Waits -> {"new", "refused", "pending", "Ok", "Closed", "Cancelled"}]
  /\ firing \subseteq Waits \X {"Ok", "Closed"}

\* NobodyWaitsForNothing.  A subscription is left in the channel only while
\* what it waits for has not happened: a pending reader means an empty open
\* queue, a pending writer an open queue without room for the bytes it asked
\* for, whoever took the room or the message in between, and a receiver sleeps
\* only while there is nothing to take (TrySend, ReceiveImpl, Subscribe, Close).
NobodyWaitsForNothing ==
  /\ IsPending(read) => ~closed /\ queue = <<>>
  /\ IsPending(write) => ~closed /\ ~CanSend(queue, bytes, WaitBytes[write])
  /\ \A r \in Receivers : receiver[r] = "waiting" => ~Available

\* NothingLost.  The values handed out and those still queued are the accepted
\* ones, once each; a receive that was cancelled or timed out took none, and
\* the bytes are those of the queue, within the limits (ReceiveImpl's order of
\* tests).
NothingLost ==
  LET all == received \o queue IN
    /\ TypeOK
    /\ Range(all) = {m \in Messages : msg[m] = "Ok"} /\ Len(all) = Cardinality(Range(all))
    /\ Len(received) = Cardinality({r \in Receivers : receiver[r] = "Ok"})
    /\ \A r \in stopped : receiver[r] # "Ok"
    /\ bytes = SumFunctionOnSet(Bytes, Range(queue))
    /\ Len(queue) <= MaxMessages /\ bytes <= MaxRetainedBytes

\* NoWaitIsForgotten.  A pending subscription is in the channel or in the hands
\* of a caller that is about to complete it: none is overwritten by a later one
\* (Subscribe's AlreadyExists) or dropped by Close or by ~State.  After Close,
\* with the property above, every pending one is about to be answered.
NoWaitIsForgotten ==
  \A s \in Waits :
    wait[s] = "pending" => (alive /\ s \in {read, write}) \/ \E f \in firing : f[1] = s

\* ChannelIsExact.  The channel, all in all.
ChannelIsExact == NobodyWaitsForNothing /\ NothingLost /\ NoWaitIsForgotten

\* ChannelIsAFifo.  Seen from the values alone, TrySend, Receive and Close are
\* the operations of FifoQueue; everything else stutters.
Fifo == INSTANCE FifoQueue WITH items <- queue, held <- bytes, open <- ~closed, handed <- received
ChannelIsAFifo == Fifo!FifoSpec
=============================================================================
