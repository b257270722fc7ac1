-------------------------- MODULE WindowsConnection --------------------------
(***************************************************************************)
(* A TcpConnection over an I/O completion port: at most one WSARecv and    *)
(* one WSASend are in the kernel's hands, with buffers of the connection.  *)
(* Calls come from any thread, completions on the I/O threads.  A closed   *)
(* socket fails what is in flight; the completion still arrives.           *)
(*                                                                         *)
(* mMutex is held over one action.  A payload has one byte.                *)
(***************************************************************************)
EXTENDS Integers

CONSTANTS
  MaxSent,    \* payloads the application sends
  SendLimit,  \* queued payloads a connection may hold
  MaxPeer,    \* chunks the peer sends
  Toggles,    \* calls of PauseReceive and ResumeReceive
  Faults      \* requests Winsock refuses

VARIABLES
  conn,     \* the members of TcpConnection
  seen,     \* chunks the observer saw, and the end
  owed,     \* somebody is to call MaybeNotifyDisconnected
  sent,     \* payloads Winsock has taken
  peer,     \* chunks it sent
  budget    \* toggles and faults that happened

vars == <<conn, seen, owed, sent, peer, budget>>

Init ==
  /\ conn = [started |-> FALSE, closed |-> FALSE, lingering |-> FALSE, paused |-> FALSE, socket |-> TRUE,
             receiving |-> FALSE, callback |-> FALSE, sending |-> FALSE, afterSend |-> FALSE,
             queued |-> 0, accepted |-> 0, how |-> "none"]
  /\ seen = [chunks |-> 0, told |-> FALSE]
  /\ owed = FALSE /\ sent = 0 /\ peer = 0 /\ budget = [toggles |-> 0, faults |-> 0]

Pending(c) == c.receiving \/ c.sending

-----------------------------------------------------------------------------
(* What the sections are made of; c is the connection as a section has it. *)

\* DiscardQueuedSendsLocked only once WSASend gave the front back.
MarkClosedLocked(c, how) ==
  IF c.closed THEN c
  ELSE [c EXCEPT !.closed = TRUE, !.how = how, !.queued = IF c.sending THEN @ ELSE 0]

CloseSocketLocked(c) == [c EXCEPT !.socket = FALSE, !.lingering = FALSE]
Failed(c, how) == CloseSocketLocked(MarkClosedLocked(c, how))

\* StartReceiveLocked would submit a request.
MutantMayReceive(c) ==
  /\ c.socket /\ (~c.closed \/ c.lingering)
  /\ c.lingering \/ (c.started /\ ~c.paused)
  /\ ~c.receiving

MayReceive(c) ==
  /\ c.socket /\ (~c.closed \/ c.lingering)
  /\ c.lingering \/ (c.started /\ ~c.paused)
  /\ ~c.receiving /\ ~c.callback

\* The connection c, and what a refusal of Winsock would make of it.
Submit(c, may, submitted) ==
  IF ~may THEN conn' = c /\ UNCHANGED budget
  ELSE \/ conn' = submitted /\ UNCHANGED budget
       \/ /\ budget.faults < Faults /\ budget' = [budget EXCEPT !.faults = @ + 1]
          /\ conn' = Failed(c, "failed")

StartReceiveLocked(c) == Submit(c, MayReceive(c), [c EXCEPT !.receiving = TRUE])

\* StartSendLocked, where the queue is not empty and nothing is in flight.
StartSendLocked(c) == Submit(c, c.socket /\ ~c.closed, [c EXCEPT !.sending = TRUE])

\* FinishCloseAfterSendLocked and CloseSocketAfterSendLocked: FIN, then drain.
Drained(c) == c.afterSend /\ ~c.closed /\ ~c.sending /\ c.queued = 0
Lingering(c) == [MarkClosedLocked(c, "graceful") EXCEPT !.lingering = c.socket]

-----------------------------------------------------------------------------
(* The calls.                                                              *)

Start ==
  /\ ~conn.started /\ owed' = TRUE
  /\ StartReceiveLocked([conn EXCEPT !.started = TRUE])
  /\ UNCHANGED <<seen, sent, peer>>

Send ==
  /\ ~conn.closed /\ ~conn.afterSend /\ conn.queued < SendLimit /\ conn.accepted < MaxSent
  /\ LET c == [conn EXCEPT !.queued = @ + 1, !.accepted = @ + 1] IN
     IF c.sending THEN conn' = c /\ UNCHANGED <<budget, owed>> ELSE StartSendLocked(c) /\ owed' = TRUE
  /\ UNCHANGED <<seen, sent, peer>>

Close ==
  /\ ~conn.closed \/ conn.lingering
  /\ conn' = Failed([conn EXCEPT !.afterSend = FALSE], "closed") /\ owed' = TRUE
  /\ UNCHANGED <<seen, sent, peer, budget>>

CloseAfterSend ==
  /\ ~conn.closed /\ ~conn.afterSend
  /\ LET c == [conn EXCEPT !.afterSend = TRUE] IN
     IF Drained(c) THEN StartReceiveLocked(Lingering(c)) ELSE conn' = c /\ UNCHANGED budget
  /\ owed' = TRUE
  /\ UNCHANGED <<seen, sent, peer>>

\* A receive that was submitted finishes although the connection is paused.
PauseReceive ==
  /\ ~conn.closed /\ ~conn.paused /\ budget.toggles < Toggles
  /\ conn' = [conn EXCEPT !.paused = TRUE] /\ budget' = [budget EXCEPT !.toggles = @ + 1]
  /\ UNCHANGED <<seen, owed, sent, peer>>

ResumeReceive ==
  /\ ~conn.closed /\ conn.paused /\ owed' = TRUE
  /\ StartReceiveLocked([conn EXCEPT !.paused = FALSE])
  /\ UNCHANGED <<seen, sent, peer>>

MutantMaybeNotify ==
  /\ owed /\ owed' = FALSE
  /\ seen' = [seen EXCEPT !.told = @ \/ (conn.closed /\ ~Pending(conn))]
  /\ UNCHANGED <<conn, sent, peer, budget>>

MaybeNotifyDisconnected ==
  /\ owed /\ owed' = FALSE
  /\ seen' = [seen EXCEPT !.told = @ \/ (conn.closed /\ ~Pending(conn) /\ ~conn.callback)]
  /\ UNCHANGED <<conn, sent, peer, budget>>

-----------------------------------------------------------------------------
(* The completions.                                                        *)

\* OnReceiveCompleted: bytes for the observer, bytes to throw away, or the end.
OnReceiveCompleted ==
  LET c == [conn EXCEPT !.receiving = FALSE] IN
  /\ conn.receiving
  /\ \/ /\ conn.socket /\ peer < MaxPeer /\ peer' = peer + 1
        /\ IF conn.lingering THEN StartReceiveLocked(c) /\ owed' = TRUE
           ELSE conn' = [c EXCEPT !.callback = ~conn.closed] /\ owed' = (owed \/ conn.closed) /\ UNCHANGED budget
     \/ /\ conn' = IF conn.lingering THEN CloseSocketLocked(c) ELSE IF conn.closed THEN c ELSE Failed(c, "peer")
        /\ owed' = TRUE /\ UNCHANGED <<peer, budget>>
  /\ UNCHANGED <<seen, sent>>

\* The observer has read the buffer; only now may Winsock write into it again.
BytesDelivered ==
  /\ conn.callback /\ seen' = [seen EXCEPT !.chunks = @ + 1] /\ owed' = TRUE
  /\ LET c == [conn EXCEPT !.callback = FALSE] IN
     IF ~c.closed \/ c.lingering THEN StartReceiveLocked(c) ELSE conn' = c /\ UNCHANGED budget
  /\ UNCHANGED <<sent, peer>>

OnSendCompleted ==
  LET c == [conn EXCEPT !.sending = FALSE] IN
  /\ conn.sending /\ owed' = TRUE
  /\ \/ /\ conn.closed /\ conn' = [c EXCEPT !.queued = 0]
        /\ sent' \in {sent, IF conn.socket THEN sent + 1 ELSE sent} /\ UNCHANGED budget
     \/ ~conn.closed /\ conn' = Failed(c, "failed") /\ UNCHANGED <<sent, budget>>
     \/ /\ ~conn.closed /\ sent' = sent + 1
        /\ LET rest == [c EXCEPT !.queued = @ - 1] IN
           IF rest.queued > 0 THEN StartSendLocked(rest)
           ELSE IF Drained(rest) THEN StartReceiveLocked(Lingering(rest))
           ELSE conn' = rest /\ UNCHANGED budget
  /\ UNCHANGED <<seen, peer>>

Next ==
  \/ Start \/ Send \/ Close \/ CloseAfterSend \/ PauseReceive \/ ResumeReceive \/ MaybeNotifyDisconnected
  \/ OnReceiveCompleted \/ BytesDelivered \/ OnSendCompleted

Spec == Init /\ [][Next]_vars

-----------------------------------------------------------------------------

TypeOK ==
  /\ conn.queued \in 0..SendLimit /\ conn.accepted \in 0..MaxSent /\ sent \in 0..MaxSent
  /\ conn.how \in {"none", "closed", "failed", "peer", "graceful"}

\* What the kernel or the observer borrows stays: no receive is submitted over
\* the buffer an observer reads, and the front of the queue outlives WSASend.
BuffersStay ==
  /\ ~(conn.receiving /\ conn.callback)
  /\ conn.sending => conn.queued > 0

\* The end is told after the last request and callback, with the socket gone
\* and nothing retained; and somebody is left to tell it.
EndComesLast ==
  /\ seen.told => conn.closed /\ ~conn.socket /\ ~Pending(conn) /\ ~conn.callback /\ conn.queued = 0
  /\ conn.closed /\ ~seen.told => owed \/ Pending(conn) \/ conn.callback

\* A connection that should receive does, a lingering one drains, a queue that
\* is not empty is being sent, and a graceful close comes after all of it.
ConnectionGoesOn ==
  /\ conn.started /\ ~conn.closed /\ ~conn.paused => conn.receiving \/ conn.callback
  /\ conn.lingering => conn.receiving \/ conn.callback
  /\ ~conn.closed /\ conn.queued > 0 => conn.sending
  /\ conn.how = "graceful" => sent = conn.accepted

\* The connection, all in all.
WindowsConnectionIsOrderly == TypeOK /\ BuffersStay /\ EndComesLast /\ ConnectionGoesOn

=============================================================================
