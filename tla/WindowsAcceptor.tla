--------------------------- MODULE WindowsAcceptor ---------------------------
(***************************************************************************)
(* An Acceptor that keeps several AcceptEx requests posted, the completion *)
(* port and the worker threads of the IoContext that carries them, and the *)
(* thread-pool timer that posts again what could not be posted.  Whoever   *)
(* owns both stops them, normally the acceptor first; the IoContext may    *)
(* also be stopped in the middle of a handoff.                             *)
(*                                                                         *)
(* The acceptor's mutex and lifecycleMutex are each held over one action,  *)
(* except where LifecycleHeld says so.                                     *)
(***************************************************************************)
EXTENDS Integers, FiniteSets, Sequences

CONSTANTS
  Slots,      \* acceptOperations
  Workers,    \* the I/O threads
  MaxPeers,   \* peers that connect
  Refusals,   \* posts Winsock refuses
  MaxStarts   \* times the acceptor is started

Quit == "quit"   \* the packet with StopCompletionKey

VARIABLES
  acc,        \* Acceptor::State: listening, started, stopping, handler
  posted,     \* slots whose request is pending: in the kernel or in the port
  handoffs,   \* slots a completion is being handled for
  needs,      \* slots with needsRepost
  timer,      \* retryTimer: none, idle, set, or its callback has begun
  port,       \* the completion port's packets, oldest first
  io,         \* the IoContext: off, running, signalling, joining, stopped
  worker,     \* what each I/O thread is at
  stopper,    \* where Acceptor::Stop is
  budget      \* peers, refusals and starts so far

vars == <<acc, posted, handoffs, needs, timer, port, io, worker, stopper, budget>>

Off == [at |-> "out", slot |-> Quit, peer |-> FALSE]
Waiting == [at |-> "wait", slot |-> Quit, peer |-> FALSE]

Init ==
  /\ acc = [listening |-> FALSE, started |-> FALSE, stopping |-> FALSE, handler |-> FALSE, calls |-> "none"]
  /\ posted = {} /\ handoffs = {} /\ needs = {} /\ timer = "none"
  /\ port = <<>> /\ io = "off" /\ worker = [w \in Workers |-> Off]
  /\ stopper = "out" /\ budget = [peers |-> 0, refusals |-> 0, starts |-> 0]

Refused(n) == budget.refusals + n <= Refusals
Queued == {port[i].slot : i \in DOMAIN port}

-----------------------------------------------------------------------------
(* The IoContext.                                                          *)

\* Every thread comes up, or those that did are joined and the port is closed.
IoStart ==
  /\ io = "off" /\ io' = "running"
  /\ worker' = [w \in Workers |-> Waiting]
  /\ UNCHANGED <<acc, posted, handoffs, needs, timer, port, stopper, budget>>

\* One packet per worker.  If one cannot be posted the port is closed, which
\* wakes every waiting worker and loses what is still queued.
SignalWorkersLocked ==
  /\ io = "signalling" /\ io' = "joining"
  /\ \/ port' = port \o [i \in 1..Cardinality(Workers) |-> [slot |-> Quit, peer |-> FALSE]] /\ UNCHANGED budget
     \/ /\ Refused(1) /\ budget' = [budget EXCEPT !.refusals = @ + 1]
        /\ port' = [i \in 1..Cardinality(Workers) |-> [slot |-> Quit, peer |-> FALSE]]
  /\ UNCHANGED <<acc, posted, handoffs, needs, timer, worker, stopper>>

\* Where IoContext::Stop has lifecycleMutex: not while it joins the workers.
MutantLifecycleHeld == io \in {"signalling", "joining"}
LifecycleHeld == io = "signalling"

IoStop ==
  \/ /\ io = "running" /\ io' = "signalling"
     /\ UNCHANGED <<acc, posted, handoffs, needs, timer, port, worker, stopper, budget>>
  \/ /\ io = "joining" /\ \A w \in Workers : worker[w].at = "out"
     /\ io' = "stopped" /\ port' = <<>>
     /\ UNCHANGED <<acc, posted, handoffs, needs, timer, worker, stopper, budget>>

\* RunCompletionLoop takes a packet: a completion for the acceptor, or its own end.
RunCompletionLoop(w) ==
  /\ worker[w].at = "wait" /\ port # <<>> /\ port' = Tail(port)
  /\ worker' = [worker EXCEPT ![w] =
       IF Head(port).slot = Quit THEN Off
       ELSE [at |-> "completed", slot |-> Head(port).slot, peer |-> Head(port).peer]]
  /\ UNCHANGED <<acc, posted, handoffs, needs, timer, io, stopper, budget>>

-----------------------------------------------------------------------------
(* Posting.                                                                *)

\* A request of every slot of S is posted, but those Winsock refuses.
PostAcceptLocked(S, refused) ==
  /\ refused \subseteq S /\ Refused(Cardinality(refused))
  /\ posted' = posted \cup (S \ refused)
  /\ budget' = [budget EXCEPT !.refusals = @ + Cardinality(refused)]

ScheduleRetryLocked(wanted) == timer' = IF wanted /\ timer = "idle" THEN "set" ELSE timer

Listen ==
  /\ ~acc.listening /\ stopper = "out" /\ budget.starts < MaxStarts
  /\ acc' = [acc EXCEPT !.listening = TRUE, !.stopping = FALSE, !.handler = TRUE]
  /\ UNCHANGED <<posted, handoffs, needs, timer, port, io, worker, stopper, budget>>

\* At least one slot must be posted; the others are left to the retry timer.
Start ==
  /\ acc.listening /\ ~acc.started /\ io = "running" /\ stopper = "out" /\ budget.starts < MaxStarts
  /\ \E refused \in SUBSET Slots :
       /\ refused # Slots /\ Refused(Cardinality(refused))
       /\ posted' = Slots \ refused /\ needs' = refused
       /\ timer' = IF refused = {} THEN "idle" ELSE "set"
       /\ budget' = [budget EXCEPT !.refusals = @ + Cardinality(refused), !.starts = @ + 1]
  /\ acc' = [acc EXCEPT !.started = TRUE]
  /\ UNCHANGED <<handoffs, port, io, worker, stopper>>

TimerFires ==
  /\ timer = "set" /\ timer' = "callback"
  /\ UNCHANGED <<acc, posted, handoffs, needs, port, io, worker, stopper, budget>>

\* The slots the retry posts again.
MutantDeferred == {s \in Slots : s \notin posted}
Deferred == needs

\* OnRetryTimer and RetryDeferredAcceptsLocked.  After Stop took the timer away
\* a callback that had begun still gets the lock, and finds stopping.
OnRetryTimer ==
  /\ timer \in {"callback", "retiring"}
  /\ IF acc.stopping \/ ~acc.listening
     THEN timer' = (IF timer = "retiring" THEN "none" ELSE "idle") /\ UNCHANGED <<posted, needs, budget>>
     ELSE \E refused \in SUBSET Deferred :
            /\ PostAcceptLocked(Deferred, refused) /\ needs' = refused
            /\ timer' = IF refused = {} THEN "idle" ELSE "set"
  /\ UNCHANGED <<acc, handoffs, port, io, worker, stopper>>

-----------------------------------------------------------------------------
(* A completion.                                                           *)

\* A peer connects, or the closed listener cancels the request.
AcceptCompletes(s) ==
  /\ s \in posted /\ s \notin Queued /\ \A w \in Workers : ~(worker[w].at = "completed" /\ worker[w].slot = s)
  /\ io # "stopped"
  /\ \/ /\ acc.listening /\ budget.peers < MaxPeers
        /\ budget' = [budget EXCEPT !.peers = @ + 1] /\ port' = Append(port, [slot |-> s, peer |-> TRUE])
     \/ ~acc.listening /\ port' = Append(port, [slot |-> s, peer |-> FALSE]) /\ UNCHANGED budget
  /\ UNCHANGED <<acc, posted, handoffs, needs, timer, io, worker, stopper>>

\* OnIoCompleted's section: the pending request becomes a handoff.  Only one
\* that found stopping clear will call the handler.
MutantOnIoCompleted(w) ==
  /\ worker[w].at = "completed"
  /\ posted' = posted \ {worker[w].slot}
  /\ handoffs' = IF acc.stopping THEN handoffs \cup {worker[w].slot} ELSE handoffs
  /\ worker' = [worker EXCEPT ![w].at = IF worker[w].peer /\ ~acc.stopping THEN "associate" ELSE "done"]
  /\ UNCHANGED <<acc, needs, timer, port, io, stopper, budget>>

OnIoCompleted(w) ==
  /\ worker[w].at = "completed"
  /\ posted' = posted \ {worker[w].slot} /\ handoffs' = handoffs \cup {worker[w].slot}
  /\ worker' = [worker EXCEPT ![w].at = IF worker[w].peer /\ ~acc.stopping THEN "associate" ELSE "done"]
  /\ UNCHANGED <<acc, needs, timer, port, io, stopper, budget>>

\* AssociateSocket, under lifecycleMutex: a context that stops takes no socket.
AssociateSocket(w) ==
  /\ worker[w].at = "associate" /\ ~LifecycleHeld
  /\ worker' = [worker EXCEPT ![w].at = IF io = "running" THEN "handle" ELSE "done"]
  /\ UNCHANGED <<acc, posted, handoffs, needs, timer, port, io, stopper, budget>>

\* The handler gets the connection, which is then started, or closed if it threw.
HandleAcceptedSocket(w) ==
  /\ worker[w].at = "handle"
  /\ worker' = [worker EXCEPT ![w].at = "done"]
  /\ acc' = [acc EXCEPT !.calls = IF acc.handler THEN @ ELSE "gone"]
  /\ UNCHANGED <<posted, handoffs, needs, timer, port, io, stopper, budget>>

CompleteHandoff(w) ==
  LET s == worker[w].slot IN
  /\ worker[w].at = "done"
  /\ handoffs' = handoffs \ {s} /\ worker' = [worker EXCEPT ![w] = Waiting]
  /\ IF acc.stopping THEN UNCHANGED <<posted, needs, timer, budget>>
     ELSE \E refused \in SUBSET {s} :
            /\ PostAcceptLocked({s}, refused) /\ needs' = needs \cup refused
            /\ ScheduleRetryLocked(refused # {})
  /\ UNCHANGED <<acc, port, io, stopper>>

-----------------------------------------------------------------------------
(* Acceptor::Stop.                                                         *)

StopBegins ==
  /\ stopper = "out" /\ acc.started
  /\ acc' = [acc EXCEPT !.stopping = TRUE, !.listening = FALSE]
  /\ timer' = CASE timer = "callback" -> "retiring" [] OTHER -> "none"
  /\ stopper' = "timer"
  /\ UNCHANGED <<posted, handoffs, needs, port, io, worker, budget>>

\* The timer's callback is waited for without the lock, then the handoffs.
StopWaits ==
  /\ stopper = "timer" /\ timer = "none" /\ handoffs = {}
  /\ stopper' = "drain"
  /\ UNCHANGED <<acc, posted, handoffs, needs, timer, port, io, worker, budget>>

\* drained: neither a request nor a handoff is left.
MutantStopMayReturn == posted = {}
StopMayReturn == posted = {} /\ handoffs = {}

StopReturns ==
  /\ stopper = "drain" /\ StopMayReturn
  /\ acc' = [acc EXCEPT !.started = FALSE, !.stopping = FALSE, !.handler = FALSE]
  /\ needs' = {} /\ stopper' = "out"
  /\ UNCHANGED <<posted, handoffs, timer, port, io, worker, budget>>

\* Nothing is sure to complete what is left once the IoContext was told to stop:
\* after a while Stop asserts.
StopTimesOut ==
  /\ stopper = "drain" /\ ~StopMayReturn /\ io \in {"signalling", "joining", "stopped"}
  /\ stopper' = "asserted"
  /\ UNCHANGED <<acc, posted, handoffs, needs, timer, port, io, worker, budget>>

Proceed ==
  \/ SignalWorkersLocked \/ (io = "joining" /\ IoStop) \/ OnRetryTimer \/ StopWaits \/ StopReturns \/ StopTimesOut
  \/ \E w \in Workers : \/ RunCompletionLoop(w) \/ OnIoCompleted(w) \/ AssociateSocket(w)
                        \/ HandleAcceptedSocket(w) \/ CompleteHandoff(w)
  \/ \E s \in Slots : AcceptCompletes(s)

Next == IoStart \/ IoStop \/ Listen \/ Start \/ TimerFires \/ StopBegins \/ Proceed

Spec == Init /\ [][Next]_vars

-----------------------------------------------------------------------------

TypeOK ==
  /\ posted \subseteq Slots /\ handoffs \subseteq Slots /\ needs \subseteq Slots
  /\ timer \in {"none", "idle", "set", "callback", "retiring"}
  /\ io \in {"off", "running", "signalling", "joining", "stopped"}
  /\ stopper \in {"out", "timer", "drain", "asserted"}

\* An OVERLAPPED has one use: a slot is pending, handed off or waiting for the
\* retry timer, never two of them; and a started acceptor has lost none.
SlotsHaveOneUse ==
  /\ posted \cap handoffs = {} /\ needs \cap (posted \cup handoffs) = {}
  /\ acc.started /\ ~acc.stopping => posted \cup handoffs \cup needs = Slots
  /\ acc.started /\ ~acc.stopping /\ needs # {} => timer \in {"set", "callback"}

\* Once Stop returned nothing of the acceptor is left on an I/O thread: no
\* request, no handoff, no retry, and the handler was never called after it.
StopLeavesNothing ==
  /\ ~acc.started => posted = {} /\ handoffs = {} /\ timer = "none"
  /\ ~acc.started => \A w \in Workers : worker[w].slot = Quit
  /\ acc.calls = "none"

\* Neither Stop waits for the other's lock: while one is under way, or a worker
\* is inside a handoff, somebody can go on.
NobodyIsStuck ==
  stopper \in {"timer", "drain"} \/ io \in {"signalling", "joining"} \/ (\E w \in Workers : worker[w].slot # Quit)
    => ENABLED Proceed

\* The acceptor and its IoContext, all in all.
WindowsAcceptorIsOrderly ==
  TypeOK /\ SlotsHaveOneUse /\ StopLeavesNothing /\ NobodyIsStuck

=============================================================================
