---------------------------- MODULE TaskExecutor ----------------------------
(***************************************************************************)
(* Runtime::TaskExecutor: a fixed pool of workers over a bounded list of   *)
(* tasks, and a coordinator thread that retires cancelled and timed-out    *)
(* queued tasks and signals cancelled running ones.                        *)
(*                                                                         *)
(* One action is one critical section of TaskExecutorState::mutex, or one  *)
(* stretch of user code run outside it.  The list `tasks` only grows at    *)
(* its end and shrinks by removal, so it is a set with admission stamps.   *)
(* Time is abstracted to one monotone fact per task: its deadline passed.  *)
(***************************************************************************)
EXTENDS Integers, FiniteSets, Functions

CONSTANTS
  Tasks,          \* one element per call of Submit
  Workers,        \* worker threads (TaskExecutorOptions::workerCount)
  Coordinator,    \* the coordinator thread
  None,           \* no task
  MaxPending,     \* TaskExecutorOptions::maxPendingTasks
  MaxRetained,    \* TaskExecutorOptions::maxRetainedBytes
  Bytes,          \* TaskOptions::retainedBytes of each task
  Parented,       \* tasks submitted with a stoppable parentToken
  Timed           \* tasks submitted with a deadline

ASSUME TaskExecutorAssumption ==
  /\ IsFiniteSet(Tasks) /\ IsFiniteSet(Workers) /\ Workers # {}
  /\ Coordinator \notin Workers /\ None \notin Tasks
  /\ MaxPending \in Nat \ {0} /\ MaxRetained \in Nat \ {0}
  /\ Bytes \in [Tasks -> Nat]
  /\ Parented \subseteq Tasks /\ Timed \subseteq Tasks

VARIABLES
  starter,        \* progress of Start: it holds joinMutex while spawning or failing
  stopper,        \* progress of Stop: it holds joinMutex while joining
  ready, stopping, joined,
  pc,             \* what each thread does next
  cur,            \* the task a thread has taken out of the scheduler
  outcome,        \* the status a thread is about to publish for cur
  submission,     \* progress, then the returned code, of Submit for each task
  list, stamp,    \* members of `tasks` and their admission stamps
  phase, cancelReason, signalSent,
  registered,     \* parentRegistration is engaged
  token,          \* the task's own stop_source was asked to stop
  terminal, result,
  pending, running, retained,
  accepted, completed,            \* the task counts of the metrics snapshot
  expired,        \* deadlines that have passed
  parentStopped,  \* parent tokens that were asked to stop
  completions     \* history: how often each completion callback ran

lifeVars  == <<starter, stopper, ready, stopping, joined>>
threadVars == <<pc, cur, outcome>>
taskVars  == <<submission, list, stamp, phase, cancelReason, signalSent,
               registered, token, terminal, result>>
countVars == <<pending, running, retained, accepted, completed>>
envVars   == <<expired, parentStopped>>
vars == <<lifeVars, threadVars, taskVars, countVars, envVars, completions>>

Threads == Workers \cup {Coordinator}

Phases == {"Queued", "Running", "Completing", "Terminal"}
Reasons == {"Ok", "Cancelled", "Timeout"}
JobResults == {"Ok", "PlatformError"}     \* a throwing job becomes PlatformError

-----------------------------------------------------------------------------
(* Helpers.  A definition named Mutant... is the faulty form of the one     *)
(* below it; it confirms that a property depends on the code as it is.      *)

\* wake.notify_all(): every thread blocked in wake.wait scans again.
NotifyAll(f) ==
  [p \in Threads |-> IF f[p] \in {"wait", "timedWait"} THEN "scan" ELSE f[p]]

MutantIsLast(t, S) == t \in S /\ \A u \in S : stamp[t] >= stamp[u]

\* The member of S that a scan of `tasks` from its front meets first.
IsFirst(t, S) == t \in S /\ \A u \in S : stamp[t] <= stamp[u]
Before(t) == {u \in list : stamp[u] < stamp[t]}

\* ObserveCancellation: the first reason wins, a passed deadline before the parent.
Observed(t) ==
  IF cancelReason[t] # "Ok" THEN cancelReason[t]
  ELSE IF t \in expired THEN "Timeout"
  ELSE IF t \in parentStopped THEN "Cancelled" ELSE "Ok"

ObserveAll(S) == [t \in Tasks |-> IF t \in S THEN Observed(t) ELSE cancelReason[t]]

MutantCancellableLate(t) == cancelReason[t] = "Ok"

\* Cancel: what the call assigns, and when it returns true.
Cancellable(t) == phase[t] \notin {"Completing", "Terminal"} /\ cancelReason[t] = "Ok"
CancelCode(t) == IF t \in expired THEN "Timeout" ELSE "Cancelled"

MutantAdmissibleOverBytes(t) == ready /\ ~stopping /\ pending < MaxPending

\* The admission test Submit makes twice under the mutex: not Closed, not
\* WouldBlock; TooLarge is the case no retained value admits.
Admissible(t) ==
  /\ ready /\ ~stopping
  /\ pending < MaxPending /\ Bytes[t] <= MaxRetained - retained

-----------------------------------------------------------------------------
Init ==
  /\ starter = "created" /\ stopper = "idle"
  /\ ready = FALSE /\ stopping = FALSE /\ joined = FALSE
  /\ pc = [p \in Threads |-> "none"]
  /\ cur = [p \in Threads |-> None]
  /\ outcome = [p \in Threads |-> "Ok"]
  /\ submission = [t \in Tasks |-> "new"]
  /\ list = {} /\ stamp = [t \in Tasks |-> 0]
  /\ phase = [t \in Tasks |-> "Queued"]
  /\ cancelReason = [t \in Tasks |-> "Ok"]
  /\ signalSent = [t \in Tasks |-> FALSE]
  /\ registered = [t \in Tasks |-> FALSE]
  /\ token = [t \in Tasks |-> FALSE]
  /\ terminal = [t \in Tasks |-> FALSE]
  /\ result = [t \in Tasks |-> "WouldBlock"]
  /\ pending = 0 /\ running = 0 /\ retained = 0
  /\ accepted = 0 /\ completed = 0
  /\ expired = {} /\ parentStopped = {}
  /\ completions = [t \in Tasks |-> 0]

-----------------------------------------------------------------------------
(* Start, RequestStop, Stop.                                               *)

JoinMutexFree == starter \notin {"spawning", "failing"} /\ stopper # "joining"

StartBegin ==
  /\ starter = "created" /\ JoinMutexFree /\ ~stopping
  /\ starter' = "spawning"
  /\ UNCHANGED <<stopper, ready, stopping, joined, completions>>
  /\ UNCHANGED threadVars /\ UNCHANGED taskVars /\ UNCHANGED countVars /\ UNCHANGED envVars

\* The coordinator is created before the workers.
Spawn(p) ==
  /\ starter = "spawning" /\ pc[p] = "none"
  /\ p \in Workers => pc[Coordinator] # "none"
  /\ pc' = [pc EXCEPT ![p] = "scan"]
  /\ UNCHANGED <<cur, outcome, completions>>
  /\ UNCHANGED lifeVars /\ UNCHANGED taskVars /\ UNCHANGED countVars /\ UNCHANGED envVars

StartReady ==
  /\ starter = "spawning" /\ \A p \in Threads : pc[p] # "none"
  /\ starter' = "started"
  /\ ready' = TRUE
  /\ pc' = NotifyAll(pc)
  /\ UNCHANGED <<stopper, stopping, joined, cur, outcome, completions>>
  /\ UNCHANGED taskVars /\ UNCHANGED countVars /\ UNCHANGED envVars

MutantStopReason(t) == Observed(t)

\* RequestStop refuses admission and gives every listed task a cancel reason.
StopReason(t) == IF Observed(t) = "Ok" THEN "Cancelled" ELSE Observed(t)

StopEffect ==
  /\ stopping' = TRUE
  /\ cancelReason' = [t \in Tasks |-> IF t \in list THEN StopReason(t) ELSE cancelReason[t]]
  /\ pc' = NotifyAll(pc)
  /\ UNCHANGED <<ready, joined, cur, outcome, submission, list, stamp, phase, signalSent,
                 registered, token, terminal, result, completions>>
  /\ UNCHANGED countVars /\ UNCHANGED envVars

\* A thread could not be created: Start stops and joins the ones that were.
StartFail ==
  /\ starter = "spawning" /\ \E p \in Threads : pc[p] = "none"
  /\ starter' = "failing" /\ UNCHANGED stopper
  /\ StopEffect

RequestStop == ~stopping /\ StopEffect /\ UNCHANGED <<starter, stopper>>

StopBegin ==
  /\ stopper = "idle" /\ JoinMutexFree
  /\ stopper' = "joining" /\ UNCHANGED starter
  /\ StopEffect

MutantWorkersExited == \A p \in Workers : pc[p] \in {"none", "exit"}

\* Join returns once no created thread is left running.
AllExited == \A p \in Threads : pc[p] \in {"none", "exit"}

JoinDone ==
  /\ AllExited
  /\ \/ stopper = "joining" /\ stopper' = "stopped" /\ UNCHANGED starter
     \/ starter = "failing" /\ starter' = "failed" /\ UNCHANGED stopper
  /\ joined' = TRUE
  /\ UNCHANGED <<ready, stopping, completions>>
  /\ UNCHANGED threadVars /\ UNCHANGED taskVars /\ UNCHANGED countVars /\ UNCHANGED envVars

-----------------------------------------------------------------------------
(* Submit, on a caller's thread.                                           *)

\* Every early return of Submit, whatever its code.
Reject(t) ==
  /\ submission' = [submission EXCEPT ![t] = "rejected"]
  /\ registered' = [registered EXCEPT ![t] = FALSE]
  /\ UNCHANGED <<list, stamp, phase, cancelReason, signalSent, token, terminal, result, pending,
                 running, retained, accepted, completed, completions>>
  /\ UNCHANGED lifeVars /\ UNCHANGED threadVars /\ UNCHANGED envVars

\* The unlocked part of Submit, after its first test: build the task and register
\* with the parent.  A parent that already stopped calls Cancel inline.
SubmitPrepare(t) ==
  /\ submission[t] = "new"
  /\ \/ Reject(t)     \* an empty job, a throwing allocation, or not admissible
     \/ /\ Admissible(t)
        /\ submission' = [submission EXCEPT ![t] = "admit"]
        /\ registered' = [registered EXCEPT ![t] = t \in Parented]
        /\ cancelReason' = [cancelReason EXCEPT
             ![t] = IF t \in parentStopped THEN CancelCode(t) ELSE @]
        /\ pc' = IF t \in parentStopped THEN NotifyAll(pc) ELSE pc
        /\ UNCHANGED <<cur, outcome, list, stamp, phase, signalSent, token, terminal, result,
                       completions>>
        /\ UNCHANGED lifeVars /\ UNCHANGED countVars /\ UNCHANGED envVars

SubmitAdmit(t) ==
  /\ submission[t] = "admit"
  /\ \/ Reject(t)     \* a throwing allocation, or no longer admissible
     \/ /\ Admissible(t)
        /\ submission' = [submission EXCEPT ![t] = "accepted"]
        /\ cancelReason' = [cancelReason EXCEPT ![t] = Observed(t)]
        /\ list' = list \cup {t}
        /\ stamp' = [stamp EXCEPT ![t] = accepted]
        /\ accepted' = accepted + 1
        /\ pending' = pending + 1
        /\ retained' = retained + Bytes[t]
        /\ pc' = NotifyAll(pc)
        /\ UNCHANGED <<cur, outcome, phase, signalSent, registered, token, terminal, result,
                       running, completed, completions>>
        /\ UNCHANGED lifeVars /\ UNCHANGED envVars

-----------------------------------------------------------------------------
(* TaskHandle::RequestCancel, and the parent token's callback.             *)

\* The caller's request_stop() follows Cancel(); no executor step reads the token.
RequestCancel(t) ==
  /\ submission[t] = "accepted" /\ Cancellable(t)
  /\ cancelReason' = [cancelReason EXCEPT ![t] = CancelCode(t)]
  /\ token' = [token EXCEPT ![t] = TRUE]
  /\ pc' = NotifyAll(pc)
  /\ UNCHANGED <<cur, outcome, submission, list, stamp, phase, signalSent, registered, terminal,
                 result, completions>>
  /\ UNCHANGED lifeVars /\ UNCHANGED countVars /\ UNCHANGED envVars

\* request_stop() on the parent sets the flag first and runs the callbacks after.
ParentStops(t) ==
  /\ t \in Parented \ parentStopped /\ phase[t] # "Terminal"
  /\ parentStopped' = parentStopped \cup {t}
  /\ UNCHANGED <<expired, completions>>
  /\ UNCHANGED lifeVars /\ UNCHANGED threadVars /\ UNCHANGED taskVars /\ UNCHANGED countVars

\* ParentCancellation::operator(); a Cancel that returns false changes nothing.
ParentCallback(t) ==
  /\ t \in parentStopped /\ registered[t] /\ Cancellable(t)
  /\ cancelReason' = [cancelReason EXCEPT ![t] = CancelCode(t)]
  /\ pc' = NotifyAll(pc)
  /\ UNCHANGED <<cur, outcome, submission, list, stamp, phase, signalSent, registered, token,
                 terminal, result, completions>>
  /\ UNCHANGED lifeVars /\ UNCHANGED countVars /\ UNCHANGED envVars

DeadlinePasses(t) ==
  /\ t \in Timed \ expired /\ phase[t] # "Terminal"   \* nobody reads it later
  /\ expired' = expired \cup {t}
  /\ UNCHANGED <<parentStopped, completions>>
  /\ UNCHANGED lifeVars /\ UNCHANGED threadVars /\ UNCHANGED taskVars /\ UNCHANGED countVars

-----------------------------------------------------------------------------
(* Run: a worker.                                                          *)

Eligible == {t \in list : phase[t] = "Queued" /\ Observed(t) = "Ok"}

WorkerExit(w) ==
  /\ pc[w] = "scan" /\ stopping
  /\ pc' = [pc EXCEPT ![w] = "exit"]
  /\ UNCHANGED <<cur, outcome, completions>>
  /\ UNCHANGED lifeVars /\ UNCHANGED taskVars /\ UNCHANGED countVars /\ UNCHANGED envVars

\* Queued tasks the scan met before the one it took, or all when it took none.
QueuedIn(S) == {t \in S : phase[t] = "Queued"}
NotifyIfCancelled(S) ==
  IF \E t \in QueuedIn(S) : Observed(t) # "Ok" THEN NotifyAll(pc) ELSE pc

WorkerTake(w, t) ==
  /\ pc[w] = "scan" /\ ~stopping /\ ready /\ IsFirst(t, Eligible)
  /\ cancelReason' = ObserveAll(QueuedIn(Before(t)))
  /\ pc' = [NotifyIfCancelled(Before(t)) EXCEPT ![w] = "run"]
  /\ cur' = [cur EXCEPT ![w] = t]
  /\ phase' = [phase EXCEPT ![t] = "Running"]
  /\ pending' = pending - 1 /\ running' = running + 1
  /\ UNCHANGED <<outcome, submission, list, stamp, signalSent, registered, token, terminal,
                 result, retained, accepted, completed, completions>>
  /\ UNCHANGED lifeVars /\ UNCHANGED envVars

WorkerWait(w) ==
  /\ pc[w] = "scan" /\ ~stopping /\ (~ready \/ Eligible = {})
  /\ cancelReason' = IF ready THEN ObserveAll(QueuedIn(list)) ELSE cancelReason
  /\ pc' = [(IF ready THEN NotifyIfCancelled(list) ELSE pc) EXCEPT ![w] = "wait"]
  /\ UNCHANGED <<cur, outcome, submission, list, stamp, phase, signalSent, registered, token,
                 terminal, result, completions>>
  /\ UNCHANGED lifeVars /\ UNCHANGED countVars /\ UNCHANGED envVars

\* The job returns or throws.
JobReturns(w, r) ==
  /\ pc[w] = "run"
  /\ pc' = [pc EXCEPT ![w] = "finish"]
  /\ outcome' = [outcome EXCEPT ![w] = r]
  /\ UNCHANGED <<cur, completions>>
  /\ UNCHANGED lifeVars /\ UNCHANGED taskVars /\ UNCHANGED countVars /\ UNCHANGED envVars

\* The worker's second critical section decides the result for good.
WorkerFinish(w) ==
  /\ pc[w] = "finish"
  /\ LET t == cur[w] IN
       /\ cancelReason' = [cancelReason EXCEPT ![t] = Observed(t)]
       /\ outcome' = [outcome EXCEPT ![w] = IF Observed(t) # "Ok" THEN Observed(t) ELSE @]
       /\ phase' = [phase EXCEPT ![t] = "Completing"]
       /\ list' = list \ {t}
  /\ running' = running - 1
  /\ pc' = [pc EXCEPT ![w] = "deliver"]
  /\ UNCHANGED <<cur, submission, stamp, signalSent, registered, token, terminal, result,
                 pending, retained, accepted, completed, completions>>
  /\ UNCHANGED lifeVars /\ UNCHANGED envVars

-----------------------------------------------------------------------------
(* Coordinate: the coordinator.                                            *)

Unsignalled == {t \in list : Observed(t) # "Ok" /\ ~signalSent[t]}

MutantRetiresHere(t) == phase[t] \in {"Queued", "Running"}

\* A queued task is retired by the coordinator; a running one by its worker.
RetiresHere(t) == phase[t] = "Queued"

CoordinatorSelect(t) ==
  /\ pc[Coordinator] = "scan" /\ IsFirst(t, Unsignalled)
  /\ LET queued == RetiresHere(t) IN
       /\ cancelReason' = ObserveAll(Before(t) \cup {t})
       /\ signalSent' = [signalSent EXCEPT ![t] = TRUE]
       /\ phase' = IF queued THEN [phase EXCEPT ![t] = "Completing"] ELSE phase
       /\ pending' = IF queued THEN pending - 1 ELSE pending
       /\ list' = IF queued THEN list \ {t} ELSE list
       /\ cur' = [cur EXCEPT ![Coordinator] = t]
       /\ outcome' = [outcome EXCEPT ![Coordinator] = Observed(t)]
       /\ pc' = [pc EXCEPT ![Coordinator] = IF queued THEN "deliver" ELSE "signalRunning"]
  /\ UNCHANGED <<submission, stamp, registered, token, terminal, result, running, retained,
                 accepted, completed, completions>>
  /\ UNCHANGED lifeVars /\ UNCHANGED envVars

\* A running task is only signalled; the coordinator then scans again.
CoordinatorSignalRunning ==
  /\ pc[Coordinator] = "signalRunning"
  /\ token' = [token EXCEPT ![cur[Coordinator]] = TRUE]
  /\ cur' = [cur EXCEPT ![Coordinator] = None]
  /\ outcome' = [outcome EXCEPT ![Coordinator] = "Ok"]
  /\ pc' = [pc EXCEPT ![Coordinator] = "scan"]
  /\ UNCHANGED <<submission, list, stamp, phase, cancelReason, signalSent, registered, terminal,
                 result, completions>>
  /\ UNCHANGED lifeVars /\ UNCHANGED countVars /\ UNCHANGED envVars

CoordinatorExit ==
  /\ pc[Coordinator] = "scan" /\ Unsignalled = {} /\ stopping /\ list = {}
  /\ pc' = [pc EXCEPT ![Coordinator] = "exit"]
  /\ UNCHANGED <<cur, outcome, completions>>
  /\ UNCHANGED lifeVars /\ UNCHANGED taskVars /\ UNCHANGED countVars /\ UNCHANGED envVars

MutantNoDeadlines == {}

\* nextDeadline: the deadlines of the listed tasks that have no reason yet.
Deadlines == {t \in list \cap Timed : Observed(t) = "Ok"}

CoordinatorWait ==
  /\ pc[Coordinator] = "scan" /\ Unsignalled = {} /\ ~(stopping /\ list = {})
  /\ cancelReason' = ObserveAll(list)
  /\ pc' = [pc EXCEPT ![Coordinator] = IF Deadlines # {} THEN "timedWait" ELSE "wait"]
  /\ UNCHANGED <<cur, outcome, submission, list, stamp, phase, signalSent, registered, token,
                 terminal, result, completions>>
  /\ UNCHANGED lifeVars /\ UNCHANGED countVars /\ UNCHANGED envVars

\* wake.wait_until returns: a deadline passed that no notification told it of.
CoordinatorTimeout ==
  /\ pc[Coordinator] = "timedWait"
  /\ \E t \in list \cap expired : cancelReason[t] = "Ok"
  /\ pc' = [pc EXCEPT ![Coordinator] = "scan"]
  /\ UNCHANGED <<cur, outcome, completions>>
  /\ UNCHANGED lifeVars /\ UNCHANGED taskVars /\ UNCHANGED countVars /\ UNCHANGED envVars

-----------------------------------------------------------------------------
(* The end of a task, on the worker that ran it or on the coordinator.     *)

\* request_stop() when the result is a cancel reason; then Publish drops the job,
\* unregisters from the parent and runs the completion, all outside the mutex.
Deliver(p) ==
  /\ pc[p] = "deliver"
  /\ token' = [token EXCEPT ![cur[p]] = @ \/ outcome[p] \in {"Cancelled", "Timeout"}]
  /\ registered' = [registered EXCEPT ![cur[p]] = FALSE]
  /\ completions' = [completions EXCEPT ![cur[p]] = @ + 1]
  /\ pc' = [pc EXCEPT ![p] = "release"]
  /\ UNCHANGED <<cur, outcome, submission, list, stamp, phase, cancelReason, signalSent,
                 terminal, result>>
  /\ UNCHANGED lifeVars /\ UNCHANGED countVars /\ UNCHANGED envVars

MutantFreed(p) == IF outcome[p] = "Cancelled" THEN 0 ELSE Bytes[cur[p]]

\* The bytes go back however the task ended.
Freed(p) == Bytes[cur[p]]

\* Publish, under the mutex: return the bytes and count the completion.
Release(p) ==
  /\ pc[p] = "release"
  /\ retained' = retained - Freed(p)
  /\ phase' = [phase EXCEPT ![cur[p]] = "Terminal"]
  /\ completed' = completed + 1
  /\ pc' = [pc EXCEPT ![p] = "announce"]
  /\ UNCHANGED <<cur, outcome, submission, list, stamp, cancelReason, signalSent, registered,
                 token, terminal, result, pending, running, accepted, completions>>
  /\ UNCHANGED lifeVars /\ UNCHANGED envVars

\* Publish, under resultMutex: the handle becomes terminal and waiters wake.
Announce(p) ==
  /\ pc[p] = "announce"
  /\ terminal' = [terminal EXCEPT ![cur[p]] = TRUE]
  /\ result' = [result EXCEPT ![cur[p]] = outcome[p]]
  /\ cur' = [cur EXCEPT ![p] = None] /\ outcome' = [outcome EXCEPT ![p] = "Ok"]
  /\ pc' = [NotifyAll(pc) EXCEPT ![p] = "scan"]
  /\ UNCHANGED <<submission, list, stamp, phase, cancelReason, signalSent, registered, token,
                 completions>>
  /\ UNCHANGED lifeVars /\ UNCHANGED countVars /\ UNCHANGED envVars

-----------------------------------------------------------------------------
LifeCycle ==
  \/ StartBegin \/ (\E p \in Threads : Spawn(p)) \/ StartReady \/ StartFail
  \/ RequestStop \/ StopBegin \/ JoinDone

Caller ==
  \E t \in Tasks :
    \/ SubmitPrepare(t) \/ SubmitAdmit(t)
    \/ RequestCancel(t) \/ ParentStops(t) \/ ParentCallback(t) \/ DeadlinePasses(t)

Worker(w) ==
  \/ WorkerExit(w) \/ (\E t \in Tasks : WorkerTake(w, t)) \/ WorkerWait(w) \/ WorkerFinish(w)

CoordinatorStep ==
  \/ (\E t \in Tasks : CoordinatorSelect(t)) \/ CoordinatorSignalRunning \/ CoordinatorExit
  \/ CoordinatorWait \/ CoordinatorTimeout

Publish(p) == Deliver(p) \/ Release(p) \/ Announce(p)

\* Stop has returned and nobody is left to act: the executor's life is over.
Terminated == stopper = "stopped" /\ UNCHANGED vars

Next ==
  \/ LifeCycle \/ Caller \/ CoordinatorStep
  \/ \E w \in Workers : Worker(w) \/ \E r \in JobResults : JobReturns(w, r)
  \/ \E p \in Threads : Publish(p)
  \/ Terminated

(***************************************************************************)
(* The operating system runs a thread that can run:                        *)
(* a Stop that was called joins when it can, and a parent asked to stop    *)
(* runs its callbacks.  Nothing is assumed of callers, of deadlines, or of *)
(* a job's willingness to return.                                          *)
(***************************************************************************)
ThreadFairness ==
  /\ WF_vars(CoordinatorStep \/ Publish(Coordinator))
  /\ \A w \in Workers : WF_vars(Worker(w) \/ Publish(w))
  /\ \A t \in Tasks : WF_vars(ParentCallback(t))
  /\ WF_vars(JoinDone)

Spec == Init /\ [][Next]_vars /\ ThreadFairness

\* Jobs that do return: the assumption under which Stop is promised to finish.
JobsReturn == \A w \in Workers : WF_vars(\E r \in JobResults : JobReturns(w, r))

-----------------------------------------------------------------------------
(* Properties.                                                             *)

Places == {"none", "scan", "wait", "timedWait", "run", "finish", "signalRunning", "deliver",
           "release", "announce", "exit"}

TypeOK ==
  /\ starter \in {"created", "spawning", "failing", "failed", "started"}
  /\ stopper \in {"idle", "joining", "stopped"}
  /\ ready \in BOOLEAN /\ stopping \in BOOLEAN /\ joined \in BOOLEAN
  /\ pc \in [Threads -> Places]
  /\ cur \in [Threads -> Tasks \cup {None}]
  /\ outcome \in [Threads -> Reasons \cup JobResults]
  /\ submission \in [Tasks -> {"new", "admit", "accepted", "rejected"}]
  /\ list \subseteq Tasks /\ stamp \in [Tasks -> Nat]
  /\ phase \in [Tasks -> Phases] /\ cancelReason \in [Tasks -> Reasons]
  /\ signalSent \in [Tasks -> BOOLEAN] /\ registered \in [Tasks -> BOOLEAN]
  /\ token \in [Tasks -> BOOLEAN] /\ terminal \in [Tasks -> BOOLEAN]
  /\ result \in [Tasks -> Reasons \cup JobResults \cup {"WouldBlock"}]
  /\ pending \in Nat /\ running \in Nat /\ retained \in Int   \* see BytesAreBounded
  /\ accepted \in Nat /\ completed \in Nat
  /\ expired \subseteq Timed /\ parentStopped \subseteq Parented
  /\ completions \in [Tasks -> Nat]

Accepted == {t \in Tasks : submission[t] = "accepted"}
Live == {t \in Accepted : phase[t] # "Terminal"}

\* Every count the admission test and the metrics rely on is the number of tasks
\* it stands for, whatever thread took or retired them.
CountersAgree ==
  /\ pending = Cardinality({t \in list : phase[t] = "Queued"})
  /\ running = Cardinality({t \in list : phase[t] = "Running"})
  /\ accepted = completed + Cardinality(Live)
  /\ pending <= MaxPending

\* The bytes the admission test relies on are those of the tasks that were
\* accepted and are not terminal, within the limit: each path to the terminal
\* state goes through Publish, which gives them back once.
BytesAreBounded == retained = SumFunctionOnSet(Bytes, Live) /\ retained <= MaxRetained

\* A completion runs at most once, only for an accepted task, and before the
\* handle reports a terminal status.
CompletionOnce ==
  \A t \in Tasks :
    /\ completions[t] <= 1
    /\ completions[t] = 1 => t \in Accepted
    /\ terminal[t] => completions[t] = 1 /\ phase[t] = "Terminal"

\* The first cancellation reason wins over the job's result, and a late one
\* changes neither the token nor the result.
FirstReasonWins ==
  \A t \in Tasks :
    /\ terminal[t] /\ cancelReason[t] # "Ok" => result[t] = cancelReason[t]
    /\ terminal[t] /\ cancelReason[t] = "Ok" => result[t] \in JobResults
    /\ token[t] => cancelReason[t] # "Ok"

\* When Stop or a failed Start has joined, no accepted task is unfinished.
JoinRetiresAll ==
  joined => (\A t \in Accepted : terminal[t]) /\ pending = 0 /\ running = 0

\* Workers start tasks in admission order; only a cancelled task is overtaken.
StartsInOrder ==
  [][\A t, u \in list :
       (phase[t] = "Queued" /\ phase'[t] = "Running" /\ stamp[u] < stamp[t] /\ phase[u] = "Queued")
         => cancelReason'[u] # "Ok"]_vars

\* Cancellation acts although no running job ever returns: a queued task that
\* is cancelled, timed out or stopped becomes terminal, and a running one sees
\* its token stop.
CancellationActs ==
  \A t \in Tasks :
    /\ (t \in list /\ phase[t] = "Queued" /\ Observed(t) # "Ok") ~> terminal[t]
    /\ (phase[t] = "Running" /\ Observed(t) # "Ok") ~> token[t]

\* With jobs that return, every accepted task finishes and Stop returns: no
\* wakeup is lost.
WorkEnds ==
  JobsReturn =>
    /\ \A t \in Tasks : t \in Accepted ~> terminal[t]
    /\ stopper = "joining" ~> stopper = "stopped"
=============================================================================
