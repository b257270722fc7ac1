---------------------------- MODULE KeyedExecutor ----------------------------
(***************************************************************************)
(* Runtime::KeyedExecutor: tasks of one key run one at a time in the order *)
(* they were accepted; keys with work take turns on a pool of workers; a   *)
(* coordinator retires cancelled queued tasks.                             *)
(*                                                                         *)
(* One action is one critical section of KeyedExecutorState::mutex, or one *)
(* stretch of user code outside it.  A Key's links and its `ready' flag    *)
(* are its place in the sequence readyKeys.                                *)
(***************************************************************************)
EXTENDS Integers, FiniteSets, Sequences, SequencesExt

CONSTANTS
  Tasks,           \* one element per call of Submit
  Keys, KeyOf,     \* the keys, and the key of each task
  Workers, Coordinator, None,
  MaxKeys, MaxOutstanding, MaxPerKey,           \* KeyedExecutorOptions
  Bytes, MaxRetained, MaxRetainedPerKey,
  Parented, Timed  \* tasks with a stoppable parent token, with a deadline

KeyedExecutorAssumption ==
  /\ IsFiniteSet(Tasks) /\ IsFiniteSet(Workers) /\ Workers # {}
  /\ KeyOf \in [Tasks -> Keys] /\ Bytes \in [Tasks -> Nat]
  /\ Coordinator \notin Workers /\ None \notin Tasks
  /\ {MaxKeys, MaxOutstanding, MaxPerKey, MaxRetained, MaxRetainedPerKey} \subseteq Nat \ {0}
  /\ Parented \subseteq Tasks /\ Timed \subseteq Tasks

VARIABLES
  starter, stopper, ready, stopping,
  pc, cur, outcome,    \* a thread's position, its task, and the status to publish
  submission,          \* progress, then the result, of Submit for each task
  tasks,               \* the list of accepted tasks that are not terminal
  keys,                \* the key table: [queued, outstanding, bytes, busy], or None
  readyKeys,
  phase, cancelReason, signalSent, token, result,
  pending, running, outstanding, retained,
  expired, parentStopped,
  delivered            \* history: the tasks whose completion ran

lifeVars == <<starter, stopper, ready, stopping>>
threadVars == <<pc, cur, outcome>>
taskVars == <<phase, cancelReason, signalSent, token, result>>
queueVars == <<tasks, keys, readyKeys>>
countVars == <<pending, running, outstanding, retained>>
envVars == <<expired, parentStopped>>
vars == <<lifeVars, threadVars, submission, taskVars, queueVars, countVars, envVars, delivered>>

Threads == Workers \cup {Coordinator}
JobResults == {"Ok", "PlatformError"}

-----------------------------------------------------------------------------
NotifyAll(f) ==
  [p \in Threads |-> IF f[p] \in {"wait", "timedWait"} THEN "scan" ELSE f[p]]

Observed(t) ==
  IF cancelReason[t] # "Ok" THEN cancelReason[t]
  ELSE IF t \in expired THEN "Timeout"
  ELSE IF t \in parentStopped THEN "Cancelled" ELSE "Ok"
ObserveAll(S) == [t \in Tasks |-> IF t \in S THEN Observed(t) ELSE cancelReason[t]]

Cancellable(t) == phase[t] \notin {"Completing", "Terminal"} /\ cancelReason[t] = "Ok"
CancelCode(t) == IF t \in expired THEN "Timeout" ELSE "Cancelled"

NewKey == [queued |-> <<>>, outstanding |-> 0, bytes |-> 0, busy |-> FALSE]
InTable == {k \in Keys : keys[k] # None}

\* Admission, which Submit calls twice.
Admission(t) ==
  /\ Bytes[t] <= MaxRetainedPerKey /\ ready /\ ~stopping
  /\ outstanding < MaxOutstanding /\ Bytes[t] <= MaxRetained - retained
  /\ LET key == keys[KeyOf[t]] IN
       IF key = None THEN Cardinality(InTable) < MaxKeys
       ELSE key.outstanding < MaxPerKey /\ Bytes[t] <= MaxRetainedPerKey - key.bytes

MutantEnqueue(list, k, key) ==
  IF Contains(list, k) \/ key.queued = <<>> THEN list ELSE Append(list, k)

\* Enqueue: a key with work that is neither running nor listed joins the ready list.
Enqueue(list, k, key) ==
  IF Contains(list, k) \/ key.busy \/ key.queued = <<>> THEN list ELSE Append(list, k)
RemoveReady(list, k) == SelectSeq(list, LAMBDA x : x # k)

-----------------------------------------------------------------------------
Init ==
  /\ starter = "created" /\ stopper = "idle" /\ ready = FALSE /\ stopping = FALSE
  /\ pc = [p \in Threads |-> "none"] /\ cur = [p \in Threads |-> None]
  /\ outcome = [p \in Threads |-> "Ok"]
  /\ submission = [t \in Tasks |-> "new"]
  /\ tasks = <<>> /\ keys = [k \in Keys |-> None] /\ readyKeys = <<>>
  /\ phase = [t \in Tasks |-> "Queued"] /\ cancelReason = [t \in Tasks |-> "Ok"]
  /\ signalSent = [t \in Tasks |-> FALSE] /\ token = [t \in Tasks |-> FALSE]
  /\ result = [t \in Tasks |-> "WouldBlock"]
  /\ pending = 0 /\ running = 0 /\ outstanding = 0 /\ retained = 0
  /\ expired = {} /\ parentStopped = {} /\ delivered = {}

-----------------------------------------------------------------------------
(* Start, RequestStop, Stop.                                               *)

JoinMutexFree == starter \notin {"spawning", "failing"} /\ stopper # "joining"

StartBegin ==
  /\ starter = "created" /\ JoinMutexFree /\ ~stopping
  /\ starter' = "spawning"
  /\ UNCHANGED <<stopper, ready, stopping, threadVars, submission, taskVars, queueVars, countVars,
                 envVars, delivered>>

\* The coordinator is created before the workers.
Spawn(p) ==
  /\ starter = "spawning" /\ pc[p] = "none"
  /\ p \in Workers => pc[Coordinator] # "none"
  /\ pc' = [pc EXCEPT ![p] = "scan"]
  /\ UNCHANGED <<lifeVars, cur, outcome, submission, taskVars, queueVars, countVars, envVars,
                 delivered>>

StartReady ==
  /\ starter = "spawning" /\ \A p \in Threads : pc[p] # "none"
  /\ starter' = "started" /\ ready' = TRUE /\ pc' = NotifyAll(pc)
  /\ UNCHANGED <<stopper, stopping, cur, outcome, submission, taskVars, queueVars, countVars,
                 envVars, delivered>>

\* RequestStop gives every listed task that nobody publishes yet a reason.
StopReason(t) == IF Observed(t) = "Ok" THEN "Cancelled" ELSE Observed(t)
StopEffect ==
  /\ stopping' = TRUE
  /\ cancelReason' = [t \in Tasks |-> IF Contains(tasks, t) /\ phase[t] # "Completing"
                                      THEN StopReason(t) ELSE cancelReason[t]]
  /\ pc' = NotifyAll(pc)
  /\ UNCHANGED <<ready, cur, outcome, submission, phase, signalSent, token, result, queueVars,
                 countVars, envVars, delivered>>

StartFail ==
  /\ starter = "spawning" /\ \E p \in Threads : pc[p] = "none"
  /\ starter' = "failing" /\ UNCHANGED stopper /\ StopEffect
RequestStop == ~stopping /\ StopEffect /\ UNCHANGED <<starter, stopper>>
StopBegin ==
  /\ stopper = "idle" /\ JoinMutexFree
  /\ stopper' = "joining" /\ UNCHANGED starter /\ StopEffect

MutantAllExited == \A p \in Workers : pc[p] \in {"none", "exit"}

AllExited == \A p \in Threads : pc[p] \in {"none", "exit"}

JoinDone ==
  /\ AllExited
  /\ \/ stopper = "joining" /\ stopper' = "stopped" /\ UNCHANGED starter
     \/ starter = "failing" /\ starter' = "failed" /\ UNCHANGED stopper
  /\ UNCHANGED <<ready, stopping, threadVars, submission, taskVars, queueVars, countVars, envVars,
                 delivered>>

-----------------------------------------------------------------------------
(* Submit, RequestCancel, the parent token and the clock.                  *)

Reject(t) ==
  /\ submission' = [submission EXCEPT ![t] = "rejected"]
  /\ UNCHANGED <<lifeVars, threadVars, taskVars, queueVars, countVars, envVars, delivered>>

\* The first test, then the unlocked part: a parent already stopped calls Cancel.
SubmitPrepare(t) ==
  /\ submission[t] = "new"
  /\ \/ Reject(t)
     \/ /\ Admission(t)
        /\ submission' = [submission EXCEPT ![t] = "admit"]
        /\ cancelReason' = [cancelReason EXCEPT
             ![t] = IF t \in parentStopped THEN CancelCode(t) ELSE @]
        /\ pc' = IF t \in parentStopped THEN NotifyAll(pc) ELSE pc
        /\ UNCHANGED <<lifeVars, cur, outcome, phase, signalSent, token, result, queueVars,
                       countVars, envVars, delivered>>

SubmitAdmit(t) ==
  /\ submission[t] = "admit"
  /\ \/ Reject(t)
     \/ /\ Admission(t)
        /\ submission' = [submission EXCEPT ![t] = "accepted"]
        /\ cancelReason' = [cancelReason EXCEPT ![t] = Observed(t)]
        /\ tasks' = Append(tasks, t)
        /\ LET k == KeyOf[t]
               old == IF keys[k] = None THEN NewKey ELSE keys[k]
               key == [old EXCEPT !.queued = Append(@, t), !.outstanding = @ + 1,
                                  !.bytes = @ + Bytes[t]]
           IN keys' = [keys EXCEPT ![k] = key] /\ readyKeys' = Enqueue(readyKeys, k, key)
        /\ outstanding' = outstanding + 1 /\ pending' = pending + 1
        /\ retained' = retained + Bytes[t]
        /\ pc' = NotifyAll(pc)
        /\ UNCHANGED <<lifeVars, cur, outcome, phase, signalSent, token, result, running, envVars,
                       delivered>>

RequestCancel(t) ==
  /\ submission[t] = "accepted" /\ Cancellable(t)
  /\ cancelReason' = [cancelReason EXCEPT ![t] = CancelCode(t)]
  /\ token' = [token EXCEPT ![t] = TRUE]
  /\ pc' = NotifyAll(pc)
  /\ UNCHANGED <<lifeVars, cur, outcome, submission, phase, signalSent, result, queueVars,
                 countVars, envVars, delivered>>

ParentStops(t) ==
  /\ t \in Parented \ parentStopped /\ phase[t] # "Terminal"
  /\ parentStopped' = parentStopped \cup {t}
  /\ UNCHANGED <<lifeVars, threadVars, submission, taskVars, queueVars, countVars, expired,
                 delivered>>

\* KeyedParentCancellation::operator(), while the task holds its registration.
ParentCallback(t) ==
  /\ t \in parentStopped /\ submission[t] \in {"admit", "accepted"} /\ Cancellable(t)
  /\ cancelReason' = [cancelReason EXCEPT ![t] = CancelCode(t)]
  /\ pc' = NotifyAll(pc)
  /\ UNCHANGED <<lifeVars, cur, outcome, submission, phase, signalSent, token, result, queueVars,
                 countVars, envVars, delivered>>

DeadlinePasses(t) ==
  /\ t \in Timed \ expired /\ phase[t] # "Terminal"
  /\ expired' = expired \cup {t}
  /\ UNCHANGED <<lifeVars, threadVars, submission, taskVars, queueVars, countVars, parentStopped,
                 delivered>>

-----------------------------------------------------------------------------
(* Run: a worker.                                                          *)

WorkerExit(w) ==
  /\ pc[w] = "scan" /\ stopping
  /\ pc' = [pc EXCEPT ![w] = "exit"]
  /\ UNCHANGED <<lifeVars, cur, outcome, submission, taskVars, queueVars, countVars, envVars,
                 delivered>>

\* The worker takes keys off the front of the ready list until the first task
\* of one is not cancelled; the keys it passes over wait for the coordinator.
FirstTask(k) == Head(keys[k].queued)
Runnable == {i \in 1..Len(readyKeys) : Observed(FirstTask(readyKeys[i])) = "Ok"}
PassedOver(i) == {FirstTask(readyKeys[j]) : j \in 1..(i - 1)}

WorkerTake(w, i) ==
  /\ pc[w] = "scan" /\ ~stopping /\ ready
  /\ i \in Runnable /\ \A j \in Runnable : i <= j
  /\ LET k == readyKeys[i] t == FirstTask(k) IN
       /\ keys' = [keys EXCEPT ![k].queued = Tail(@), ![k].busy = TRUE]
       /\ phase' = [phase EXCEPT ![t] = "Running"]
       /\ cur' = [cur EXCEPT ![w] = t]
  /\ readyKeys' = SubSeq(readyKeys, i + 1, Len(readyKeys))
  /\ cancelReason' = ObserveAll(PassedOver(i))
  /\ pending' = pending - 1 /\ running' = running + 1
  /\ pc' = [(IF i > 1 THEN NotifyAll(pc) ELSE pc) EXCEPT ![w] = "run"]
  /\ UNCHANGED <<lifeVars, outcome, submission, tasks, signalSent, token, result, outstanding,
                 retained, envVars, delivered>>

WorkerWait(w) ==
  /\ pc[w] = "scan" /\ ~stopping /\ (ready => Runnable = {})
  /\ readyKeys' = IF ready THEN <<>> ELSE readyKeys
  /\ cancelReason' = IF ready THEN ObserveAll(PassedOver(Len(readyKeys) + 1)) ELSE cancelReason
  /\ pc' = [(IF ready /\ readyKeys # <<>> THEN NotifyAll(pc) ELSE pc) EXCEPT ![w] = "wait"]
  /\ UNCHANGED <<lifeVars, cur, outcome, submission, phase, signalSent, token, result, tasks, keys,
                 countVars, envVars, delivered>>

\* The job returns or throws, and the second critical section decides the result.
JobReturns(w, r) ==
  /\ pc[w] = "run"
  /\ LET t == cur[w] IN
       /\ cancelReason' = [cancelReason EXCEPT ![t] = Observed(t)]
       /\ outcome' = [outcome EXCEPT ![w] = IF Observed(t) # "Ok" THEN Observed(t) ELSE r]
       /\ phase' = [phase EXCEPT ![t] = "Completing"]
  /\ pc' = [pc EXCEPT ![w] = "deliver"]
  /\ UNCHANGED <<lifeVars, cur, submission, signalSent, token, result, queueVars, countVars,
                 envVars, delivered>>

-----------------------------------------------------------------------------
(* Coordinate: the coordinator.                                            *)

\* The tasks the scan looks at, and the first it has to act on.
Watched == {i \in 1..Len(tasks) : phase[tasks[i]] # "Completing"}
Unsignalled == {i \in Watched : Observed(tasks[i]) # "Ok" /\ ~signalSent[tasks[i]]}

\* A queued task is retired by the coordinator, a running one by its worker.
RetiresHere(t) == phase[t] = "Queued"

MutantRetire(k, t) ==
  LET key == [keys[k] EXCEPT !.queued = SelectSeq(@, LAMBDA u : u # t)] IN
    /\ keys' = [keys EXCEPT ![k] = key]
    /\ readyKeys' = IF key.queued = <<>> THEN RemoveReady(readyKeys, k) ELSE readyKeys

\* A cancelled task leaves its key's queue; the key stays or becomes ready.
Retire(k, t) ==
  LET key == [keys[k] EXCEPT !.queued = SelectSeq(@, LAMBDA u : u # t)] IN
    /\ keys' = [keys EXCEPT ![k] = key]
    /\ readyKeys' = IF key.queued = <<>> THEN RemoveReady(readyKeys, k)
                    ELSE Enqueue(readyKeys, k, key)

CoordinatorSelect(i) ==
  /\ pc[Coordinator] = "scan" /\ i \in Unsignalled /\ \A j \in Unsignalled : i <= j
  /\ cancelReason' = ObserveAll({tasks[j] : j \in Watched \cap 1..i})
  /\ LET t == tasks[i] IN
       /\ signalSent' = [signalSent EXCEPT ![t] = TRUE]
       /\ cur' = [cur EXCEPT ![Coordinator] = t]
       /\ outcome' = [outcome EXCEPT ![Coordinator] = Observed(t)]
       /\ \/ /\ RetiresHere(t)
             /\ phase' = [phase EXCEPT ![t] = "Completing"]
             /\ pending' = pending - 1
             /\ Retire(KeyOf[t], t)
             /\ pc' = [pc EXCEPT ![Coordinator] = "deliver"]
          \/ /\ ~RetiresHere(t)
             /\ pc' = [pc EXCEPT ![Coordinator] = "signal"]
             /\ UNCHANGED <<phase, pending, keys, readyKeys>>
  /\ UNCHANGED <<lifeVars, submission, token, result, tasks, running, outstanding, retained,
                 envVars, delivered>>

\* A running task is only asked to stop.
CoordinatorSignal ==
  /\ pc[Coordinator] = "signal"
  /\ token' = [token EXCEPT ![cur[Coordinator]] = TRUE]
  /\ cur' = [cur EXCEPT ![Coordinator] = None]
  /\ outcome' = [outcome EXCEPT ![Coordinator] = "Ok"]
  /\ pc' = [pc EXCEPT ![Coordinator] = "scan"]
  /\ UNCHANGED <<lifeVars, submission, phase, cancelReason, signalSent, result, queueVars,
                 countVars, envVars, delivered>>

CoordinatorExit ==
  /\ pc[Coordinator] = "scan" /\ Unsignalled = {} /\ stopping /\ tasks = <<>>
  /\ pc' = [pc EXCEPT ![Coordinator] = "exit"]
  /\ UNCHANGED <<lifeVars, cur, outcome, submission, taskVars, queueVars, countVars, envVars,
                 delivered>>

CoordinatorWait ==
  /\ pc[Coordinator] = "scan" /\ Unsignalled = {} /\ ~(stopping /\ tasks = <<>>)
  /\ cancelReason' = ObserveAll({tasks[i] : i \in Watched})
  /\ pc' = [pc EXCEPT ![Coordinator] =
              IF \E i \in Watched : tasks[i] \in Timed /\ Observed(tasks[i]) = "Ok"
              THEN "timedWait" ELSE "wait"]
  /\ UNCHANGED <<lifeVars, cur, outcome, submission, phase, signalSent, token, result, queueVars,
                 countVars, envVars, delivered>>

CoordinatorTimeout ==
  /\ pc[Coordinator] = "timedWait"
  /\ \E i \in Watched : tasks[i] \in expired /\ cancelReason[tasks[i]] = "Ok"
  /\ pc' = [pc EXCEPT ![Coordinator] = "scan"]
  /\ UNCHANGED <<lifeVars, cur, outcome, submission, taskVars, queueVars, countVars, envVars,
                 delivered>>

-----------------------------------------------------------------------------
(* Publish, on the worker that ran the task or on the coordinator.         *)

\* request_stop when the result is a reason, then the completion.
Deliver(p) ==
  /\ pc[p] = "deliver"
  /\ token' = [token EXCEPT ![cur[p]] = @ \/ outcome[p] \in {"Cancelled", "Timeout"}]
  /\ delivered' = delivered \cup {cur[p]}
  /\ pc' = [pc EXCEPT ![p] = "publish"]
  /\ UNCHANGED <<lifeVars, cur, outcome, submission, phase, cancelReason, signalSent, result,
                 queueVars, countVars, envVars>>

MutantKept(key, occupied) ==
  [key EXCEPT !.outstanding = @ - 1, !.busy = IF occupied THEN @ ELSE FALSE]

MutantFreed(key, occupied) == [key EXCEPT !.outstanding = @ - 1, !.busy = FALSE]

\* The worker that occupied the key frees it; the coordinator never did.
Freed(key, occupied) ==
  [key EXCEPT !.outstanding = @ - 1, !.busy = IF occupied THEN FALSE ELSE @]

PublishResult(p) ==
  /\ pc[p] = "publish"
  /\ LET t == cur[p]
         k == KeyOf[t]
         key == [Freed(keys[k], p # Coordinator) EXCEPT !.bytes = @ - Bytes[t]]
     IN /\ tasks' = SelectSeq(tasks, LAMBDA u : u # t)
        /\ keys' = [keys EXCEPT ![k] = IF key.outstanding = 0 THEN None ELSE key]
        /\ readyKeys' = IF key.outstanding = 0 THEN RemoveReady(readyKeys, k)
                        ELSE Enqueue(readyKeys, k, key)
        /\ phase' = [phase EXCEPT ![t] = "Terminal"]
        /\ result' = [result EXCEPT ![t] = outcome[p]]
        /\ retained' = retained - Bytes[t]
  /\ outstanding' = outstanding - 1
  /\ running' = IF p # Coordinator THEN running - 1 ELSE running
  /\ cur' = [cur EXCEPT ![p] = None] /\ outcome' = [outcome EXCEPT ![p] = "Ok"]
  /\ pc' = [NotifyAll(pc) EXCEPT ![p] = "scan"]
  /\ UNCHANGED <<lifeVars, submission, cancelReason, signalSent, token, pending, envVars,
                 delivered>>

-----------------------------------------------------------------------------
LifeCycle ==
  \/ StartBegin \/ (\E p \in Threads : Spawn(p)) \/ StartReady \/ StartFail
  \/ RequestStop \/ StopBegin \/ JoinDone

Caller ==
  \E t \in Tasks :
    \/ SubmitPrepare(t) \/ SubmitAdmit(t) \/ RequestCancel(t)
    \/ ParentStops(t) \/ ParentCallback(t) \/ DeadlinePasses(t)

Worker(w) == WorkerExit(w) \/ WorkerWait(w) \/ \E i \in 1..Len(readyKeys) : WorkerTake(w, i)
CoordinatorStep ==
  \/ \E i \in 1..Len(tasks) : CoordinatorSelect(i)
  \/ CoordinatorSignal \/ CoordinatorExit \/ CoordinatorWait \/ CoordinatorTimeout
Publish(p) == Deliver(p) \/ PublishResult(p)

Terminated == stopper = "stopped" /\ UNCHANGED vars

Next ==
  \/ LifeCycle \/ Caller \/ CoordinatorStep
  \/ \E w \in Workers : Worker(w) \/ \E r \in JobResults : JobReturns(w, r)
  \/ \E p \in Threads : Publish(p)
  \/ Terminated

Spec == Init /\ [][Next]_vars

-----------------------------------------------------------------------------
(* Properties.                                                             *)

Accepted == {t \in Tasks : submission[t] = "accepted"}
Places == {"none", "scan", "wait", "timedWait", "run", "signal", "deliver", "publish", "exit"}

TypeOK ==
  /\ starter \in {"created", "spawning", "failing", "failed", "started"}
  /\ stopper \in {"idle", "joining", "stopped"} /\ ready \in BOOLEAN /\ stopping \in BOOLEAN
  /\ pc \in [Threads -> Places] /\ cur \in [Threads -> Tasks \cup {None}]
  /\ tasks \in Seq(Tasks) /\ readyKeys \in Seq(Keys)
  /\ \A k \in InTable : keys[k].queued \in Seq(Tasks) /\ keys[k].busy \in BOOLEAN
                        /\ keys[k].outstanding \in Nat /\ keys[k].bytes \in Nat
  /\ phase \in [Tasks -> {"Queued", "Running", "Completing", "Terminal"}]
  /\ cancelReason \in [Tasks -> {"Ok", "Cancelled", "Timeout"}]
  /\ pending \in Nat /\ running \in Nat /\ outstanding \in Nat /\ retained \in Nat

\* SameKeyAlone.  No two workers are ever inside the job or the completion of
\* tasks of one key, also while the coordinator retires other tasks of that key
\* ("Same-key tasks run ... without overlap", "Running tasks retain their key
\* through completion").
Occupies(w) == w \in Workers /\ pc[w] \in {"run", "deliver", "publish"}
SameKeyAlone ==
  \A v, w \in Workers :
    Occupies(v) /\ Occupies(w) /\ KeyOf[cur[v]] = KeyOf[cur[w]] => v = w

\* SameKeyOrder.  A task starts only when every task of its key that was
\* accepted before it is over, or was cancelled before it started (Run,
\* Coordinate and Publish all move the key between its places).
Position(t) == CHOOSE i \in 1..Len(tasks) : tasks[i] = t
StartsInKeyOrder ==
  \A t \in ToSet(tasks) :
    phase[t] = "Queued" /\ phase'[t] = "Running" =>
      \A u \in ToSet(tasks) :
        KeyOf[u] = KeyOf[t] /\ Position(u) < Position(t) =>
          phase[u] = "Completing" /\ cancelReason[u] # "Ok"
SameKeyOrder == [][StartsInKeyOrder]_vars

\* NoKeyForgotten.  A key with queued tasks is being run, is on the ready list,
\* or has a cancelled first task that the coordinator has yet to retire, after
\* which it puts the key back: a worker that drops a key from the list because
\* of a cancelled task (Run) never loses the tasks behind it.
NoKeyForgotten ==
  /\ \A k \in InTable :
       keys[k].queued # <<>> =>
         \/ keys[k].busy \/ Contains(readyKeys, k)
         \/ cancelReason[FirstTask(k)] # "Ok" /\ ~signalSent[FirstTask(k)]
  /\ \A k \in ToSet(readyKeys) : keys[k] # None /\ keys[k].queued # <<>> /\ ~keys[k].busy

\* TableIsExact.  A key is in the table exactly while it has an accepted task
\* that is not terminal; its count and the four totals are the tasks they stand
\* for and stay within their limits ("Idle keys are removed").
Unfinished(k) == {t \in Accepted : KeyOf[t] = k /\ phase[t] # "Terminal"}
TableIsExact ==
  /\ TypeOK
  /\ \A k \in Keys : keys[k] # None <=> Unfinished(k) # {}
  /\ \A k \in InTable :
       /\ keys[k].outstanding = Cardinality(Unfinished(k)) /\ keys[k].outstanding <= MaxPerKey
       /\ keys[k].bytes = MapThenSumSet(LAMBDA t : Bytes[t], Unfinished(k))
       /\ keys[k].bytes <= MaxRetainedPerKey
       /\ keys[k].busy <=> \E w \in Workers : Occupies(w) /\ KeyOf[cur[w]] = k
  /\ Cardinality(InTable) <= MaxKeys /\ outstanding <= MaxOutstanding /\ retained <= MaxRetained
  /\ outstanding = Len(tasks) /\ ToSet(tasks) = UNION {Unfinished(k) : k \in Keys}
  /\ pending = Cardinality({t \in ToSet(tasks) : phase[t] = "Queued"})
  /\ running = Cardinality({w \in Workers : Occupies(w)})

\* StopLeavesNothing.  When Stop has returned every accepted task was delivered
\* and is terminal, and the table is empty, although the workers leave before
\* the queues are (Run returns as soon as it sees stopping).
StopLeavesNothing ==
  stopper = "stopped" \/ starter = "failed" =>
    /\ \A t \in Accepted : phase[t] = "Terminal" /\ t \in delivered
    /\ InTable = {} /\ readyKeys = <<>> /\ retained = 0

\* KeysAreExact.  The states of the executor, all in all.
KeysAreExact == SameKeyAlone /\ NoKeyForgotten /\ TableIsExact /\ StopLeavesNothing
=============================================================================
