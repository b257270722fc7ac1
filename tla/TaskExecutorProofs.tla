------------------------- MODULE TaskExecutorProofs -------------------------
(***************************************************************************)
(* The inductive invariant of TaskExecutor's tasks; that every step        *)
(* preserves it, for any number of tasks and workers; what follows for     *)
(* completions, reasons and the order of tasks; the counters are exact;    *)
(* and Join leaves no task behind.                                         *)
(***************************************************************************)
EXTENDS TaskExecutor, SumTheorems, TLAPS

-----------------------------------------------------------------------------
(* The inductive invariant, in parts that speak of one task or one thread. *)

Holding == {"run", "finish", "deliver", "release", "announce"}

\* Where a task is in its life fixes its membership of the list, its completion
\* and its result.
TaskAt(t) ==
  /\ t \in list <=> (submission[t] = "accepted" /\ phase[t] \in {"Queued", "Running"})
  /\ submission[t] # "accepted" => phase[t] = "Queued" /\ ~token[t]
  /\ phase[t] \in {"Queued", "Running"} => completions[t] = 0
  /\ phase[t] = "Completing" => completions[t] \in {0, 1}
  /\ phase[t] = "Terminal" => completions[t] = 1
  /\ terminal[t] => phase[t] = "Terminal"
  /\ terminal[t] /\ cancelReason[t] # "Ok" => result[t] = cancelReason[t]
  /\ terminal[t] /\ cancelReason[t] = "Ok" => result[t] \in JobResults
  /\ token[t] => cancelReason[t] # "Ok"

\* What a thread's program counter says about the task it holds and about the
\* status it is going to publish.
ThreadAt(p) ==
  /\ pc[p] \in Holding \cup {"signalRunning"} => cur[p] \in Tasks
  /\ pc[p] \in {"run", "finish"} => p \in Workers /\ phase[cur[p]] = "Running"
  /\ pc[p] = "deliver" => phase[cur[p]] = "Completing" /\ completions[cur[p]] = 0
  /\ pc[p] = "release" => phase[cur[p]] = "Completing" /\ completions[cur[p]] = 1
  /\ pc[p] = "announce" => phase[cur[p]] = "Terminal" /\ ~terminal[cur[p]]
  /\ pc[p] = "signalRunning" => p = Coordinator /\ cancelReason[cur[p]] # "Ok"
                                 /\ submission[cur[p]] = "accepted"
  /\ pc[p] \in {"deliver", "release", "announce"} =>
       IF cancelReason[cur[p]] # "Ok" THEN outcome[p] = cancelReason[cur[p]]
       ELSE outcome[p] \in JobResults
  /\ pc[p] = "finish" => outcome[p] \in JobResults

TaskShape == \A t \in Tasks : TaskAt(t)
ThreadShape == \A p \in Threads : ThreadAt(p)

\* Two threads never hold the same task.
SoleHolder ==
  \A p, q \in Threads :
    pc[p] \in Holding /\ pc[q] \in Holding /\ cur[p] = cur[q] => p = q

\* TypeOK without the life cycle and two counters, grouped by what a step touches.
PlaceTypes ==
  /\ pc \in [Threads -> Places] /\ cur \in [Threads -> Tasks \cup {None}]
  /\ outcome \in [Threads -> Reasons \cup JobResults]
StageTypes ==
  /\ submission \in [Tasks -> {"new", "admit", "accepted", "rejected"}]
  /\ list \subseteq Tasks /\ phase \in [Tasks -> Phases]
  /\ terminal \in [Tasks -> BOOLEAN] /\ completions \in [Tasks -> Nat]
ReasonTypes ==
  /\ cancelReason \in [Tasks -> Reasons] /\ token \in [Tasks -> BOOLEAN]
  /\ result \in [Tasks -> Reasons \cup JobResults \cup {"WouldBlock"}]
NumberTypes ==
  stamp \in [Tasks -> Nat] /\ accepted \in Nat /\ completed \in Nat /\ retained \in Int
FlagTypes ==
  /\ signalSent \in [Tasks -> BOOLEAN] /\ registered \in [Tasks -> BOOLEAN]
  /\ expired \subseteq Timed /\ parentStopped \subseteq Parented

Types == PlaceTypes /\ StageTypes /\ ReasonTypes
Shape == Types /\ TaskShape /\ ThreadShape /\ SoleHolder
Core == Shape /\ NumberTypes /\ FlagTypes

-----------------------------------------------------------------------------
(* Two kinds of steps.                                                     *)

Free == Places \ (Holding \cup {"signalRunning"})

\* No thread takes or lets go of a task: threads move between scanning, waiting
\* and signalling; reasons and tokens may appear on unfinished tasks.
Quiet ==
  /\ pc' \in [Threads -> Places] /\ cur' \in [Threads -> Tasks \cup {None}]
  /\ outcome' \in [Threads -> Reasons \cup JobResults]
  /\ \A p \in Threads :
       \/ pc'[p] = pc[p] /\ cur'[p] = cur[p] /\ outcome'[p] = outcome[p]
       \/ pc[p] \notin Holding /\ pc'[p] \in Free
       \/ /\ p = Coordinator /\ pc[p] \in Free /\ pc'[p] = "signalRunning"
          /\ cur'[p] \in Accepted /\ cancelReason'[cur'[p]] # "Ok"
  /\ cancelReason' \in [Tasks -> Reasons]
  /\ \A t \in Tasks : cancelReason'[t] = cancelReason[t]
                        \/ (cancelReason[t] = "Ok" /\ phase[t] \in {"Queued", "Running"})
  /\ token' \in [Tasks -> BOOLEAN]
  /\ \A t \in Tasks : token'[t] => token[t] \/ (cancelReason'[t] # "Ok" /\ t \in Accepted)
  /\ UNCHANGED <<submission, list, phase, terminal, result, completions>>

\* The threads of S and task t change freely, the others only as in a quiet step,
\* and no other thread holds t.
Touches(S, t) ==
  /\ \A q \in Threads \ S :
       /\ cur'[q] = cur[q] /\ outcome'[q] = outcome[q]
       /\ pc'[q] = pc[q] \/ (pc[q] \in Free /\ pc'[q] \in Free)
       /\ pc[q] \in Holding => cur[q] # t
       /\ pc[q] = "signalRunning" /\ cur[q] = t =>
            cancelReason'[t] # "Ok" /\ submission'[t] = "accepted"
  /\ \A q \in S : pc'[q] \in Holding => cur'[q] = t
  /\ \A u \in Tasks \ {t} :
       /\ u \in list' <=> u \in list
       /\ submission'[u] = submission[u] /\ phase'[u] = phase[u] /\ token'[u] = token[u]
       /\ terminal'[u] = terminal[u] /\ completions'[u] = completions[u]
       /\ result'[u] = result[u]
       /\ cancelReason'[u] = cancelReason[u]
            \/ (cancelReason[u] = "Ok" /\ phase[u] \in {"Queued", "Running"})

\* A leaf is for Zenon, which has 60 seconds, unless it names another prover.
USE ZenonT(60)

\* Quiet steps (waits, notifications, cancellation requests, clock) preserve Shape.
LEMMA QuietStep == ASSUME Shape, Quiet PROVE Shape'
<1>1. Types'
  BY DEF Shape, Types, Quiet, PlaceTypes, StageTypes, ReasonTypes
<1>2. ASSUME NEW t \in Tasks PROVE TaskAt(t)'
  <2>1. TaskAt(t)
    BY DEF Shape, TaskShape
  <2> QED BY <2>1 DEF Quiet, TaskAt, Accepted
<1>3. ASSUME NEW p \in Threads PROVE ThreadAt(p)'
  <2>1. ThreadAt(p) /\ (cur[p] \in Tasks => TaskAt(cur[p]))
    BY DEF Shape, TaskShape, ThreadShape
  <2> QED BY SMTT(30), <2>1 DEF Quiet, ThreadAt, Holding, Free, Accepted
<1>4. SoleHolder'
  BY SMTT(30) DEF Shape, SoleHolder, Quiet, Holding, Free
<1> QED BY <1>1, <1>2, <1>3, <1>4 DEF Shape, TaskShape, ThreadShape

\* A step that touches one task has only that task and its thread to look after.
LEMMA TouchStep ==
  ASSUME Shape, NEW S \in SUBSET Threads, NEW t \in Tasks, Touches(S, t), Types', TaskAt(t)',
         \A p \in S : ThreadAt(p)', \A p, q \in S : p = q
  PROVE  Shape'
<1>1. ASSUME NEW u \in Tasks \ {t} PROVE TaskAt(u)'
  <2>1. TaskAt(u)
    BY DEF Shape, TaskShape
  <2> QED BY <2>1 DEF Touches, TaskAt
<1>2. ASSUME NEW q \in Threads \ S PROVE ThreadAt(q)'
  <2>1. ThreadAt(q)
    BY DEF Shape, ThreadShape
  <2> QED BY SMTT(30), <2>1 DEF Touches, ThreadAt, Holding, Free
<1>3. SoleHolder'
  BY SMTT(30) DEF Shape, SoleHolder, Touches, Holding, Free
<1> QED BY <1>1, <1>2, <1>3 DEF Shape, TaskShape, ThreadShape

\* The coordinator is a thread of its own.
LEMMA ThreadMembers ==
  /\ Coordinator \in Threads /\ Coordinator \notin Workers
  /\ \A w \in Workers : w \in Threads /\ w # Coordinator
BY TaskExecutorAssumption DEF Threads

\* notify_all moves only waiting threads.
LEMMA NotifyFacts ==
  ASSUME PlaceTypes
  PROVE  /\ NotifyAll(pc) \in [Threads -> Places]
         /\ \A p \in Threads : NotifyAll(pc)[p] = pc[p]
                                 \/ (pc[p] \in Free /\ NotifyAll(pc)[p] \in Free)
BY DEF PlaceTypes, NotifyAll, Free, Holding, Places

\* Observing cancellation never overwrites a reason.
LEMMA ObserveFacts ==
  ASSUME ReasonTypes, NEW t \in Tasks
  PROVE  /\ Observed(t) \in Reasons
         /\ Observed(t) = cancelReason[t] \/ cancelReason[t] = "Ok"
BY DEF ReasonTypes, Observed, Reasons

\* Observing a part of the list gives reasons to unfinished tasks only.
LEMMA ObserveAllFacts ==
  ASSUME Shape, NEW S \in SUBSET list
  PROVE  /\ ObserveAll(S) \in [Tasks -> Reasons]
         /\ \A t \in Tasks : ObserveAll(S)[t] = cancelReason[t]
                 \/ (cancelReason[t] = "Ok" /\ phase[t] \in {"Queued", "Running"})
<1>1. ReasonTypes /\ \A t \in list : t \in Tasks /\ phase[t] \in {"Queued", "Running"}
  BY DEF Shape, Types, StageTypes, TaskShape, TaskAt
<1> QED BY <1>1, ObserveFacts DEF ObserveAll, ReasonTypes

-----------------------------------------------------------------------------
(* The quiet actions.                                                      *)

\* RequestStop only adds reasons to listed tasks and wakes the threads.
LEMMA StopEffectQuiet == ASSUME Shape, StopEffect PROVE Quiet
<1>1. PlaceTypes /\ ReasonTypes /\ \A t \in list : t \in Tasks /\ phase[t] \in {"Queued", "Running"}
  BY DEF Shape, Types, StageTypes, TaskShape, TaskAt
<1>2. /\ cancelReason' \in [Tasks -> Reasons]
      /\ \A t \in Tasks : cancelReason'[t] = cancelReason[t]
                            \/ (cancelReason[t] = "Ok" /\ phase[t] \in {"Queued", "Running"})
  BY <1>1, ObserveFacts DEF StopEffect, StopReason, ReasonTypes, Reasons
<1>3. pc' = NotifyAll(pc) /\ UNCHANGED <<cur, outcome, submission, list, phase, token, terminal, result, completions>>
  BY DEF StopEffect
<1> QED BY <1>1, <1>2, <1>3, NotifyFacts DEF Quiet, PlaceTypes, ReasonTypes, Free

\* A step that leaves the tasks alone and moves free threads is quiet.
LEMMA IdleQuiet ==
  ASSUME Shape, UNCHANGED taskVars, UNCHANGED <<cur, outcome, completions>>,
         pc' \in [Threads -> Places],
         \A p \in Threads : pc'[p] = pc[p] \/ (pc[p] \in Free /\ pc'[p] \in Free)
  PROVE  Quiet
BY DEF Shape, Types, PlaceTypes, ReasonTypes, Quiet, taskVars, Free

\* Every action that does not take, finish or publish a task is quiet.
LEMMA QuietActions ==
  ASSUME Shape, Next
  PROVE  \/ Quiet
         \/ \E t \in Tasks : SubmitPrepare(t) \/ SubmitAdmit(t)
                               \/ (CoordinatorSelect(t) /\ RetiresHere(t))
         \/ \E w \in Workers : WorkerFinish(w) \/ (\E t \in Tasks : WorkerTake(w, t))
                                 \/ (\E r \in JobResults : JobReturns(w, r))
         \/ \E p \in Threads : Publish(p)
<1>0. PlaceTypes /\ ReasonTypes /\ StageTypes
  BY DEF Shape, Types
<1>1. CASE LifeCycle
  <2>1. CASE StartBegin \/ JoinDone
    BY <1>0, <2>1, IdleQuiet DEF StartBegin, JoinDone, threadVars, PlaceTypes
  <2>2. ASSUME NEW p \in Threads, Spawn(p) PROVE Quiet
    BY <1>0, <2>2, IdleQuiet DEF Spawn, PlaceTypes, Places, Free, Holding
  <2>3. CASE StartReady
    BY <1>0, <2>3, IdleQuiet, NotifyFacts DEF StartReady
  <2>4. CASE StartFail \/ RequestStop \/ StopBegin
    BY <2>4, StopEffectQuiet DEF StartFail, RequestStop, StopBegin
  <2> QED BY <1>1, <2>1, <2>2, <2>3, <2>4 DEF LifeCycle
<1>2. ASSUME NEW t \in Tasks, \/ RequestCancel(t) \/ ParentStops(t)
                              \/ ParentCallback(t) \/ DeadlinePasses(t)
      PROVE  Quiet
  <2>1. CASE RequestCancel(t) \/ ParentCallback(t)
    <3>1. /\ pc' = NotifyAll(pc) /\ cancelReason[t] = "Ok" /\ phase[t] \in {"Queued", "Running"}
          /\ cancelReason' = [cancelReason EXCEPT ![t] = CancelCode(t)]
          /\ UNCHANGED <<cur, outcome, submission, list, phase, terminal, result, completions>>
      BY <1>0, <2>1 DEF RequestCancel, ParentCallback, Cancellable, StageTypes, Phases
    <3>2. CancelCode(t) \in Reasons /\ CancelCode(t) # "Ok"
      BY DEF CancelCode, Reasons
    <3>3. token' = token \/ (t \in Accepted /\ token' = [token EXCEPT ![t] = TRUE])
      BY <2>1 DEF RequestCancel, ParentCallback, Accepted
    <3> QED BY <1>0, <3>1, <3>2, <3>3, NotifyFacts DEF Quiet, PlaceTypes, ReasonTypes, Free
  <2>2. CASE ParentStops(t) \/ DeadlinePasses(t)
    BY <1>0, <2>2, IdleQuiet DEF ParentStops, DeadlinePasses, threadVars, PlaceTypes
  <2> QED BY <1>2, <2>1, <2>2
<1>3. CASE CoordinatorExit \/ CoordinatorTimeout
  BY <1>0, <1>3, ThreadMembers, IdleQuiet
     DEF CoordinatorExit, CoordinatorTimeout, PlaceTypes, Places, Free, Holding
<1>4. CASE CoordinatorWait
  <2>1. /\ cancelReason' = ObserveAll(list) /\ pc[Coordinator] = "scan"
        /\ \E d \in {"wait", "timedWait"} : pc' = [pc EXCEPT ![Coordinator] = d]
        /\ UNCHANGED <<cur, outcome, submission, list, phase, token, terminal, result, completions>>
    BY <1>4 DEF CoordinatorWait
  <2> QED BY <1>0, <2>1, ObserveAllFacts, ThreadMembers
             DEF Quiet, PlaceTypes, ReasonTypes, Places, Free, Holding
<1>5. ASSUME NEW w \in Workers, WorkerExit(w) PROVE Quiet
  BY <1>0, <1>5, ThreadMembers, IdleQuiet DEF WorkerExit, PlaceTypes, Places, Free, Holding
<1>6. ASSUME NEW w \in Workers, WorkerWait(w) PROVE Quiet
  <2>1. QueuedIn(list) \in SUBSET list
    BY DEF QueuedIn
  <2>2. cancelReason' = ObserveAll(QueuedIn(list)) \/ cancelReason' = cancelReason
    BY <1>6 DEF WorkerWait
  <2>3. /\ pc[w] = "scan"
        /\ pc' = [pc EXCEPT ![w] = "wait"] \/ pc' = [NotifyAll(pc) EXCEPT ![w] = "wait"]
    BY <1>6 DEF WorkerWait, NotifyIfCancelled
  <2>4. /\ pc' \in [Threads -> Places]
        /\ \A p \in Threads : pc'[p] = pc[p] \/ (pc[p] \in Free /\ pc'[p] \in Free)
    BY <1>0, <2>3, NotifyFacts, ThreadMembers DEF PlaceTypes, Places, Free, Holding
  <2>5. UNCHANGED <<cur, outcome, submission, list, phase, token, terminal, result, completions>>
    BY <1>6 DEF WorkerWait
  <2> QED BY <1>0, <2>1, <2>2, <2>4, <2>5, ObserveAllFacts DEF Quiet, PlaceTypes, ReasonTypes, Free
<1>7. ASSUME NEW t \in Tasks, CoordinatorSelect(t), ~RetiresHere(t) PROVE Quiet
  <2>1. /\ pc[Coordinator] = "scan" /\ pc' = [pc EXCEPT ![Coordinator] = "signalRunning"]
        /\ cur' = [cur EXCEPT ![Coordinator] = t]
        /\ outcome' = [outcome EXCEPT ![Coordinator] = Observed(t)]
        /\ cancelReason' = ObserveAll(Before(t) \cup {t})
        /\ UNCHANGED <<submission, list, phase, token, terminal, result, completions>>
    BY <1>7 DEF CoordinatorSelect
  <2>2. t \in list /\ Observed(t) # "Ok" /\ Observed(t) \in Reasons /\ t \in Accepted
    BY <1>0, <1>7, ObserveFacts
       DEF CoordinatorSelect, IsFirst, Unsignalled, Shape, TaskShape, TaskAt, Accepted
  <2>3. Before(t) \cup {t} \in SUBSET list /\ ObserveAll(Before(t) \cup {t})[t] = Observed(t)
    BY <2>2 DEF Before, ObserveAll
  <2> QED BY <1>0, <2>1, <2>2, <2>3, ObserveAllFacts, ThreadMembers
             DEF Quiet, PlaceTypes, ReasonTypes, Places, Free, Holding
<1>8. CASE CoordinatorSignalRunning
  <2>1. ThreadAt(Coordinator)
    BY ThreadMembers DEF Shape, ThreadShape
  <2>2. /\ pc[Coordinator] = "signalRunning" /\ pc' = [pc EXCEPT ![Coordinator] = "scan"]
        /\ cur' = [cur EXCEPT ![Coordinator] = None]
        /\ outcome' = [outcome EXCEPT ![Coordinator] = "Ok"]
        /\ token' = [token EXCEPT ![cur[Coordinator]] = TRUE]
        /\ UNCHANGED <<submission, list, phase, cancelReason, terminal, result, completions>>
    BY <1>8 DEF CoordinatorSignalRunning
  <2>3. cur[Coordinator] \in Accepted /\ cancelReason[cur[Coordinator]] # "Ok"
    BY <2>1, <2>2 DEF ThreadAt, Accepted
  <2> QED BY <1>0, <2>2, <2>3, ThreadMembers
             DEF Quiet, PlaceTypes, ReasonTypes, Reasons, Places, Free, Holding
<1>9. CASE Terminated
  BY <1>0, <1>9, IdleQuiet DEF Terminated, vars, threadVars, PlaceTypes
<1> QED BY <1>1, <1>2, <1>3, <1>4, <1>5, <1>6, <1>7, <1>8, <1>9
           DEF Next, Caller, CoordinatorStep, Worker

\* The variables Shape does not mention keep their types.
LEMMA NumberStep == ASSUME Core, Next PROVE NumberTypes'
<1>0. NumberTypes /\ Bytes \in [Tasks -> Nat] /\ \A p \in Threads : pc[p] \in Holding => cur[p] \in Tasks
  BY TaskExecutorAssumption DEF Core, Shape, ThreadShape, ThreadAt
<1>1. CASE UNCHANGED <<stamp, accepted, completed, retained>>
  BY <1>0, <1>1 DEF NumberTypes
<1>2. ASSUME NEW t \in Tasks, SubmitAdmit(t), ~Reject(t) PROVE NumberTypes'
  BY SMTT(30), <1>0, <1>2 DEF SubmitAdmit, NumberTypes
<1>3. ASSUME NEW p \in Threads, Release(p) PROVE NumberTypes'
  <2>1. cur[p] \in Tasks /\ Bytes[cur[p]] \in Nat
    BY <1>0, <1>3 DEF Release, Holding
  <2>2. Freed(p) \in Nat
    BY <2>1 DEF Freed
  <2>3. /\ retained' = retained - Freed(p) /\ completed' = completed + 1
        /\ UNCHANGED <<stamp, accepted>>
    BY <1>3 DEF Release
  <2> QED BY SMTT(30), <1>0, <2>2, <2>3 DEF NumberTypes
<1>4. \/ UNCHANGED <<stamp, accepted, completed, retained>>
      \/ \E t \in Tasks : SubmitAdmit(t) /\ ~Reject(t)
      \/ \E p \in Threads : Release(p)
  <2> USE DEF taskVars, countVars
  <2>1. LifeCycle \/ Terminated => UNCHANGED <<stamp, accepted, completed, retained>>
    BY DEF LifeCycle, StartBegin, Spawn, StartReady, StopEffect, StartFail, RequestStop, StopBegin,
           JoinDone, Terminated, vars
  <2>2. ASSUME NEW t \in Tasks, \/ SubmitPrepare(t) \/ Reject(t) \/ RequestCancel(t)
                                \/ ParentStops(t) \/ ParentCallback(t) \/ DeadlinePasses(t)
        PROVE  UNCHANGED <<stamp, accepted, completed, retained>>
    BY <2>2 DEF SubmitPrepare, Reject, RequestCancel, ParentStops, ParentCallback, DeadlinePasses
  <2>3. CoordinatorStep => UNCHANGED <<stamp, accepted, completed, retained>>
    BY DEF CoordinatorStep, CoordinatorSelect, CoordinatorSignalRunning, CoordinatorExit,
           CoordinatorWait, CoordinatorTimeout
  <2>4. ASSUME NEW w \in Workers, Worker(w) \/ \E r \in JobResults : JobReturns(w, r)
        PROVE  UNCHANGED <<stamp, accepted, completed, retained>>
    BY <2>4 DEF Worker, WorkerExit, WorkerTake, WorkerWait, WorkerFinish, JobReturns
  <2>5. ASSUME NEW p \in Threads, Deliver(p) \/ Announce(p)
        PROVE  UNCHANGED <<stamp, accepted, completed, retained>>
    BY <2>5 DEF Deliver, Announce
  <2> QED BY <2>1, <2>2, <2>3, <2>4, <2>5 DEF Next, Caller, Publish
<1> QED BY <1>1, <1>2, <1>3, <1>4

\* So do the flags.
LEMMA FlagStep == ASSUME Core, Next PROVE FlagTypes'
<1>0. FlagTypes
  BY DEF Core
<1> USE DEF taskVars, envVars
<1>1. CASE LifeCycle \/ Terminated
  <2>1. UNCHANGED <<signalSent, registered, expired, parentStopped>>
    BY <1>1 DEF LifeCycle, StartBegin, Spawn, StartReady, StopEffect, StartFail, RequestStop,
                StopBegin, JoinDone, Terminated, vars
  <2> QED BY <1>0, <2>1 DEF FlagTypes
<1>2. CASE Caller
  <2> PICK t \in Tasks : \/ SubmitPrepare(t) \/ SubmitAdmit(t) \/ RequestCancel(t)
                         \/ ParentStops(t) \/ ParentCallback(t) \/ DeadlinePasses(t)
    BY <1>2 DEF Caller
  <2>1. /\ signalSent' = signalSent
        /\ \/ registered' = registered \/ registered' = [registered EXCEPT ![t] = FALSE]
           \/ registered' = [registered EXCEPT ![t] = t \in Parented]
        /\ expired' = expired \/ (t \in Timed /\ expired' = expired \cup {t})
        /\ parentStopped' = parentStopped \/ (t \in Parented /\ parentStopped' = parentStopped \cup {t})
    BY DEF SubmitPrepare, SubmitAdmit, Reject, RequestCancel, ParentStops, ParentCallback, DeadlinePasses
  <2>2. ASSUME NEW b \in BOOLEAN, registered' = [registered EXCEPT ![t] = b]
        PROVE  registered' \in [Tasks -> BOOLEAN]
    BY <1>0, <2>2 DEF FlagTypes
  <2>3. (t \in Parented) \in BOOLEAN /\ FALSE \in BOOLEAN
    BY SMTT(30)
  <2>4. registered' \in [Tasks -> BOOLEAN]
    BY <1>0, <2>1, <2>2, <2>3 DEF FlagTypes
  <2> QED BY <1>0, <2>1, <2>4 DEF FlagTypes
<1>3. CASE CoordinatorStep
  <2>1. /\ signalSent' = signalSent \/ \E t \in Tasks : signalSent' = [signalSent EXCEPT ![t] = TRUE]
        /\ UNCHANGED <<registered, expired, parentStopped>>
    BY <1>3 DEF CoordinatorStep, CoordinatorSelect, CoordinatorSignalRunning, CoordinatorExit,
                CoordinatorWait, CoordinatorTimeout
  <2> QED BY <1>0, <2>1 DEF FlagTypes
<1>4. ASSUME NEW w \in Workers, Worker(w) \/ \E r \in JobResults : JobReturns(w, r) PROVE FlagTypes'
  <2>1. UNCHANGED <<signalSent, registered, expired, parentStopped>>
    BY <1>4 DEF Worker, WorkerExit, WorkerTake, WorkerWait, WorkerFinish, JobReturns
  <2> QED BY <1>0, <2>1 DEF FlagTypes
<1>5. ASSUME NEW p \in Threads, Publish(p) PROVE FlagTypes'
  <2>1. /\ registered' = registered \/ registered' = [registered EXCEPT ![cur[p]] = FALSE]
        /\ UNCHANGED <<signalSent, expired, parentStopped>>
    BY <1>5 DEF Publish, Deliver, Release, Announce
  <2> QED BY <1>0, <2>1 DEF FlagTypes
<1> QED BY <1>1, <1>2, <1>3, <1>4, <1>5 DEF Next

-----------------------------------------------------------------------------
(* The actions that move a task.                                           *)

\* A task that was not accepted is in no thread's hands.
LEMMA Unheld ==
  ASSUME Shape, NEW t \in Tasks, submission[t] # "accepted"
  PROVE  /\ \A p \in Threads : pc[p] \in Holding \cup {"signalRunning"} => cur[p] # t
         /\ phase[t] = "Queued" /\ ~token[t] /\ ~terminal[t] /\ t \notin list /\ completions[t] = 0
<1>1. TaskAt(t) /\ \A p \in Threads : ThreadAt(p)
  BY DEF Shape, TaskShape, ThreadShape
<1> QED BY <1>1 DEF TaskAt, ThreadAt, Holding

\* Both critical sections of Submit preserve Shape.
LEMMA SubmitStep ==
  ASSUME Shape, NEW t \in Tasks, SubmitPrepare(t) \/ SubmitAdmit(t)
  PROVE  Shape'
<1>0. /\ PlaceTypes /\ StageTypes /\ ReasonTypes /\ TaskAt(t) /\ {} \in SUBSET Threads
      /\ submission[t] # "accepted"
  BY DEF Shape, Types, TaskShape, SubmitPrepare, SubmitAdmit
<1>1. CASE Reject(t)
  <2>1. /\ submission' = [submission EXCEPT ![t] = "rejected"]
        /\ UNCHANGED <<pc, cur, outcome, list, phase, cancelReason, token, terminal, result, completions>>
    BY <1>1 DEF Reject, threadVars
  <2>2. Touches({}, t)
    BY <1>0, <2>1, Unheld DEF Touches, StageTypes
  <2>3. Types' /\ TaskAt(t)'
    BY <1>0, <2>1 DEF Types, PlaceTypes, StageTypes, ReasonTypes, TaskAt
  <2> QED BY <1>0, <2>2, <2>3, TouchStep
<1>2. CASE ~Reject(t)
  <2>1. /\ pc' = pc \/ pc' = NotifyAll(pc)
        /\ UNCHANGED <<cur, outcome, phase, token, terminal, result, completions>>
        /\ \E c \in Reasons : cancelReason' = [cancelReason EXCEPT ![t] = c]
    BY <1>0, <1>2, ObserveFacts DEF SubmitPrepare, SubmitAdmit, CancelCode, ReasonTypes, Reasons
  <2>2. /\ pc' \in [Threads -> Places]
        /\ \A p \in Threads : pc'[p] = pc[p] \/ (pc[p] \in Free /\ pc'[p] \in Free)
    BY <1>0, <2>1, NotifyFacts DEF PlaceTypes
  <2>3. \/ submission' = [submission EXCEPT ![t] = "admit"] /\ list' = list
        \/ submission' = [submission EXCEPT ![t] = "accepted"] /\ list' = list \cup {t}
    BY <1>2 DEF SubmitPrepare, SubmitAdmit
  <2>4. Touches({}, t)
    BY <1>0, <2>1, <2>2, <2>3, Unheld DEF Touches, StageTypes, ReasonTypes
  <2>5. Types'
    BY <1>0, <2>1, <2>2, <2>3 DEF Types, PlaceTypes, StageTypes, ReasonTypes
  <2>6. TaskAt(t)'
    BY <1>0, <2>1, <2>3, Unheld DEF TaskAt, StageTypes, ReasonTypes
  <2> QED BY <1>0, <2>4, <2>5, <2>6, TouchStep
<1> QED BY <1>1, <1>2

\* A worker that takes a task preserves Shape.
LEMMA TakeStep ==
  ASSUME Core, NEW w \in Workers, NEW t \in Tasks, WorkerTake(w, t)
  PROVE  Shape'
<1>0. /\ Shape /\ PlaceTypes /\ StageTypes /\ ReasonTypes /\ TaskAt(t)
      /\ w \in Threads /\ {w} \in SUBSET Threads
  BY ThreadMembers DEF Core, Shape, Types, TaskShape
<1>1. /\ t \in list /\ phase[t] = "Queued" /\ cancelReason[t] = "Ok" /\ pc[w] = "scan"
      /\ cur' = [cur EXCEPT ![w] = t] /\ phase' = [phase EXCEPT ![t] = "Running"]
      /\ UNCHANGED <<outcome, submission, list, token, terminal, result, completions>>
  BY DEF WorkerTake, IsFirst, Eligible, Observed
<1>2. QueuedIn(Before(t)) \in SUBSET list /\ t \notin QueuedIn(Before(t))
  BY SMTT(30) DEF QueuedIn, Before, Core, NumberTypes
<1>3. /\ cancelReason' \in [Tasks -> Reasons] /\ cancelReason'[t] = "Ok"
      /\ \A u \in Tasks : cancelReason'[u] = cancelReason[u]
             \/ (cancelReason[u] = "Ok" /\ phase[u] \in {"Queued", "Running"})
  <2>1. ObserveAll(QueuedIn(Before(t)))[t] = cancelReason[t]
    BY <1>2 DEF ObserveAll
  <2> QED BY <1>0, <1>1, <1>2, <2>1, ObserveAllFacts DEF WorkerTake
<1>4. /\ pc' \in [Threads -> Places] /\ pc'[w] = "run"
      /\ \A p \in Threads \ {w} : pc'[p] = pc[p] \/ (pc[p] \in Free /\ pc'[p] \in Free)
  <2>1. pc' = [pc EXCEPT ![w] = "run"] \/ pc' = [NotifyAll(pc) EXCEPT ![w] = "run"]
    BY DEF WorkerTake, NotifyIfCancelled
  <2> QED BY <1>0, <2>1, NotifyFacts DEF PlaceTypes, Places
<1>5. \A p \in Threads : /\ pc[p] \in Holding => cur[p] # t
                         /\ pc[p] = "signalRunning" => cur[p] # t
  BY <1>0, <1>1 DEF Shape, ThreadShape, ThreadAt, Holding
<1>6. Touches({w}, t)
  BY <1>0, <1>1, <1>3, <1>4, <1>5 DEF Touches, PlaceTypes, StageTypes
<1>7. Types' /\ TaskAt(t)'
  BY <1>0, <1>1, <1>3, <1>4 DEF Types, PlaceTypes, StageTypes, ReasonTypes, Phases, TaskAt
<1>8. ThreadAt(w)'
  BY <1>0, <1>1, <1>4 DEF ThreadAt, PlaceTypes, StageTypes
<1> QED BY <1>0, <1>6, <1>7, <1>8, TouchStep

\* The facts every step of the thread that holds a task starts from.
LEMMA HolderFacts ==
  ASSUME Shape, NEW p \in Threads, pc[p] \in Holding
  PROVE  /\ PlaceTypes /\ StageTypes /\ ReasonTypes /\ {p} \in SUBSET Threads
         /\ cur[p] \in Tasks /\ TaskAt(cur[p]) /\ ThreadAt(p)
         /\ \A q \in Threads \ {p} : pc[q] \in Holding => cur[q] # cur[p]
         /\ \A q \in Threads : pc[q] = "signalRunning" =>
              cancelReason[cur[q]] # "Ok" /\ submission[cur[q]] = "accepted"
BY DEF Shape, Types, TaskShape, ThreadShape, SoleHolder, ThreadAt, Holding

\* Running and finishing a job preserves Shape.
LEMMA JobStep ==
  ASSUME Shape, NEW w \in Workers,
         WorkerFinish(w) \/ (\E r \in JobResults : JobReturns(w, r))
  PROVE  Shape'
<1>0. w \in Threads /\ pc[w] \in Holding
  BY ThreadMembers DEF WorkerFinish, JobReturns, Holding
<1> PICK t : t = cur[w]
  OBVIOUS
<1>1. /\ PlaceTypes /\ StageTypes /\ ReasonTypes /\ {w} \in SUBSET Threads
      /\ t = cur[w] /\ t \in Tasks /\ TaskAt(t) /\ ThreadAt(w)
      /\ \A q \in Threads \ {w} : pc[q] \in Holding => cur[q] # t
      /\ \A q \in Threads : pc[q] = "signalRunning" =>
           cancelReason[cur[q]] # "Ok" /\ submission[cur[q]] = "accepted"
  BY <1>0, HolderFacts
<1>2. ASSUME NEW r \in JobResults, JobReturns(w, r) PROVE Shape'
  <2>1. /\ pc[w] = "run" /\ pc' = [pc EXCEPT ![w] = "finish"]
        /\ outcome' = [outcome EXCEPT ![w] = r] /\ cur' = cur
        /\ UNCHANGED <<submission, list, phase, cancelReason, token, terminal, result, completions>>
    BY <1>2 DEF JobReturns, taskVars
  <2>3. Touches({w}, t)
    BY <1>0, <1>1, <2>1 DEF Touches, PlaceTypes
  <2>4. Types' /\ TaskAt(t)'
    BY <1>0, <1>1, <2>1 DEF Types, PlaceTypes, StageTypes, ReasonTypes, Places, TaskAt
  <2>5. ThreadAt(w)'
    BY <1>0, <1>1, <2>1 DEF ThreadAt, PlaceTypes, Holding
  <2> QED BY <1>1, <2>3, <2>4, <2>5, TouchStep
<1>3. CASE WorkerFinish(w)
  <2>1. PICK c : c = Observed(t)
    OBVIOUS
  <2>2. c \in Reasons /\ (c = cancelReason[t] \/ cancelReason[t] = "Ok")
    BY <1>1, <2>1, ObserveFacts
  <2>3. /\ pc[w] = "finish" /\ pc' = [pc EXCEPT ![w] = "deliver"] /\ cur' = cur
        /\ cancelReason' = [cancelReason EXCEPT ![t] = c]
        /\ outcome' = [outcome EXCEPT ![w] = IF c # "Ok" THEN c ELSE @]
        /\ phase' = [phase EXCEPT ![t] = "Completing"] /\ list' = list \ {t}
        /\ UNCHANGED <<submission, token, terminal, result, completions>>
    BY <1>1, <1>3, <2>1 DEF WorkerFinish
  <2>5. Touches({w}, t)
    BY <1>0, <1>1, <2>2, <2>3 DEF Touches, PlaceTypes, StageTypes, ReasonTypes
  <2>6. Types'
    BY <1>0, <1>1, <2>2, <2>3 DEF Types, PlaceTypes, StageTypes, ReasonTypes, Places, Phases
  <2>7. TaskAt(t)'
    BY <1>0, <1>1, <2>2, <2>3 DEF TaskAt, ThreadAt, StageTypes, ReasonTypes
  <2>8. ThreadAt(w)'
    BY <1>0, <1>1, <2>2, <2>3 DEF ThreadAt, TaskAt, PlaceTypes, StageTypes, ReasonTypes, Holding
  <2> QED BY <1>1, <2>5, <2>6, <2>7, <2>8, TouchStep
<1> QED BY <1>2, <1>3

\* A coordinator that retires a queued task preserves Shape.
LEMMA RetireStep ==
  ASSUME Shape, NEW t \in Tasks, CoordinatorSelect(t), RetiresHere(t)
  PROVE  Shape'
<1> DEFINE C == Coordinator
<1>0. /\ PlaceTypes /\ StageTypes /\ ReasonTypes /\ TaskAt(t) /\ C \in Threads /\ {C} \in SUBSET Threads
      /\ phase[t] = "Queued"
  BY ThreadMembers DEF Shape, Types, TaskShape, RetiresHere
<1>1. PICK c : c = Observed(t)
  OBVIOUS
<1>2. t \in list /\ c \in Reasons /\ c # "Ok"
  BY <1>0, <1>1, ObserveFacts DEF CoordinatorSelect, IsFirst, Unsignalled
<1>3. /\ pc[C] = "scan" /\ pc' = [pc EXCEPT ![C] = "deliver"] /\ cur' = [cur EXCEPT ![C] = t]
      /\ outcome' = [outcome EXCEPT ![C] = c] /\ cancelReason' = ObserveAll(Before(t) \cup {t})
      /\ phase' = [phase EXCEPT ![t] = "Completing"] /\ list' = list \ {t}
      /\ UNCHANGED <<submission, token, terminal, result, completions>>
  BY <1>1 DEF CoordinatorSelect
<1>4. Before(t) \cup {t} \in SUBSET list /\ ObserveAll(Before(t) \cup {t})[t] = c
  BY <1>1, <1>2 DEF Before, ObserveAll
<1>5. /\ cancelReason' \in [Tasks -> Reasons] /\ cancelReason'[t] = c
      /\ \A u \in Tasks : cancelReason'[u] = cancelReason[u]
             \/ (cancelReason[u] = "Ok" /\ phase[u] \in {"Queued", "Running"})
  BY <1>3, <1>4, ObserveAllFacts
<1>6. \A p \in Threads : /\ pc[p] \in Holding => cur[p] # t
                         /\ pc[p] = "signalRunning" => p = C
  BY <1>0 DEF Shape, ThreadShape, ThreadAt, Holding
<1> HIDE DEF C
<1>7. Touches({C}, t)
  BY <1>0, <1>2, <1>3, <1>5, <1>6 DEF Touches, PlaceTypes, StageTypes
<1>8. Types'
  BY <1>0, <1>2, <1>3, <1>5 DEF Types, PlaceTypes, StageTypes, ReasonTypes, Places, Phases
<1>9. TaskAt(t)'
  BY <1>0, <1>2, <1>3, <1>5 DEF TaskAt, StageTypes
<1>10. ThreadAt(C)'
  BY <1>0, <1>2, <1>3, <1>5 DEF ThreadAt, TaskAt, PlaceTypes, StageTypes, Holding
<1> QED BY <1>0, <1>7, <1>8, <1>9, <1>10, TouchStep

\* The three parts of Publish preserve Shape.
LEMMA PublishStep ==
  ASSUME Shape, NEW p \in Threads, Publish(p)
  PROVE  Shape'
<1>0. pc[p] \in Holding
  BY DEF Publish, Deliver, Release, Announce, Holding
<1> PICK t : t = cur[p]
  OBVIOUS
<1>1. /\ PlaceTypes /\ StageTypes /\ ReasonTypes /\ {p} \in SUBSET Threads
      /\ t = cur[p] /\ t \in Tasks /\ TaskAt(t) /\ ThreadAt(p)
      /\ \A q \in Threads \ {p} : pc[q] \in Holding => cur[q] # t
      /\ \A q \in Threads : pc[q] = "signalRunning" =>
           cancelReason[cur[q]] # "Ok" /\ submission[cur[q]] = "accepted"
  BY <1>0, HolderFacts
<1>2. CASE Deliver(p)
  <2>1. /\ pc[p] = "deliver" /\ pc' = [pc EXCEPT ![p] = "release"]
        /\ completions' = [completions EXCEPT ![t] = @ + 1]
        /\ UNCHANGED <<cur, outcome, submission, list, phase, cancelReason, terminal, result>>
    BY <1>1, <1>2 DEF Deliver
  <2>2. /\ token' \in [Tasks -> BOOLEAN] /\ \A u \in Tasks \ {t} : token'[u] = token[u]
        /\ token'[t] => token[t] \/ outcome[p] \in {"Cancelled", "Timeout"}
    <3>1. token' = [token EXCEPT ![t] = @ \/ outcome[p] \in {"Cancelled", "Timeout"}]
      BY <1>1, <1>2 DEF Deliver
    <3> QED BY <1>1, <3>1 DEF ReasonTypes
  <2>3. Touches({p}, t)
    BY <1>1, <2>1, <2>2 DEF Touches, PlaceTypes, StageTypes
  <2>4. Types'
    <3>1. PlaceTypes' /\ ReasonTypes'
      BY <1>1, <2>1, <2>2 DEF PlaceTypes, ReasonTypes, Places
    <3>2. completions' \in [Tasks -> Nat]
      <4>1. t \in Tasks /\ completions \in [Tasks -> Nat] /\ completions' = [completions EXCEPT ![t] = @ + 1]
        BY <1>1, <2>1 DEF StageTypes
      <4> QED BY SMTT(30), <4>1
    <3>3. StageTypes'
      BY <1>1, <2>1, <3>2 DEF StageTypes
    <3> QED BY <3>1, <3>3 DEF Types
  <2>5. TaskAt(t)'
    <3>1. phase[t] = "Completing" /\ completions[t] = 0 /\ submission[t] = "accepted" /\ ~terminal[t]
      BY <1>1, <2>1 DEF TaskAt, ThreadAt
    <3>2. completions'[t] = 1
      <4>1. completions \in [Tasks -> Nat]
        BY <1>1 DEF StageTypes
      <4>2. t \in Tasks /\ completions[t] = 0
        BY <1>1, <3>1
      <4>3. completions' = [completions EXCEPT ![t] = @ + 1]
        BY <2>1
      <4> QED BY SMTT(30), <4>1, <4>2, <4>3
    <3>3. token'[t] => cancelReason[t] # "Ok"
      BY <1>1, <2>1, <2>2 DEF TaskAt, ThreadAt, JobResults
    <3> QED BY <1>1, <2>1, <3>1, <3>2, <3>3 DEF TaskAt
  <2>6. ThreadAt(p)'
    BY SMTT(30), <1>1, <2>1 DEF ThreadAt, TaskAt, PlaceTypes, StageTypes, Holding
  <2> QED BY <1>1, <2>3, <2>4, <2>5, <2>6, TouchStep
<1>3. CASE Release(p)
  <2>1. /\ pc[p] = "release" /\ pc' = [pc EXCEPT ![p] = "announce"]
        /\ phase' = [phase EXCEPT ![t] = "Terminal"]
        /\ UNCHANGED <<cur, outcome, submission, list, cancelReason, token, terminal, result, completions>>
    BY <1>1, <1>3 DEF Release
  <2>2. Touches({p}, t)
    BY <1>1, <2>1 DEF Touches, PlaceTypes, StageTypes
  <2>3. Types'
    BY <1>1, <2>1 DEF Types, PlaceTypes, StageTypes, ReasonTypes, Places, Phases
  <2>4. TaskAt(t)'
    BY <1>1, <2>1 DEF TaskAt, ThreadAt, StageTypes
  <2>5. ThreadAt(p)'
    BY <1>1, <2>1 DEF ThreadAt, TaskAt, PlaceTypes, StageTypes, Holding
  <2> QED BY <1>1, <2>2, <2>3, <2>4, <2>5, TouchStep
<1>4. CASE Announce(p)
  <2>1. /\ pc[p] = "announce" /\ pc' = [NotifyAll(pc) EXCEPT ![p] = "scan"]
        /\ terminal' = [terminal EXCEPT ![t] = TRUE]
        /\ result' = [result EXCEPT ![t] = outcome[p]]
        /\ cur' = [cur EXCEPT ![p] = None] /\ outcome' = [outcome EXCEPT ![p] = "Ok"]
        /\ UNCHANGED <<submission, list, phase, cancelReason, token, completions>>
    BY <1>1, <1>4 DEF Announce
  <2>2. /\ pc' \in [Threads -> Places] /\ pc'[p] = "scan"
        /\ \A q \in Threads \ {p} : pc'[q] = pc[q] \/ (pc[q] \in Free /\ pc'[q] \in Free)
    BY <1>1, <2>1, NotifyFacts DEF Places
  <2>3. terminal' \in [Tasks -> BOOLEAN] /\ \A u \in Tasks \ {t} : terminal'[u] = terminal[u]
    BY <1>1, <2>1 DEF StageTypes
  <2>4. Touches({p}, t)
    BY <1>1, <2>1, <2>2, <2>3 DEF Touches, PlaceTypes, ReasonTypes, Holding
  <2>5. Types'
    BY <1>1, <2>1, <2>2, <2>3 DEF Types, PlaceTypes, StageTypes, ReasonTypes, Reasons
  <2>6. TaskAt(t)'
    BY <1>1, <2>1, <2>3 DEF TaskAt, ThreadAt, ReasonTypes
  <2>7. ThreadAt(p)'
    BY <2>2 DEF ThreadAt, Holding
  <2> QED BY <1>1, <2>4, <2>5, <2>6, <2>7, TouchStep
<1> QED BY <1>2, <1>3, <1>4 DEF Publish

\* Core is inductive.
LEMMA CoreStep == Core /\ [Next]_vars => Core'
<1>1. ASSUME Core, Next PROVE Core'
  BY <1>1, QuietActions, QuietStep, SubmitStep, TakeStep, JobStep, RetireStep, PublishStep, NumberStep, FlagStep
     DEF Core
<1>2. ASSUME Core, UNCHANGED vars PROVE Core'
  <2>1. NumberTypes' /\ FlagTypes' /\ Quiet
    BY <1>2, IdleQuiet DEF Core, Shape, Types, vars, threadVars, taskVars, countVars, envVars,
                           NumberTypes, FlagTypes, PlaceTypes
  <2> QED BY <1>2, <2>1, QuietStep DEF Core
<1> QED BY <1>1, <1>2

\* A fresh executor satisfies Core.
LEMMA CoreInit == Init => Core
BY SMTT(30), TaskExecutorAssumption DEF Init, Core, Shape, Types, PlaceTypes, StageTypes, ReasonTypes,
   NumberTypes, FlagTypes, TaskShape, TaskAt, ThreadShape, ThreadAt, SoleHolder, Holding, Places, Phases,
   Reasons, JobResults

\* Publish runs a task's completion exactly once before its handle is terminal,
\* and never for a rejected submission, whichever thread retires the task.
THEOREM CompletionRunsOnce == Spec => []CompletionOnce
<1>1. Core => CompletionOnce
  BY SMTT(30) DEF Core, Shape, Types, CompletionOnce, TaskShape, TaskAt, StageTypes, Phases, Accepted
<1> QED BY CoreInit, CoreStep, <1>1, PTL DEF Spec

\* The first cancellation reason recorded under the mutex is the published
\* result, and a stopped token always has a reason.
THEOREM FirstReasonIsPublished == Spec => []FirstReasonWins
<1>1. Core => FirstReasonWins
  BY DEF Core, Shape, TaskShape, TaskAt, FirstReasonWins
<1> QED BY CoreInit, CoreStep, <1>1, PTL DEF Spec

\* Run starts tasks in the order Submit admitted them; a task that is overtaken
\* already has a cancellation reason.
THEOREM StartOrder == Spec => StartsInOrder
<1> DEFINE Step == \A t, u \in list :
       (phase[t] = "Queued" /\ phase'[t] = "Running" /\ stamp[u] < stamp[t] /\ phase[u] = "Queued")
         => cancelReason'[u] # "Ok"
<1>1. ASSUME Core, [Next]_vars PROVE [Step]_vars
  <2>0. Shape /\ StageTypes /\ NumberTypes
    BY <1>1 DEF Core, Shape, Types
  <2>1. CASE UNCHANGED phase
    BY <2>1
  <2>2. ASSUME NEW t \in Tasks, phase' = [phase EXCEPT ![t] = "Completing"] \/ phase' = [phase EXCEPT ![t] = "Terminal"]
        PROVE  Step
    BY <2>0, <2>2 DEF StageTypes
  <2>3. ASSUME NEW w \in Workers, NEW t \in Tasks, WorkerTake(w, t) PROVE Step
    <3>1. \A u \in list : stamp[u] < stamp[t] /\ phase[u] = "Queued" => cancelReason'[u] # "Ok"
      BY SMTT(30), <2>0, <2>3 DEF WorkerTake, IsFirst, Eligible, ObserveAll, QueuedIn, Before, StageTypes, NumberTypes
    <3>2. \A u \in list \ {t} : phase'[u] = phase[u]
      BY <2>0, <2>3 DEF WorkerTake, StageTypes
    <3> QED BY <3>1, <3>2
  <2>4. ASSUME Next PROVE \/ UNCHANGED phase
                          \/ \E t \in Tasks : \/ phase' = [phase EXCEPT ![t] = "Completing"]
                                              \/ phase' = [phase EXCEPT ![t] = "Terminal"]
                          \/ \E w \in Workers, t \in Tasks : WorkerTake(w, t)
    <3>1. \A p \in Threads : pc[p] \in Holding => cur[p] \in Tasks
      BY <2>0 DEF Shape, ThreadShape, ThreadAt
    <3>2. ASSUME NEW t \in Tasks, SubmitPrepare(t) \/ SubmitAdmit(t) PROVE UNCHANGED phase
      BY <3>2 DEF SubmitPrepare, SubmitAdmit, Reject
    <3>3. ASSUME NEW t \in Tasks, CoordinatorSelect(t), RetiresHere(t)
          PROVE  phase' = [phase EXCEPT ![t] = "Completing"]
      BY <3>3 DEF CoordinatorSelect
    <3>4. ASSUME NEW w \in Workers, WorkerFinish(w)
          PROVE  \E t \in Tasks : phase' = [phase EXCEPT ![t] = "Completing"]
      BY <3>1, <3>4, ThreadMembers DEF WorkerFinish, Holding
    <3>5. ASSUME NEW w \in Workers, NEW r \in JobResults, JobReturns(w, r) PROVE UNCHANGED phase
      BY <3>5 DEF JobReturns, taskVars
    <3>6. ASSUME NEW p \in Threads, Publish(p)
          PROVE  UNCHANGED phase \/ \E t \in Tasks : phase' = [phase EXCEPT ![t] = "Terminal"]
      BY <3>1, <3>6 DEF Publish, Deliver, Release, Announce, Holding
    <3>7. Quiet => UNCHANGED phase
      BY DEF Quiet
    <3> QED BY <2>0, <2>4, <3>2, <3>3, <3>4, <3>5, <3>6, <3>7, QuietActions
  <2> HIDE DEF Step
  <2> QED BY <1>1, <2>1, <2>2, <2>3, <2>4
<1> QED BY CoreInit, CoreStep, <1>1, PTL DEF Spec, StartsInOrder

-----------------------------------------------------------------------------
(* Counting.                                                               *)

Waiting == {t \in list : phase[t] = "Queued"}
Executing == {t \in list : phase[t] = "Running"}

\* The three sets are finite, so their cardinalities are natural numbers.
LEMMA CountedFinite ==
  ASSUME Shape
  PROVE  /\ IsFiniteSet(Waiting) /\ IsFiniteSet(Executing) /\ IsFiniteSet(Live)
         /\ Cardinality(Waiting) \in Nat /\ Cardinality(Executing) \in Nat
         /\ Cardinality(Live) \in Nat
<1>1. Waiting \in SUBSET Tasks /\ Executing \in SUBSET Tasks /\ Live \in SUBSET Tasks
  BY DEF Shape, Types, StageTypes, Waiting, Executing, Live, Accepted
<1> QED BY <1>1, TaskExecutorAssumption, FS_Subset, FS_CardinalityType

\* Moving one element between the sets moves the counters by one.
LEMMA OneMore ==
  ASSUME NEW S, IsFiniteSet(S), NEW x
  PROVE  /\ x \notin S => Cardinality(S \cup {x}) = Cardinality(S) + 1
         /\ x \in S => Cardinality(S \ {x}) = Cardinality(S) - 1
BY FS_AddElement, FS_RemoveElement

\* pending, running and accepted count exactly the tasks they stand for.
LEMMA CountsStep == Core /\ CountersAgree /\ [Next]_vars => CountersAgree'
<1> SUFFICES ASSUME Core, CountersAgree, [Next]_vars PROVE CountersAgree'
  OBVIOUS
<1>0. Shape /\ StageTypes /\ MaxPending \in Nat
  BY TaskExecutorAssumption DEF Core, Shape, Types
<1>1. /\ pending = Cardinality(Waiting) /\ running = Cardinality(Executing)
      /\ accepted = completed + Cardinality(Live) /\ pending <= MaxPending
      /\ pending \in Nat /\ running \in Nat /\ accepted \in Nat /\ completed \in Nat
      /\ Cardinality(Live) \in Nat
  BY <1>0, CountedFinite DEF CountersAgree, Waiting, Executing, Core, NumberTypes
<1>2. SUFFICES /\ pending' = Cardinality(Waiting') /\ running' = Cardinality(Executing')
               /\ accepted' = completed' + Cardinality(Live') /\ pending' <= MaxPending
  BY DEF CountersAgree, Waiting, Executing
<1>f. IsFiniteSet(Waiting) /\ IsFiniteSet(Executing) /\ IsFiniteSet(Live)
  BY <1>0, CountedFinite
<1> DEFINE Goal == /\ pending' = Cardinality(Waiting') /\ running' = Cardinality(Executing')
                   /\ accepted' = completed' + Cardinality(Live') /\ pending' <= MaxPending
           Same == /\ UNCHANGED <<submission, list, phase>>
                   /\ UNCHANGED <<pending, running, accepted, completed>>
<1>3. ASSUME Same PROVE Goal
  BY <1>1, <1>3 DEF Waiting, Executing, Live, Accepted
<1>4. ASSUME NEW t \in Tasks, SubmitPrepare(t) \/ SubmitAdmit(t), Reject(t) \/ SubmitPrepare(t) PROVE Goal
  <2>1. /\ \E s \in {"admit", "rejected"} : submission' = [submission EXCEPT ![t] = s]
        /\ submission[t] # "accepted" /\ UNCHANGED <<list, phase, pending, running, accepted, completed>>
    BY <1>4 DEF SubmitPrepare, SubmitAdmit, Reject, countVars
  <2>2. Live' = Live
    BY <1>0, <2>1 DEF Live, Accepted, StageTypes
  <2> QED BY <1>1, <2>1, <2>2 DEF Waiting, Executing
<1>5. ASSUME NEW t \in Tasks, SubmitAdmit(t), ~Reject(t) PROVE Goal
  <2>1. /\ submission[t] # "accepted" /\ pending < MaxPending /\ pending' = pending + 1
        /\ running' = running /\ accepted' = accepted + 1 /\ completed' = completed
        /\ submission' = [submission EXCEPT ![t] = "accepted"] /\ list' = list \cup {t} /\ phase' = phase
    BY <1>5 DEF SubmitAdmit, Admissible
  <2>2. t \notin list /\ phase[t] = "Queued"
    BY <1>0, <2>1, Unheld
  <2>3. /\ Waiting' = Waiting \cup {t} /\ Executing' = Executing /\ Live' = Live \cup {t}
        /\ t \notin Waiting /\ t \notin Live
    BY SMTT(30), <1>0, <2>1, <2>2 DEF Waiting, Executing, Live, Accepted, StageTypes
  <2>4. Cardinality(Waiting') = Cardinality(Waiting) + 1 /\ Cardinality(Live') = Cardinality(Live) + 1
    BY <1>f, <2>3, OneMore
  <2>5. pending' = Cardinality(Waiting') /\ running' = Cardinality(Executing') /\ pending' <= MaxPending
    BY SMTT(30), <1>0, <1>1, <2>1, <2>3, <2>4
  <2>6. accepted' = completed' + Cardinality(Live')
    BY SMTT(30), <1>1, <2>1, <2>4
  <2> QED BY <2>5, <2>6
<1>6. ASSUME NEW w \in Workers, NEW t \in Tasks, WorkerTake(w, t) PROVE Goal
  <2>1. /\ t \in list /\ phase[t] = "Queued" /\ phase' = [phase EXCEPT ![t] = "Running"]
        /\ pending' = pending - 1 /\ running' = running + 1
        /\ UNCHANGED <<submission, list, accepted, completed>>
    BY <1>6 DEF WorkerTake, IsFirst, Eligible
  <2>2. /\ Waiting' = Waiting \ {t} /\ Executing' = Executing \cup {t} /\ Live' = Live
        /\ t \in Waiting /\ t \notin Executing
    BY <1>0, <2>1 DEF Waiting, Executing, Live, Accepted, StageTypes
  <2> QED BY SMTT(30), <1>0, <1>1, <1>f, <2>1, <2>2, OneMore
<1>7. ASSUME NEW w \in Workers, WorkerFinish(w) PROVE Goal
  <2>1. /\ phase' = [phase EXCEPT ![cur[w]] = "Completing"] /\ list' = list \ {cur[w]}
        /\ running' = running - 1 /\ UNCHANGED <<submission, pending, accepted, completed>>
    BY <1>7 DEF WorkerFinish
  <2>2. phase[cur[w]] = "Running" /\ cur[w] \in list
    <3>1. pc[w] = "finish" /\ w \in Threads
      BY <1>7, ThreadMembers DEF WorkerFinish
    <3> QED BY <1>0, <3>1, HolderFacts DEF Holding, ThreadAt, TaskAt
  <2>3. /\ Waiting' = Waiting /\ Executing' = Executing \ {cur[w]} /\ Live' = Live
        /\ cur[w] \in Executing
    BY <1>0, <2>1, <2>2 DEF Waiting, Executing, Live, Accepted, StageTypes
  <2> QED BY <1>0, <1>1, <1>f, <2>1, <2>3, OneMore
<1>8. ASSUME NEW t \in Tasks, CoordinatorSelect(t), RetiresHere(t) PROVE Goal
  <2>1. /\ t \in list /\ phase[t] = "Queued" /\ phase' = [phase EXCEPT ![t] = "Completing"]
        /\ list' = list \ {t} /\ pending' = pending - 1
        /\ UNCHANGED <<submission, running, accepted, completed>>
    BY <1>8 DEF CoordinatorSelect, IsFirst, Unsignalled, RetiresHere
  <2>2. /\ Waiting' = Waiting \ {t} /\ Executing' = Executing /\ Live' = Live /\ t \in Waiting
    BY <1>0, <2>1 DEF Waiting, Executing, Live, Accepted, StageTypes
  <2> QED BY SMTT(30), <1>0, <1>1, <1>f, <2>1, <2>2, OneMore
<1>9. ASSUME NEW p \in Threads, Release(p) PROVE Goal
  <2>1. /\ pc[p] = "release" /\ phase' = [phase EXCEPT ![cur[p]] = "Terminal"]
        /\ completed' = completed + 1 /\ UNCHANGED <<submission, list, pending, running, accepted>>
    BY <1>9 DEF Release
  <2>2. cur[p] \in Tasks /\ phase[cur[p]] = "Completing" /\ submission[cur[p]] = "accepted"
    BY <1>0, <2>1, HolderFacts DEF Holding, ThreadAt, TaskAt
  <2>3. /\ Waiting' = Waiting /\ Executing' = Executing /\ Live' = Live \ {cur[p]} /\ cur[p] \in Live
    BY <1>0, <2>1, <2>2 DEF Waiting, Executing, Live, Accepted, StageTypes
  <2>4. Cardinality(Live') = Cardinality(Live) - 1
    BY <1>f, <2>3, OneMore
  <2>5. pending' = Cardinality(Waiting') /\ running' = Cardinality(Executing') /\ pending' <= MaxPending
    BY <1>1, <2>1, <2>3
  <2>6. accepted' = completed' + Cardinality(Live')
    BY SMTT(30), <1>1, <2>1, <2>4
  <2> QED BY <2>5, <2>6
<1>10. ASSUME Next
       PROVE  \/ Same \/ (\E p \in Threads : Release(p))
              \/ \E t \in Tasks : SubmitPrepare(t) \/ SubmitAdmit(t) \/ (CoordinatorSelect(t) /\ RetiresHere(t))
              \/ \E w \in Workers : WorkerFinish(w) \/ (\E t \in Tasks : WorkerTake(w, t))
  <2> USE DEF taskVars, countVars
  <2>1. LifeCycle \/ Terminated => Same
    BY DEF LifeCycle, StartBegin, Spawn, StartReady, StopEffect, StartFail, RequestStop, StopBegin,
           JoinDone, Terminated, vars
  <2>2. ASSUME NEW t \in Tasks, \/ RequestCancel(t) \/ ParentStops(t) \/ ParentCallback(t)
                                \/ DeadlinePasses(t)
        PROVE  Same
    BY <2>2 DEF RequestCancel, ParentStops, ParentCallback, DeadlinePasses
  <2>3. CoordinatorStep => Same \/ \E t \in Tasks : CoordinatorSelect(t) /\ RetiresHere(t)
    <3>1. ASSUME NEW t \in Tasks, CoordinatorSelect(t), ~RetiresHere(t) PROVE Same
      BY <3>1 DEF CoordinatorSelect
    <3>2. ASSUME CoordinatorSignalRunning \/ CoordinatorExit \/ CoordinatorWait \/ CoordinatorTimeout
          PROVE  Same
      BY <3>2 DEF CoordinatorSignalRunning, CoordinatorExit, CoordinatorWait, CoordinatorTimeout
    <3> HIDE DEF Same
    <3> QED BY <3>1, <3>2 DEF CoordinatorStep
  <2>4. ASSUME NEW w \in Workers, WorkerExit(w) \/ WorkerWait(w) \/ \E r \in JobResults : JobReturns(w, r)
        PROVE  Same
    BY <2>4 DEF WorkerExit, WorkerWait, JobReturns
  <2>5. ASSUME NEW p \in Threads, Deliver(p) \/ Announce(p) PROVE Same
    BY <2>5 DEF Deliver, Announce
  <2> HIDE DEF Same
  <2> QED BY <1>10, <2>1, <2>2, <2>3, <2>4, <2>5 DEF Next, Caller, Publish, Worker
<1>11. UNCHANGED vars => Same
  BY DEF vars, taskVars, countVars
<1> HIDE DEF Same, Goal
<1>12. Goal
  BY <1>3, <1>4, <1>5, <1>6, <1>7, <1>8, <1>9, <1>10, <1>11
<1> QED BY <1>12 DEF Goal

\* A fresh executor counts nothing.
LEMMA CountsInit == Init => CountersAgree
<1> SUFFICES ASSUME Init PROVE CountersAgree
  OBVIOUS
<1>1. Waiting = {} /\ Executing = {} /\ Live = {}
  BY DEF Init, Waiting, Executing, Live, Accepted
<1> QED BY SMTT(30), <1>1, FS_EmptySet, TaskExecutorAssumption DEF Init, CountersAgree, Waiting, Executing

\* The counters that Submit's admission test and GetMetrics read are exact, and
\* the pending count never exceeds maxPendingTasks.
THEOREM CountersAreExact == Spec => []CountersAgree
BY CoreInit, CoreStep, CountsInit, CountsStep, PTL DEF Spec

\* The bytes of a set of tasks, with one task more or less.
LEMMA BytesOfTasks ==
  ASSUME NEW S \in SUBSET Tasks
  PROVE  /\ SumFunctionOnSet(Bytes, S) \in Nat
         /\ \A t \in Tasks \ S :
              SumFunctionOnSet(Bytes, S \cup {t}) = SumFunctionOnSet(Bytes, S) + Bytes[t]
         /\ \A t \in S : SumFunctionOnSet(Bytes, S \ {t}) = SumFunctionOnSet(Bytes, S) - Bytes[t]
<1>1. IsFiniteSet(S) /\ \A t \in Tasks : Bytes[t] \in Nat
  BY TaskExecutorAssumption, FS_Subset
<1>2. SumFunctionOnSet(Bytes, S) \in Nat
  BY <1>1, SumIsNatural
<1>3. ASSUME NEW t \in Tasks \ S
      PROVE  SumFunctionOnSet(Bytes, S \cup {t}) = SumFunctionOnSet(Bytes, S) + Bytes[t]
  <2>1. \A y \in S \cup {t} : Bytes[y] \in Int
    BY SMTT(30), <1>1
  <2> QED BY <1>1, <2>1, SumAdds
<1>4. ASSUME NEW t \in S
      PROVE  SumFunctionOnSet(Bytes, S \ {t}) = SumFunctionOnSet(Bytes, S) - Bytes[t]
  <2>1. \A y \in S : Bytes[y] \in Int
    BY SMTT(30), <1>1
  <2>2. SumFunctionOnSet(Bytes, S) = Bytes[t] + SumFunctionOnSet(Bytes, S \ {t})
    BY <1>1, <2>1, SumRemoves
  <2>3. SumFunctionOnSet(Bytes, S \ {t}) \in Nat
    <3>1. IsFiniteSet(S \ {t}) /\ \A y \in S \ {t} : Bytes[y] \in Nat
      BY <1>1, FS_RemoveElement
    <3> QED BY <3>1, SumIsNatural
  <2>4. Bytes[t] \in Nat
    BY <1>1
  <2> HIDE DEF SumFunctionOnSet
  <2> QED BY SMTT(30), <2>2, <2>3, <2>4
<1> QED BY <1>2, <1>3, <1>4

\* Only an admission adds bytes and only Publish takes them back.
LEMMA BytesStep == Core /\ BytesAreBounded /\ [Next]_vars => BytesAreBounded'
<1> SUFFICES ASSUME Core, BytesAreBounded, [Next]_vars PROVE BytesAreBounded'
  OBVIOUS
<1>0. Shape /\ StageTypes /\ Live \in SUBSET Tasks /\ MaxRetained \in Nat /\ \A t \in Tasks : Bytes[t] \in Nat
  BY TaskExecutorAssumption DEF Core, Shape, Types, Live, Accepted
<1>1. retained = SumFunctionOnSet(Bytes, Live) /\ retained <= MaxRetained /\ retained \in Nat
  BY <1>0, BytesOfTasks DEF BytesAreBounded
<1> DEFINE Same == Live' = Live /\ UNCHANGED retained
<1>2. ASSUME NEW t \in Tasks, SubmitAdmit(t), ~Reject(t) PROVE BytesAreBounded'
  <2>1. /\ submission[t] # "accepted" /\ Bytes[t] <= MaxRetained - retained /\ retained' = retained + Bytes[t]
        /\ submission' = [submission EXCEPT ![t] = "accepted"] /\ phase' = phase
    BY <1>2 DEF SubmitAdmit, Admissible
  <2>2. phase[t] = "Queued"
    BY <1>0, <2>1, Unheld
  <2>3. Live' = Live \cup {t} /\ t \notin Live
    BY <1>0, <2>1, <2>2 DEF Live, Accepted, StageTypes
  <2>4. SumFunctionOnSet(Bytes, Live') = SumFunctionOnSet(Bytes, Live) + Bytes[t]
    BY <1>0, <2>3, BytesOfTasks
  <2>5. retained' <= MaxRetained
    BY SMTT(30), <1>0, <1>1, <2>1
  <2> QED BY <1>1, <2>1, <2>4, <2>5 DEF BytesAreBounded
<1>3. ASSUME NEW p \in Threads, Release(p) PROVE BytesAreBounded'
  <2>1. /\ pc[p] = "release" /\ phase' = [phase EXCEPT ![cur[p]] = "Terminal"]
        /\ retained' = retained - Bytes[cur[p]] /\ UNCHANGED submission
    BY <1>3 DEF Release, Freed
  <2>2. cur[p] \in Tasks /\ phase[cur[p]] = "Completing" /\ submission[cur[p]] = "accepted"
    BY <1>0, <2>1, HolderFacts DEF Holding, ThreadAt, TaskAt
  <2>3. Live' = Live \ {cur[p]} /\ cur[p] \in Live
    BY <1>0, <2>1, <2>2 DEF Live, Accepted, StageTypes
  <2>4. SumFunctionOnSet(Bytes, Live') = SumFunctionOnSet(Bytes, Live) - Bytes[cur[p]]
    BY <1>0, <2>3, BytesOfTasks
  <2>5. Bytes[cur[p]] \in Nat
    BY <1>0, <2>2
  <2>6. retained' <= MaxRetained
    BY SMTT(30), <1>0, <1>1, <2>1, <2>5
  <2> QED BY <1>1, <2>1, <2>4, <2>6 DEF BytesAreBounded
<1>4. ASSUME NEW t \in Tasks, SubmitPrepare(t) \/ SubmitAdmit(t), Reject(t) \/ SubmitPrepare(t) PROVE Same
  <2>1. /\ \E s \in {"admit", "rejected"} : submission' = [submission EXCEPT ![t] = s]
        /\ submission[t] # "accepted" /\ UNCHANGED <<phase, retained>>
    BY <1>4 DEF SubmitPrepare, SubmitAdmit, Reject, countVars
  <2> QED BY <1>0, <2>1 DEF Live, Accepted, StageTypes
<1>5. ASSUME NEW w \in Workers, NEW t \in Tasks, WorkerTake(w, t) PROVE Same
  <2>1. phase[t] = "Queued" /\ phase' = [phase EXCEPT ![t] = "Running"] /\ UNCHANGED <<submission, retained>>
    BY <1>5 DEF WorkerTake, IsFirst, Eligible
  <2> QED BY <1>0, <2>1 DEF Live, Accepted, StageTypes
<1>6. ASSUME NEW w \in Workers, WorkerFinish(w) PROVE Same
  <2>1. phase' = [phase EXCEPT ![cur[w]] = "Completing"] /\ UNCHANGED <<submission, retained>>
    BY <1>6 DEF WorkerFinish
  <2>2. phase[cur[w]] = "Running"
    <3>1. pc[w] = "finish" /\ w \in Threads
      BY <1>6, ThreadMembers DEF WorkerFinish
    <3> QED BY <1>0, <3>1, HolderFacts DEF Holding, ThreadAt, TaskAt
  <2> QED BY <1>0, <2>1, <2>2 DEF Live, Accepted, StageTypes
<1>7. ASSUME NEW t \in Tasks, CoordinatorSelect(t) PROVE Same
  <2>1. CASE RetiresHere(t)
    <3>1. phase[t] = "Queued" /\ phase' = [phase EXCEPT ![t] = "Completing"] /\ UNCHANGED <<submission, retained>>
      BY <1>7, <2>1 DEF CoordinatorSelect, IsFirst, Unsignalled, RetiresHere
    <3> QED BY <1>0, <3>1 DEF Live, Accepted, StageTypes
  <2>2. CASE ~RetiresHere(t)
    BY <1>7, <2>2 DEF CoordinatorSelect, Live, Accepted, countVars
  <2> QED BY <2>1, <2>2
<1>8. ASSUME \/ LifeCycle \/ Terminated \/ UNCHANGED vars
             \/ \E t \in Tasks : RequestCancel(t) \/ ParentStops(t) \/ ParentCallback(t) \/ DeadlinePasses(t)
             \/ CoordinatorSignalRunning \/ CoordinatorExit \/ CoordinatorWait \/ CoordinatorTimeout
             \/ \E w \in Workers : WorkerExit(w) \/ WorkerWait(w) \/ \E r \in JobResults : JobReturns(w, r)
             \/ \E p \in Threads : Deliver(p) \/ Announce(p)
      PROVE  Same
  <2> USE DEF taskVars, countVars
  <2>1. LifeCycle \/ Terminated \/ UNCHANGED vars => UNCHANGED <<submission, phase, retained>>
    BY DEF LifeCycle, StartBegin, Spawn, StartReady, StopEffect, StartFail, RequestStop, StopBegin,
           JoinDone, Terminated, vars
  <2>2. ASSUME NEW t \in Tasks, RequestCancel(t) \/ ParentStops(t) \/ ParentCallback(t) \/ DeadlinePasses(t)
        PROVE  UNCHANGED <<submission, phase, retained>>
    BY <2>2 DEF RequestCancel, ParentStops, ParentCallback, DeadlinePasses
  <2>3. CoordinatorSignalRunning \/ CoordinatorExit \/ CoordinatorWait \/ CoordinatorTimeout
          => UNCHANGED <<submission, phase, retained>>
    BY DEF CoordinatorSignalRunning, CoordinatorExit, CoordinatorWait, CoordinatorTimeout
  <2>4. ASSUME NEW w \in Workers, WorkerExit(w) \/ WorkerWait(w) \/ \E r \in JobResults : JobReturns(w, r)
        PROVE  UNCHANGED <<submission, phase, retained>>
    BY <2>4 DEF WorkerExit, WorkerWait, JobReturns
  <2>5. ASSUME NEW p \in Threads, Deliver(p) \/ Announce(p) PROVE UNCHANGED <<submission, phase, retained>>
    BY <2>5 DEF Deliver, Announce
  <2>6. UNCHANGED <<submission, phase, retained>>
    BY <1>8, <2>1, <2>2, <2>3, <2>4, <2>5
  <2> QED BY <2>6 DEF Live, Accepted
<1>9. ASSUME Same PROVE BytesAreBounded'
  BY <1>1, <1>9 DEF BytesAreBounded
<1> HIDE DEF Same
<1> QED BY <1>2, <1>3, <1>4, <1>5, <1>6, <1>7, <1>8, <1>9 DEF Next, Caller, CoordinatorStep, Worker, Publish

\* The byte budget is exact for any tasks, sizes and threads: what Submit tests
\* the limit against is the sum of the bytes of the unfinished tasks, and it is
\* never exceeded although Submit unlocks between its two tests.
THEOREM BytesAreExact == Spec => []BytesAreBounded
<1>1. Init => BytesAreBounded
  <2> SUFFICES ASSUME Init PROVE BytesAreBounded
    OBVIOUS
  <2>1. Live = {} /\ retained = 0 /\ 0 <= MaxRetained
    BY SMTT(30), TaskExecutorAssumption DEF Init, Live, Accepted
  <2> QED BY <2>1, SumOfNone DEF BytesAreBounded
<1> QED BY <1>1, CoreInit, CoreStep, BytesStep, PTL DEF Spec

-----------------------------------------------------------------------------
(* Stopping.                                                               *)

\* An accepted, unfinished task is queued or in the hands of a thread.
Owned ==
  \A t \in Accepted : terminal[t] \/ phase[t] = "Queued"
                        \/ \E p \in Threads : pc[p] \in Holding /\ cur[p] = t

\* Start and Stop exclude each other, and the coordinator leaves last.
Life ==
  /\ starter \in {"created", "spawning", "failing", "failed", "started"}
  /\ stopper \in {"idle", "joining", "stopped"}
  /\ ready \in BOOLEAN /\ stopping \in BOOLEAN /\ joined \in BOOLEAN
  /\ ready => \A p \in Threads : pc[p] # "none"
  /\ Accepted # {} => ready
  /\ pc[Coordinator] = "exit" => stopping /\ list = {}
  /\ starter = "failing" \/ stopper # "idle" => stopping
  /\ stopper = "joining" => starter \notin {"spawning", "failing"}
  /\ joined => stopping /\ AllExited /\ starter # "spawning"

\* No step drops a task a thread holds.
LEMMA OwnedStep == Core /\ Owned /\ [Next]_vars => Owned'
<1> SUFFICES ASSUME Core, Owned, [Next]_vars PROVE Owned'
  OBVIOUS
<1>0. Shape /\ PlaceTypes /\ StageTypes
  BY DEF Core, Shape, Types
<1>1. ASSUME \A t \in Tasks : terminal[t] => terminal'[t],
             \A t \in Accepted' : t \in Accepted \/ phase'[t] = "Queued",
             \A p \in Threads : pc[p] \in Holding => \/ pc'[p] \in Holding /\ cur'[p] = cur[p]
                                                     \/ terminal'[cur[p]],
             \A t \in Tasks : phase[t] = "Queued" => \/ phase'[t] = "Queued"
                                                     \/ \E p \in Threads : pc'[p] \in Holding /\ cur'[p] = t
      PROVE  Owned'
  BY <1>1 DEF Owned, Accepted
<1>2. CASE Quiet \/ UNCHANGED vars
  <2>1. UNCHANGED <<submission, phase, terminal>>
        /\ \A p \in Threads : pc[p] \in Holding => pc'[p] = pc[p] /\ cur'[p] = cur[p]
    BY <1>2 DEF Quiet, vars, taskVars, threadVars, Free, Holding
  <2> QED BY <1>1, <2>1 DEF Accepted
<1>3. ASSUME NEW t \in Tasks, SubmitPrepare(t) \/ SubmitAdmit(t) PROVE Owned'
  <2>1. pc' = pc \/ pc' = NotifyAll(pc)
    BY <1>3 DEF SubmitPrepare, SubmitAdmit, Reject, threadVars
  <2>2. \A p \in Threads : pc[p] \in Holding => pc'[p] = pc[p]
    BY <1>0, <2>1, NotifyFacts DEF Free
  <2>3. /\ submission[t] # "accepted" /\ UNCHANGED <<phase, terminal, cur>>
        /\ \E s \in {"admit", "rejected", "accepted"} : submission' = [submission EXCEPT ![t] = s]
    BY <1>3 DEF SubmitPrepare, SubmitAdmit, Reject, threadVars
  <2>4. phase[t] = "Queued"
    BY <1>0, <2>3, Unheld
  <2>5. \A u \in Accepted' : u \in Accepted \/ phase'[u] = "Queued"
    BY <1>0, <2>3, <2>4 DEF Accepted, StageTypes
  <2> QED BY <1>1, <2>2, <2>3, <2>5
<1>4. ASSUME NEW w \in Workers, NEW t \in Tasks, WorkerTake(w, t) PROVE Owned'
  <2>0. w \in Threads
    BY ThreadMembers
  <2>1. /\ pc[w] = "scan"
        /\ pc' = [pc EXCEPT ![w] = "run"] \/ pc' = [NotifyAll(pc) EXCEPT ![w] = "run"]
        /\ cur' = [cur EXCEPT ![w] = t] /\ phase' = [phase EXCEPT ![t] = "Running"]
        /\ UNCHANGED <<terminal, submission>>
    BY <1>4 DEF WorkerTake, NotifyIfCancelled
  <2>2. /\ \A p \in Threads : pc[p] \in Holding => p # w
        /\ \A p \in Threads \ {w} : pc[p] \in Holding => pc'[p] = pc[p] /\ cur'[p] = cur[p]
        /\ pc'[w] \in Holding /\ cur'[w] = t
    BY <1>0, <2>0, <2>1, NotifyFacts DEF PlaceTypes, Holding, Free
  <2>3. \A u \in Tasks \ {t} : phase'[u] = phase[u]
    BY <1>0, <2>1 DEF StageTypes
  <2> QED BY <1>1, <2>0, <2>1, <2>2, <2>3 DEF Accepted
<1>5. ASSUME NEW p \in Threads, pc[p] \in Holding, NEW d \in Holding, pc' = [pc EXCEPT ![p] = d],
             UNCHANGED <<cur, submission, terminal>>,
             \A t \in Tasks \ {cur[p]} : phase'[t] = phase[t]
      PROVE  Owned'
  <2>1. \A q \in Threads : pc[q] \in Holding => pc'[q] \in Holding /\ cur'[q] = cur[q]
    BY <1>0, <1>5 DEF PlaceTypes
  <2> QED BY <1>1, <1>5, <2>1 DEF Accepted
<1>6. ASSUME NEW w \in Workers, WorkerFinish(w) \/ \E r \in JobResults : JobReturns(w, r) PROVE Owned'
  <2>1. /\ w \in Threads /\ pc[w] \in Holding /\ \E d \in Holding : pc' = [pc EXCEPT ![w] = d]
        /\ UNCHANGED <<cur, submission, terminal>>
    BY <1>6, ThreadMembers DEF WorkerFinish, JobReturns, taskVars, Holding
  <2>2. \A t \in Tasks \ {cur[w]} : phase'[t] = phase[t]
    BY <1>0, <1>6 DEF WorkerFinish, JobReturns, taskVars, StageTypes
  <2> QED BY <1>5, <2>1, <2>2
<1>7. ASSUME NEW t \in Tasks, CoordinatorSelect(t), RetiresHere(t) PROVE Owned'
  <2>1. /\ Coordinator \in Threads /\ pc[Coordinator] = "scan" /\ pc' = [pc EXCEPT ![Coordinator] = "deliver"]
        /\ cur' = [cur EXCEPT ![Coordinator] = t] /\ phase' = [phase EXCEPT ![t] = "Completing"]
        /\ UNCHANGED <<terminal, submission>>
    BY <1>7, ThreadMembers DEF CoordinatorSelect
  <2>2. /\ \A p \in Threads : pc[p] \in Holding => pc'[p] = pc[p] /\ cur'[p] = cur[p]
        /\ pc'[Coordinator] \in Holding /\ cur'[Coordinator] = t
    BY <1>0, <2>1 DEF PlaceTypes, Holding
  <2>3. \A u \in Tasks \ {t} : phase'[u] = phase[u]
    BY <1>0, <2>1 DEF StageTypes
  <2> QED BY <1>1, <2>1, <2>2, <2>3 DEF Accepted
<1>8. ASSUME NEW p \in Threads, Deliver(p) \/ Release(p) PROVE Owned'
  <2>1. /\ pc[p] \in Holding /\ \E d \in Holding : pc' = [pc EXCEPT ![p] = d]
        /\ UNCHANGED <<cur, submission, terminal>>
    BY <1>8 DEF Deliver, Release, Holding
  <2>2. \A t \in Tasks \ {cur[p]} : phase'[t] = phase[t]
    BY <1>0, <1>8 DEF Deliver, Release, StageTypes
  <2> QED BY <1>5, <2>1, <2>2
<1>9. ASSUME NEW p \in Threads, Announce(p) PROVE Owned'
  <2>1. /\ pc[p] = "announce" /\ pc' = [NotifyAll(pc) EXCEPT ![p] = "scan"]
        /\ terminal' = [terminal EXCEPT ![cur[p]] = TRUE]
        /\ cur' = [cur EXCEPT ![p] = None] /\ UNCHANGED <<submission, phase>>
    BY <1>9 DEF Announce
  <2>2. cur[p] \in Tasks
    BY <1>0, <2>1, HolderFacts DEF Holding
  <2>3. \A q \in Threads \ {p} : pc[q] \in Holding => pc'[q] = pc[q] /\ cur'[q] = cur[q]
    BY <1>0, <2>1, NotifyFacts DEF PlaceTypes, Free
  <2>4. terminal'[cur[p]] /\ \A t \in Tasks : terminal[t] => terminal'[t]
    BY <1>0, <2>1, <2>2 DEF StageTypes
  <2> QED BY <1>1, <2>1, <2>3, <2>4 DEF Accepted
<1> QED BY <1>0, <1>2, <1>3, <1>4, <1>6, <1>7, <1>8, <1>9, QuietActions DEF Publish

\* What every step outside Start and Stop does to the life cycle.
Onward ==
  /\ UNCHANGED lifeVars
  /\ \A p \in Threads : pc[p] \in {"none", "exit"} => pc'[p] = pc[p]
  /\ \A p \in Threads : pc'[p] = "none" => pc[p] = "none"
  /\ Accepted' \subseteq Accepted \/ (ready /\ ~stopping)
  /\ list' \subseteq list \/ ~stopping
  /\ pc'[Coordinator] = "exit" => pc[Coordinator] = "exit" \/ (stopping /\ list' = {})

\* Steps of callers and threads preserve the life-cycle facts.
LEMMA OnwardLife == ASSUME Life, Onward PROVE Life'
BY ThreadMembers DEF Life, Onward, lifeVars, AllExited

\* A step that moves no thread out of or into its beginning or end, and adds no
\* task, carries the life cycle onward.
LEMMA KeepOnward ==
  ASSUME PlaceTypes, UNCHANGED lifeVars, Accepted' = Accepted, list' \subseteq list,
         \A p \in Threads : \/ pc'[p] = pc[p]
                            \/ pc[p] \notin {"none", "exit"} /\ pc'[p] \notin {"none", "exit"}
  PROVE  Onward
BY ThreadMembers DEF Onward

\* notify_all changes the place of waiting threads only.
LEMMA NotifyKeeps ==
  ASSUME NEW p \in Threads
  PROVE  (NotifyAll(pc)[p] = pc[p]) \/ (pc[p] \in {"wait", "timedWait"} /\ NotifyAll(pc)[p] = "scan")
BY DEF NotifyAll

\* The steps of callers.
LEMMA CallerOnward ==
  ASSUME Core, NEW t \in Tasks,
         \/ SubmitPrepare(t) \/ SubmitAdmit(t) \/ RequestCancel(t)
         \/ ParentStops(t) \/ ParentCallback(t) \/ DeadlinePasses(t)
  PROVE  Onward
<1>0. PlaceTypes /\ StageTypes /\ UNCHANGED lifeVars
  BY DEF Core, Shape, Types, SubmitPrepare, SubmitAdmit, Reject, RequestCancel, ParentStops,
               ParentCallback, DeadlinePasses
<1>1. pc' = pc \/ pc' = NotifyAll(pc)
  BY DEF SubmitPrepare, SubmitAdmit, Reject, RequestCancel, ParentStops, ParentCallback,
               DeadlinePasses, threadVars
<1>2. \A p \in Threads : pc'[p] = pc[p] \/ (pc[p] \in {"wait", "timedWait"} /\ pc'[p] = "scan")
  BY <1>1, NotifyKeeps
<1>3. CASE SubmitAdmit(t) /\ ~Reject(t)
  <2>1. ready /\ ~stopping
    BY <1>3 DEF SubmitAdmit, Admissible
  <2> QED BY <1>0, <1>2, <2>1, ThreadMembers DEF Onward
<1>4. CASE ~(SubmitAdmit(t) /\ ~Reject(t))
  <2>1. /\ list' = list
        /\ submission' = submission \/ (/\ submission[t] # "accepted"
                                        /\ \E s \in {"admit", "rejected"} : submission' = [submission EXCEPT ![t] = s])
    <3>1. CASE SubmitPrepare(t) \/ SubmitAdmit(t)
      BY <1>4, <3>1 DEF SubmitPrepare, SubmitAdmit, Reject
    <3>2. CASE RequestCancel(t) \/ ParentStops(t) \/ ParentCallback(t) \/ DeadlinePasses(t)
      BY <3>2 DEF RequestCancel, ParentStops, ParentCallback, DeadlinePasses, taskVars
    <3> QED BY <3>1, <3>2
  <2>2. Accepted' = Accepted
    BY <1>0, <2>1 DEF Accepted, StageTypes
  <2> QED BY <1>0, <1>2, <2>1, <2>2, KeepOnward
<1> QED BY <1>3, <1>4

\* The steps of the threads.
LEMMA ThreadOnward ==
  ASSUME Core, \/ CoordinatorStep
               \/ \E w \in Workers : Worker(w) \/ \E r \in JobResults : JobReturns(w, r)
               \/ \E p \in Threads : Publish(p)
  PROVE  Onward
<1>0. PlaceTypes
  BY DEF Core, Shape, Types
<1>1. /\ UNCHANGED <<lifeVars, submission>> /\ list' \subseteq list
      /\ \E p \in Threads, d \in Places \ {"none"} :
           /\ pc[p] \notin {"none", "exit"}
           /\ pc' = [pc EXCEPT ![p] = d] \/ pc' = [NotifyAll(pc) EXCEPT ![p] = d]
           /\ d = "exit" => p # Coordinator \/ (stopping /\ list' = {})
  <2> USE DEF taskVars
  <2>1. ASSUME NEW t \in Tasks, CoordinatorSelect(t)
        PROVE  /\ pc[Coordinator] = "scan" /\ UNCHANGED <<lifeVars, submission>> /\ list' \subseteq list
               /\ \E d \in {"deliver", "signalRunning"} : pc' = [pc EXCEPT ![Coordinator] = d]
    BY <2>1 DEF CoordinatorSelect
  <2>2. ASSUME CoordinatorSignalRunning \/ CoordinatorExit \/ CoordinatorWait \/ CoordinatorTimeout
        PROVE  /\ pc[Coordinator] \in {"scan", "signalRunning", "timedWait"}
               /\ UNCHANGED <<lifeVars, submission, list>>
               /\ \E d \in {"scan", "wait", "timedWait", "exit"} :
                    pc' = [pc EXCEPT ![Coordinator] = d] /\ (d = "exit" => stopping /\ list = {})
    BY <2>2 DEF CoordinatorSignalRunning, CoordinatorExit, CoordinatorWait, CoordinatorTimeout
  <2>3. ASSUME NEW w \in Workers, Worker(w) \/ \E r \in JobResults : JobReturns(w, r)
        PROVE  /\ pc[w] \in {"scan", "run", "finish"}
               /\ UNCHANGED <<lifeVars, submission>> /\ list' \subseteq list
               /\ \E d \in {"run", "wait", "exit", "finish", "deliver"} :
                    pc' = [pc EXCEPT ![w] = d] \/ pc' = [NotifyAll(pc) EXCEPT ![w] = d]
    <3>1. CASE \/ WorkerExit(w) \/ WorkerFinish(w) \/ \E r \in JobResults : JobReturns(w, r)
      BY <3>1 DEF WorkerExit, WorkerFinish, JobReturns
    <3>2. CASE WorkerWait(w) \/ \E t \in Tasks : WorkerTake(w, t)
      BY <3>2 DEF WorkerTake, WorkerWait, NotifyIfCancelled
    <3> QED BY <2>3, <3>1, <3>2 DEF Worker
  <2>4. ASSUME NEW p \in Threads, Publish(p)
        PROVE  /\ pc[p] \in {"deliver", "release", "announce"}
               /\ UNCHANGED <<lifeVars, submission, list>>
               /\ \E d \in {"release", "announce", "scan"} :
                    pc' = [pc EXCEPT ![p] = d] \/ pc' = [NotifyAll(pc) EXCEPT ![p] = d]
    BY <2>4 DEF Publish, Deliver, Release, Announce
  <2>5. CoordinatorStep => (\E t \in Tasks : CoordinatorSelect(t)) \/ CoordinatorSignalRunning
                             \/ CoordinatorExit \/ CoordinatorWait \/ CoordinatorTimeout
    BY DEF CoordinatorStep
  <2> QED BY <2>1, <2>2, <2>3, <2>4, <2>5, ThreadMembers DEF Places
<1>2. PICK p \in Threads, d \in Places \ {"none"} :
           /\ pc[p] \notin {"none", "exit"}
           /\ pc' = [pc EXCEPT ![p] = d] \/ pc' = [NotifyAll(pc) EXCEPT ![p] = d]
           /\ d = "exit" => p # Coordinator \/ (stopping /\ list' = {})
  BY <1>1
<1>3. /\ pc'[p] = d
      /\ \A q \in Threads \ {p} : pc'[q] = pc[q] \/ (pc[q] \in {"wait", "timedWait"} /\ pc'[q] = "scan")
  BY <1>0, <1>2, NotifyFacts, NotifyKeeps DEF PlaceTypes
<1> QED BY <1>1, <1>2, <1>3, ThreadMembers DEF Onward, Accepted

\* Start, Stop and every other step preserve the life-cycle facts.
LEMMA LifeStep == Core /\ Life /\ [Next]_vars => Life'
<1> SUFFICES ASSUME Core, Life, [Next]_vars PROVE Life'
  OBVIOUS
<1>0. PlaceTypes
  BY DEF Core, Shape, Types
<1>1. CASE LifeCycle
  <2> USE DEF taskVars, threadVars
  <2>1. CASE StartBegin
    BY <2>1 DEF StartBegin, JoinMutexFree, Life, AllExited, Accepted
  <2>2. CASE \E p \in Threads : Spawn(p)
    BY SMTT(30), <1>0, <2>2 DEF Spawn, lifeVars, Life, AllExited, Accepted, PlaceTypes
  <2>3. CASE StartReady
    BY <2>3, NotifyKeeps, ThreadMembers DEF StartReady, Life, AllExited, Accepted
  <2>4. CASE StopEffect /\ (StartFail \/ RequestStop \/ StopBegin)
    <3>1. stopping' = TRUE /\ UNCHANGED <<ready, joined, submission, list>> /\ pc' = NotifyAll(pc)
      BY <2>4 DEF StopEffect
    <3>2. \A p \in Threads : (pc'[p] = pc[p]) \/ (pc[p] \in {"wait", "timedWait"} /\ pc'[p] = "scan")
      BY <3>1, NotifyKeeps
    <3>3. /\ starter' \in {"created", "spawning", "failing", "failed", "started"}
          /\ stopper' \in {"idle", "joining", "stopped"}
          /\ stopper' = "joining" => starter' \notin {"spawning", "failing"}
          /\ starter' = "spawning" => starter = "spawning"
      BY <2>4 DEF StartFail, RequestStop, StopBegin, JoinMutexFree, Life
    <3> QED BY <3>1, <3>2, <3>3, ThreadMembers DEF Life, AllExited, Accepted
  <2>5. CASE JoinDone
    BY <2>5 DEF JoinDone, Life, AllExited, Accepted
  <2> QED BY <1>1, <2>1, <2>2, <2>3, <2>4, <2>5 DEF LifeCycle, StartFail, RequestStop, StopBegin
<1>2. CASE Caller
  BY <1>2, CallerOnward, OnwardLife DEF Caller
<1>3. CASE \/ CoordinatorStep
           \/ \E w \in Workers : Worker(w) \/ \E r \in JobResults : JobReturns(w, r)
           \/ \E p \in Threads : Publish(p)
  BY <1>3, ThreadOnward, OnwardLife
<1>4. CASE Terminated \/ UNCHANGED vars
  BY SMTT(30), <1>4 DEF Terminated, vars, taskVars, threadVars, lifeVars, Life, AllExited, Accepted
<1> QED BY <1>1, <1>2, <1>3, <1>4 DEF Next

\* A fresh executor owns no task and has no thread.
LEMMA OwnedLifeInit == Init => Owned /\ Life
<1> SUFFICES ASSUME Init PROVE Owned /\ Life
  OBVIOUS
<1>1. Accepted = {} /\ \A p \in Threads : pc[p] = "none"
  BY DEF Init, Accepted
<1> QED BY <1>1, ThreadMembers DEF Init, Owned, Life, AllExited

\* When Join has returned, to Stop or to a failed Start, every accepted task is
\* terminal: no task is stranded in the list or in a thread that left.
THEOREM JoinLeavesNothing == Spec => []JoinRetiresAll
<1>1. ASSUME Core, Owned, Life, CountersAgree PROVE JoinRetiresAll
  <2> SUFFICES ASSUME joined PROVE (\A t \in Accepted : terminal[t]) /\ pending = 0 /\ running = 0
    BY DEF JoinRetiresAll
  <2>0. \A t \in list : t \in Accepted
    BY <1>1 DEF Core, Shape, Types, StageTypes, TaskShape, TaskAt, Accepted
  <2>1. \A p \in Threads : pc[p] \in {"none", "exit"}
    BY <1>1 DEF Life, AllExited
  <2>2. list = {}
    BY <1>1, <2>0, <2>1, ThreadMembers DEF Life
  <2>3. \A t \in Accepted : phase[t] = "Queued" => t \in list
    BY <1>1 DEF Core, Shape, TaskShape, TaskAt, Accepted
  <2>4. \A t \in Accepted : terminal[t]
    BY <1>1, <2>1, <2>2, <2>3 DEF Owned, Holding
  <2>5. Waiting = {} /\ Executing = {}
    BY <2>2 DEF Waiting, Executing
  <2> QED BY <1>1, <2>4, <2>5, FS_EmptySet DEF CountersAgree, Waiting, Executing
<1> QED BY CoreInit, CoreStep, CountsInit, CountsStep, OwnedLifeInit, OwnedStep, LifeStep, <1>1, PTL
        DEF Spec

\* Every variable keeps its type; in particular the counters Publish and the
\* scans decrement never go below zero.
THEOREM TypeCorrect == Spec => []TypeOK
<1>1. ASSUME Core, Life, CountersAgree PROVE TypeOK
  <2>1. pending \in Nat /\ running \in Nat
    BY <1>1, CountedFinite DEF Core, CountersAgree, Waiting, Executing
  <2> QED BY <1>1, <2>1 DEF Core, Shape, Types, PlaceTypes, StageTypes, ReasonTypes, NumberTypes,
                            FlagTypes, Life, TypeOK
<1> QED BY CoreInit, CoreStep, CountsInit, CountsStep, OwnedLifeInit, LifeStep, <1>1, PTL DEF Spec
=============================================================================
