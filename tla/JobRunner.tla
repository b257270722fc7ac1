------------------------------ MODULE JobRunner ------------------------------
(***************************************************************************)
(* Runtime::JobRunner: one FIFO of jobs with two budgets, application jobs *)
(* and control jobs, and one consumer inside RunUntilStopped.  A           *)
(* reservation is a job admitted before its callback exists.               *)
(*                                                                         *)
(* One action is one critical section of mMutex, or one stretch of user    *)
(* code outside it.  The wakeup that follows a section is part of it: there *)
(* is one waiter, and it tests its predicate under the mutex.              *)
(***************************************************************************)
EXTENDS Integers, Sequences, FiniteSets, Functions, SumTheorems

CONSTANTS
  Jobs,       \* one element per Post, PostControl or Reserve
  Control,    \* the jobs posted with PostControl or a control lease
  Reserved,   \* the jobs that begin as a reservation
  JobBytes,      \* the declared bytes of each job
  Options,    \* the options Configure may be called with; the first are in force
  NoJob

ASSUME JobRunnerAssumption ==
  /\ IsFiniteSet(Jobs) /\ Control \subseteq Jobs /\ Reserved \subseteq Jobs \ Control
  /\ JobBytes \in [Jobs -> Nat] /\ NoJob \notin Jobs
  /\ Options \in Seq([jobs : Nat \ {0}, bytes : Nat \ {0},
                      controlJobs : Nat \ {0}, controlBytes : Nat \ {0}])
  /\ Options # <<>>

VARIABLES
  mOptions, mUsed, mAdmissionClosed, mStopRequested, mQueue,
  mCount, mBytes, mControlCount, mControlBytes,
  job,                \* where each job is, from new to ran, dropped or rejected
  runner,             \* where the consumer is: before, in or after RunUntilStopped
  cur                 \* the job the consumer took

budget == <<mCount, mBytes, mControlCount, mControlBytes>>
runnerVars == <<mOptions, mUsed, mAdmissionClosed, mStopRequested, mQueue, budget, job, runner, cur>>

RunnerInit ==
  /\ mOptions = Options[1] /\ mUsed = FALSE /\ mAdmissionClosed = FALSE /\ mStopRequested = FALSE
  /\ mQueue = <<>>
  /\ mCount = 0 /\ mBytes = 0 /\ mControlCount = 0 /\ mControlBytes = 0
  /\ job = [j \in Jobs |-> "new"] /\ runner = "outside" /\ cur = NoJob

-----------------------------------------------------------------------------
(* Admission and the budgets.                                              *)

\* Closed, TooLarge and WouldBlock refuse; closing leaves the control lane open.
Admission(j) ==
  /\ ~mStopRequested /\ (j \in Control \/ ~mAdmissionClosed)
  /\ IF j \in Control
     THEN mControlCount < mOptions.controlJobs /\ JobBytes[j] <= mOptions.controlBytes - mControlBytes
     ELSE mCount < mOptions.jobs /\ JobBytes[j] <= mOptions.bytes - mBytes

Charge(j) ==
  /\ mUsed' = TRUE
  /\ IF j \in Control
     THEN /\ mControlCount' = mControlCount + 1 /\ mControlBytes' = mControlBytes + JobBytes[j]
          /\ UNCHANGED <<mCount, mBytes>>
     ELSE /\ mCount' = mCount + 1 /\ mBytes' = mBytes + JobBytes[j]
          /\ UNCHANGED <<mControlCount, mControlBytes>>

Release(j) ==
  IF j \in Control
  THEN /\ mControlCount' = mControlCount - 1 /\ mControlBytes' = mControlBytes - JobBytes[j]
       /\ UNCHANGED <<mCount, mBytes>>
  ELSE /\ mCount' = mCount - 1 /\ mBytes' = mBytes - JobBytes[j]
       /\ UNCHANGED <<mControlCount, mControlBytes>>

\* mWake.notify_one() and notify_all().
Wake == runner' = IF runner = "waiting" THEN "awake" ELSE runner

RunActive == runner \notin {"outside", "returned"}

MutantConfigurable(o) == ~(RunActive \/ mAdmissionClosed \/ mStopRequested) \/ o = mOptions

\* Reapplying the options in force is always allowed.
Configurable(o) == ~(mUsed \/ RunActive \/ mAdmissionClosed \/ mStopRequested) \/ o = mOptions

Configure(o) ==
  /\ Configurable(o) /\ mOptions' = o
  /\ UNCHANGED <<mUsed, mAdmissionClosed, mStopRequested, mQueue, budget, job, runner, cur>>

-----------------------------------------------------------------------------
(* Post, PostControl, Reserve, Reservation::Post and its destruction.      *)

Refuse(j) ==
  /\ job' = [job EXCEPT ![j] = "rejected"]
  /\ UNCHANGED <<mOptions, mUsed, mAdmissionClosed, mStopRequested, mQueue, budget, runner, cur>>

Post(j) ==
  /\ j \notin Reserved /\ job[j] = "new"
  /\ \/ /\ Admission(j) /\ Charge(j)
        /\ mQueue' = Append(mQueue, j) /\ job' = [job EXCEPT ![j] = "queued"]
        /\ Wake /\ UNCHANGED <<mOptions, mAdmissionClosed, mStopRequested, cur>>
     \/ ~Admission(j) /\ Refuse(j)

Reserve(j) ==
  /\ j \in Reserved /\ job[j] = "new"
  /\ \/ /\ Admission(j) /\ Charge(j)
        /\ job' = [job EXCEPT ![j] = "reserved"]
        /\ UNCHANGED <<mOptions, mAdmissionClosed, mStopRequested, mQueue, runner, cur>>
     \/ ~Admission(j) /\ Refuse(j)

MutantPostable == ~mAdmissionClosed

\* CloseAdmission keeps the reservations made before it; RequestStop does not.
Postable == ~mStopRequested

\* The post of a reservation never fails for want of room.  A refused one drops
\* its captures first, still charged.
PostReserved(j) ==
  /\ job[j] = "reserved"
  /\ \/ /\ Postable
        /\ mQueue' = Append(mQueue, j) /\ job' = [job EXCEPT ![j] = "queued"] /\ Wake
     \/ /\ ~Postable
        /\ job' = [job EXCEPT ![j] = "refused"] /\ UNCHANGED <<mQueue, runner>>
  /\ UNCHANGED <<mOptions, mUsed, mAdmissionClosed, mStopRequested, budget, cur>>

\* ~ReservationState: unused, or after a refused post.
Drop(j) ==
  /\ job[j] \in {"reserved", "refused"}
  /\ Release(j) /\ job' = [job EXCEPT ![j] = "dropped"]
  /\ UNCHANGED <<mOptions, mUsed, mAdmissionClosed, mStopRequested, mQueue, runner, cur>>

CloseAdmission ==
  /\ ~mAdmissionClosed /\ mAdmissionClosed' = TRUE
  /\ UNCHANGED <<mOptions, mUsed, mStopRequested, mQueue, budget, job, runner, cur>>

MutantRequestStop ==
  /\ ~mStopRequested /\ mStopRequested' = TRUE /\ mAdmissionClosed' = TRUE
  /\ UNCHANGED <<mOptions, mUsed, mQueue, budget, job, runner, cur>>

\* RequestStop, Stop and ~JobRunner.
RequestStop ==
  /\ ~mStopRequested /\ mStopRequested' = TRUE /\ mAdmissionClosed' = TRUE /\ Wake
  /\ UNCHANGED <<mOptions, mUsed, mQueue, budget, job, cur>>

-----------------------------------------------------------------------------
(* RunUntilStopped.                                                        *)

Enter ==
  /\ runner = "outside" /\ runner' = "awake" /\ mUsed' = TRUE
  /\ UNCHANGED <<mOptions, mAdmissionClosed, mStopRequested, mQueue, budget, job, cur>>

MutantReturns == mStopRequested

\* The loop returns only when it was asked to and nothing accepted is left.
Returns == mStopRequested /\ mQueue = <<>>

Await ==
  /\ runner = "awake" /\ ~Returns /\ mQueue = <<>> /\ runner' = "waiting"
  /\ UNCHANGED <<mOptions, mUsed, mAdmissionClosed, mStopRequested, mQueue, budget, job, cur>>

Leave ==
  /\ runner = "awake" /\ Returns /\ runner' = "returned"
  /\ UNCHANGED <<mOptions, mUsed, mAdmissionClosed, mStopRequested, mQueue, budget, job, cur>>

Take ==
  /\ runner = "awake" /\ ~Returns /\ mQueue # <<>>
  /\ cur' = Head(mQueue) /\ mQueue' = Tail(mQueue) /\ runner' = "running"
  /\ job' = [job EXCEPT ![Head(mQueue)] = "running"]
  /\ UNCHANGED <<mOptions, mUsed, mAdmissionClosed, mStopRequested, budget>>

\* The callback returns; its captures die before its budget is returned.
JobReturns ==
  /\ runner = "running" /\ runner' = "releasing"
  /\ UNCHANGED <<mOptions, mUsed, mAdmissionClosed, mStopRequested, mQueue, budget, job, cur>>

Finish ==
  /\ runner = "releasing" /\ Release(cur)
  /\ job' = [job EXCEPT ![cur] = "ran"] /\ cur' = NoJob /\ runner' = "awake"
  /\ UNCHANGED <<mOptions, mUsed, mAdmissionClosed, mStopRequested, mQueue>>

-----------------------------------------------------------------------------
Consumer == Await \/ Leave \/ Take \/ JobReturns \/ Finish

RunnerNext ==
  \/ \E i \in DOMAIN Options : Configure(Options[i])
  \/ \E j \in Jobs : Post(j) \/ Reserve(j) \/ PostReserved(j) \/ Drop(j)
  \/ CloseAdmission \/ RequestStop \/ Enter \/ Consumer

RunnerSpec == RunnerInit /\ [][RunnerNext]_runnerVars

-----------------------------------------------------------------------------
(* Properties.                                                             *)

RunnerTypes ==
  /\ mUsed \in BOOLEAN /\ mAdmissionClosed \in BOOLEAN /\ mStopRequested \in BOOLEAN /\ mQueue \in Seq(Jobs)
  /\ {mCount, mBytes, mControlCount, mControlBytes} \subseteq Nat
  /\ job \in [Jobs -> {"new", "rejected", "reserved", "refused", "dropped", "queued", "running",
                       "ran"}]
  /\ runner \in {"outside", "waiting", "awake", "running", "releasing", "returned"}
  /\ cur \in Jobs \cup {NoJob}

Charged(lane) == {j \in lane : job[j] \in {"reserved", "refused", "queued", "running"}}
BytesOf(S) == SumFunctionOnSet(JobBytes, S)

\* LanesAreExact.  Each lane is charged for exactly its reserved, queued and
\* running jobs and stays within the options in force, so that a full
\* application lane never takes room from the control lane and no path returns
\* a slot twice (Charge, Release, ~ReservationState, Configure).
LanesAreExact ==
  LET application == Charged(Jobs \ Control)  control == Charged(Control) IN
    /\ RunnerTypes
    /\ mCount = Cardinality(application) /\ mBytes = BytesOf(application)
    /\ mControlCount = Cardinality(control) /\ mControlBytes = BytesOf(control)
    /\ mCount <= mOptions.jobs /\ mBytes <= mOptions.bytes
    /\ mControlCount <= mOptions.controlJobs /\ mControlBytes <= mOptions.controlBytes

\* AcceptedJobsRun.  When RunUntilStopped has returned, every job that was
\* accepted has run: no post, direct or of a reservation, slips in between its
\* last test and its return (JobRunner.h:55-57 promises that RunUntilStopped
\* runs all that was accepted before RequestStop).
AcceptedJobsRun == runner = "returned" => \A j \in Jobs : job[j] \notin {"queued", "running"}

\* ReservationsKept.  A reservation is refused only after RequestStop: closing
\* admission, or a lane that filled up in the meantime, does not break it
\* (JobRunner.h:72, "CloseAdmission preserves slots").
ReservationKept == \A j \in Jobs : job[j] = "reserved" /\ job'[j] = "refused" => mStopRequested
ReservationsKept == [][ReservationKept]_runnerVars

\* NoWakeupIsLost.  The consumer sleeps only while there is nothing to run and no
\* stop: whatever comes after its test finds it awake or wakes it.
NoWakeupIsLost == runner = "waiting" => mQueue = <<>> /\ ~mStopRequested

\* RunnerIsExact.  The JobRunner, all in all.
RunnerIsExact == LanesAreExact /\ AcceptedJobsRun /\ NoWakeupIsLost

-----------------------------------------------------------------------------
(* The proofs of RunnerIsExact and ReservationsKept, for any jobs, sizes   *)
(* and options.                                                            *)

Limits == [jobs : Nat \ {0}, bytes : Nat \ {0}, controlJobs : Nat \ {0}, controlBytes : Nat \ {0}]

\* The constants, fact by fact.
LEMMA Constants ==
  /\ IsFiniteSet(Jobs) /\ JobBytes \in [Jobs -> Nat] /\ Control \subseteq Jobs /\ NoJob \notin Jobs
  /\ \A i \in DOMAIN Options : Options[i] \in Limits
  /\ Options[1] \in Limits
<1>1. Options \in Seq(Limits) /\ Options # <<>>
  BY JobRunnerAssumption DEF Limits
<1>2. (\A i \in DOMAIN Options : Options[i] \in Limits) /\ Options[1] \in Limits
  BY <1>1
<1> QED
  BY <1>2, JobRunnerAssumption

Counted == {"reserved", "refused", "queued", "running"}

\* The queue holds exactly the queued jobs, each once.
QueueIsExact ==
  /\ \A i \in 1..Len(mQueue) : job[mQueue[i]] = "queued"
  /\ \A i, k \in 1..Len(mQueue) : mQueue[i] = mQueue[k] => i = k
  /\ \A j \in Jobs : job[j] = "queued" => \E i \in 1..Len(mQueue) : mQueue[i] = j

\* The consumer has the one running job while it runs or releases it.
OneRuns ==
  /\ runner \in {"running", "releasing"} <=> cur # NoJob
  /\ \A j \in Jobs : job[j] = "running" <=> cur = j

\* Options change only while nothing was ever charged.
UnusedIsEmpty == ~mUsed => \A j \in Jobs : job[j] \in {"new", "rejected"}

\* A consumer that returned was asked to stop, and found nothing.
ReturnedIsDone == runner = "returned" => mStopRequested /\ mQueue = <<>>

\* The inductive invariant of RunnerIsExact.
RunnerInvariant ==
  /\ LanesAreExact /\ mOptions \in Limits
  /\ QueueIsExact /\ OneRuns /\ UnusedIsEmpty /\ ReturnedIsDone /\ NoWakeupIsLost

\* RunnerTypes without the counters.
StateTypes ==
  /\ mUsed \in BOOLEAN /\ mAdmissionClosed \in BOOLEAN /\ mStopRequested \in BOOLEAN /\ mQueue \in Seq(Jobs)
  /\ job \in [Jobs -> {"new", "rejected", "reserved", "refused", "dropped", "queued", "running", "ran"}]
  /\ runner \in {"outside", "waiting", "awake", "running", "releasing", "returned"}
  /\ cur \in Jobs \cup {NoJob}

\* What a job adds to or takes from the count and the bytes of a set of jobs.
LEMMA JobCounts ==
  ASSUME NEW S \in SUBSET Jobs
  PROVE  /\ Cardinality(S) \in Nat /\ BytesOf(S) \in Nat
         /\ \A j \in Jobs \ S : /\ Cardinality(S \cup {j}) = Cardinality(S) + 1
                                /\ BytesOf(S \cup {j}) = BytesOf(S) + JobBytes[j]
         /\ \A j \in S : /\ Cardinality(S \ {j}) = Cardinality(S) - 1
                         /\ BytesOf(S \ {j}) = BytesOf(S) - JobBytes[j]
<1>1. IsFiniteSet(S) /\ \A j \in S : JobBytes[j] \in Nat
  BY Constants, FS_Subset
<1>2. Cardinality(S) \in Nat /\ BytesOf(S) \in Nat
  BY <1>1, FS_CardinalityType, SumIsNatural DEF BytesOf
<1>3. ASSUME NEW j \in Jobs \ S
      PROVE  Cardinality(S \cup {j}) = Cardinality(S) + 1 /\ BytesOf(S \cup {j}) = BytesOf(S) + JobBytes[j]
  <2>1. \A y \in S \cup {j} : JobBytes[y] \in Int
    BY Constants
  <2> QED
    BY <1>1, <2>1, FS_AddElement, SumAdds DEF BytesOf
<1>4. ASSUME NEW j \in S
      PROVE  Cardinality(S \ {j}) = Cardinality(S) - 1 /\ BytesOf(S \ {j}) = BytesOf(S) - JobBytes[j]
  <2>1. IsFiniteSet(S \ {j}) /\ Cardinality(S \ {j}) = Cardinality(S) - 1
    BY <1>1, FS_RemoveElement
  <2>2. BytesOf(S) = JobBytes[j] + BytesOf(S \ {j})
    <3>1. \A y \in S : JobBytes[y] \in Int
      BY <1>1
    <3> QED
      BY <1>1, <3>1, SumRemoves DEF BytesOf
  <2>3. BytesOf(S \ {j}) \in Nat
    BY <1>1, <2>1, SumIsNatural DEF BytesOf
  <2> QED
    BY <2>1, <2>2, <2>3, <1>1
<1> QED
  BY <1>2, <1>3, <1>4

\* A job that Charge admits is counted in its lane, within the limits.
LEMMA ChargeIsExact ==
  ASSUME RunnerInvariant, NEW j \in Jobs, job[j] = "new", Admission(j), Charge(j), UNCHANGED mOptions,
         NEW s \in {"queued", "reserved"}, job' = [job EXCEPT ![j] = s], StateTypes'
  PROVE  LanesAreExact'
<1> DEFINE A == Charged(Jobs \ Control)  C == Charged(Control)
<1> USE Constants
<1>1. A \in SUBSET Jobs /\ C \in SUBSET Jobs /\ j \notin A /\ j \notin C
  BY DEF Charged
<1>2. job \in [Jobs -> {"new", "rejected", "reserved", "refused", "dropped", "queued", "running", "ran"}]
  BY DEF RunnerInvariant, LanesAreExact, RunnerTypes
<1>3. Charged(Jobs \ Control)' = IF j \in Control THEN A ELSE A \cup {j}
  BY <1>2 DEF Charged
<1>4. Charged(Control)' = IF j \in Control THEN C \cup {j} ELSE C
  BY <1>2 DEF Charged
<1>5. /\ mCount = Cardinality(A) /\ mBytes = BytesOf(A) /\ mControlCount = Cardinality(C) /\ mControlBytes = BytesOf(C)
      /\ mCount <= mOptions.jobs /\ mBytes <= mOptions.bytes
      /\ mControlCount <= mOptions.controlJobs /\ mControlBytes <= mOptions.controlBytes
  BY DEF RunnerInvariant, LanesAreExact
<1>6. /\ mOptions.jobs \in Nat /\ mOptions.bytes \in Nat /\ mOptions.controlJobs \in Nat /\ mOptions.controlBytes \in Nat
      /\ JobBytes[j] \in Nat /\ mOptions' = mOptions
  BY DEF RunnerInvariant, Limits
<1> HIDE DEF A, C
<1>7. /\ Cardinality(A) \in Nat /\ BytesOf(A) \in Nat /\ Cardinality(C) \in Nat /\ BytesOf(C) \in Nat
      /\ Cardinality(A \cup {j}) = Cardinality(A) + 1 /\ BytesOf(A \cup {j}) = BytesOf(A) + JobBytes[j]
      /\ Cardinality(C \cup {j}) = Cardinality(C) + 1 /\ BytesOf(C \cup {j}) = BytesOf(C) + JobBytes[j]
  BY <1>1, JobCounts
<1>8. /\ mCount' = Cardinality(Charged(Jobs \ Control)') /\ mBytes' = BytesOf(Charged(Jobs \ Control)')
      /\ mControlCount' = Cardinality(Charged(Control)') /\ mControlBytes' = BytesOf(Charged(Control)')
  BY <1>3, <1>4, <1>5, <1>7 DEF Charge
<1>9. /\ mCount' <= mOptions'.jobs /\ mBytes' <= mOptions'.bytes
      /\ mControlCount' <= mOptions'.controlJobs /\ mControlBytes' <= mOptions'.controlBytes
  BY <1>5, <1>6, <1>7 DEF Charge, Admission
<1>10. RunnerTypes'
  <2>1. Charged(Jobs \ Control)' \in SUBSET Jobs /\ Charged(Control)' \in SUBSET Jobs
    BY <1>1, <1>3, <1>4
  <2>2. mCount' \in Nat /\ mBytes' \in Nat /\ mControlCount' \in Nat /\ mControlBytes' \in Nat
    BY <1>8, <2>1, JobCounts
  <2> QED
    BY <2>2 DEF RunnerTypes, StateTypes
<1> QED
  BY <1>8, <1>9, <1>10 DEF LanesAreExact, BytesOf

\* What Release takes was counted, once.
LEMMA ReleaseIsExact ==
  ASSUME RunnerInvariant, NEW j \in Jobs, job[j] \in Counted, Release(j), UNCHANGED mOptions,
         NEW s \in {"dropped", "ran"}, job' = [job EXCEPT ![j] = s], StateTypes'
  PROVE  LanesAreExact'
<1> DEFINE A == Charged(Jobs \ Control)  C == Charged(Control)
<1> USE Constants
<1>1. A \in SUBSET Jobs /\ C \in SUBSET Jobs /\ j \in (IF j \in Control THEN C ELSE A)
  BY DEF Charged, Counted
<1>2. job \in [Jobs -> {"new", "rejected", "reserved", "refused", "dropped", "queued", "running", "ran"}]
  BY DEF RunnerInvariant, LanesAreExact, RunnerTypes
<1>3. Charged(Jobs \ Control)' = IF j \in Control THEN A ELSE A \ {j}
  BY <1>2 DEF Charged
<1>4. Charged(Control)' = IF j \in Control THEN C \ {j} ELSE C
  BY <1>2 DEF Charged
<1>5. /\ mCount = Cardinality(A) /\ mBytes = BytesOf(A) /\ mControlCount = Cardinality(C) /\ mControlBytes = BytesOf(C)
      /\ mCount <= mOptions.jobs /\ mBytes <= mOptions.bytes
      /\ mControlCount <= mOptions.controlJobs /\ mControlBytes <= mOptions.controlBytes
  BY DEF RunnerInvariant, LanesAreExact
<1>6. /\ mOptions.jobs \in Nat /\ mOptions.bytes \in Nat /\ mOptions.controlJobs \in Nat /\ mOptions.controlBytes \in Nat
      /\ JobBytes[j] \in Nat /\ mOptions' = mOptions
  BY DEF RunnerInvariant, Limits
<1> HIDE DEF A, C
<1>7. /\ Cardinality(A) \in Nat /\ BytesOf(A) \in Nat /\ Cardinality(C) \in Nat /\ BytesOf(C) \in Nat
      /\ j \in A => Cardinality(A \ {j}) = Cardinality(A) - 1 /\ BytesOf(A \ {j}) = BytesOf(A) - JobBytes[j]
      /\ j \in C => Cardinality(C \ {j}) = Cardinality(C) - 1 /\ BytesOf(C \ {j}) = BytesOf(C) - JobBytes[j]
  BY <1>1, JobCounts
<1>8. /\ mCount' = Cardinality(Charged(Jobs \ Control)') /\ mBytes' = BytesOf(Charged(Jobs \ Control)')
      /\ mControlCount' = Cardinality(Charged(Control)') /\ mControlBytes' = BytesOf(Charged(Control)')
  BY <1>1, <1>3, <1>4, <1>5, <1>7 DEF Release
<1>9. /\ mCount' <= mOptions'.jobs /\ mBytes' <= mOptions'.bytes
      /\ mControlCount' <= mOptions'.controlJobs /\ mControlBytes' <= mOptions'.controlBytes
  BY <1>1, <1>5, <1>6, <1>7 DEF Release
<1>10. RunnerTypes'
  <2>1. Charged(Jobs \ Control)' \in SUBSET Jobs /\ Charged(Control)' \in SUBSET Jobs
    BY <1>1, <1>3, <1>4
  <2>2. mCount' \in Nat /\ mBytes' \in Nat /\ mControlCount' \in Nat /\ mControlBytes' \in Nat
    BY <1>8, <2>1, JobCounts
  <2> QED
    BY <2>2 DEF RunnerTypes, StateTypes
<1> QED
  BY <1>8, <1>9, <1>10 DEF LanesAreExact, BytesOf

\* A step that counts and uncounts nothing keeps the lanes.
LEMMA LanesStay ==
  ASSUME RunnerInvariant, UNCHANGED <<mOptions, budget>>, RunnerTypes',
         \A j \in Jobs : job'[j] \in Counted <=> job[j] \in Counted
  PROVE  LanesAreExact'
<1>1. Charged(Jobs \ Control)' = Charged(Jobs \ Control) /\ Charged(Control)' = Charged(Control)
  BY Constants DEF Charged, Counted
<1> QED
  BY <1>1 DEF RunnerInvariant, LanesAreExact, budget, BytesOf

LEMMA RunnerStarts == ASSUME RunnerInit PROVE RunnerInvariant
<1>1. mOptions \in Limits
  BY Constants DEF RunnerInit
<1>2. RunnerTypes
  <2>1. job \in [Jobs -> {"new", "rejected", "reserved", "refused", "dropped", "queued", "running", "ran"}]
    BY DEF RunnerInit
  <2>2. mQueue \in Seq(Jobs)
    BY DEF RunnerInit
  <2>3. {mCount, mBytes, mControlCount, mControlBytes} \subseteq Nat
    BY DEF RunnerInit
  <2> QED
    BY <2>1, <2>2, <2>3, Zenon DEF RunnerInit, RunnerTypes
<1>3. Charged(Jobs \ Control) = {} /\ Charged(Control) = {}
  BY Constants DEF RunnerInit, Charged
<1>4. Cardinality({}) = 0 /\ BytesOf({}) = 0
  BY FS_EmptySet, SumOfNone DEF BytesOf
<1>5. LanesAreExact
  <2>1. mOptions.jobs \in Nat /\ mOptions.bytes \in Nat /\ mOptions.controlJobs \in Nat /\ mOptions.controlBytes \in Nat
    BY <1>1 DEF Limits
  <2>2. 0 <= mOptions.jobs /\ 0 <= mOptions.bytes /\ 0 <= mOptions.controlJobs /\ 0 <= mOptions.controlBytes
    BY <2>1
  <2> QED
    BY <1>2, <1>3, <1>4, <2>2, Zenon DEF RunnerInit, LanesAreExact
<1>6. QueueIsExact
  BY DEF RunnerInit, QueueIsExact
<1>7. OneRuns /\ UnusedIsEmpty /\ ReturnedIsDone /\ NoWakeupIsLost
  BY Constants DEF RunnerInit, OneRuns, UnusedIsEmpty, ReturnedIsDone, NoWakeupIsLost
<1> QED
  BY <1>1, <1>5, <1>6, <1>7 DEF RunnerInvariant

\* A job that is appended to the queue becomes queued.
LEMMA QueueGrows ==
  ASSUME RunnerTypes, QueueIsExact, NEW j \in Jobs, job[j] # "queued",
         mQueue' = Append(mQueue, j), job' = [job EXCEPT ![j] = "queued"]
  PROVE  QueueIsExact'
<1>1. Len(mQueue) \in Nat /\ Len(mQueue') = Len(mQueue) + 1 /\ mQueue'[Len(mQueue) + 1] = j
      /\ \A i \in 1..Len(mQueue) : mQueue'[i] = mQueue[i] /\ mQueue[i] \in Jobs
  BY DEF RunnerTypes
<1>2. job'[j] = "queued" /\ \A k \in Jobs : k # j => job'[k] = job[k]
  BY DEF RunnerTypes
<1>3. \A i \in 1..Len(mQueue') : job'[mQueue'[i]] = "queued"
  BY <1>1, <1>2 DEF QueueIsExact
<1>4. \A i, k \in 1..Len(mQueue') : mQueue'[i] = mQueue'[k] => i = k
  BY <1>1 DEF QueueIsExact
<1>5. \A k \in Jobs : job'[k] = "queued" => \E i \in 1..Len(mQueue') : mQueue'[i] = k
  BY <1>1, <1>2 DEF QueueIsExact
<1> QED
  BY <1>3, <1>4, <1>5 DEF QueueIsExact

\* The job at the head of the queue leaves it.
LEMMA QueueShrinks ==
  ASSUME RunnerTypes, QueueIsExact, mQueue # <<>>, mQueue' = Tail(mQueue), job' = [job EXCEPT ![Head(mQueue)] = "running"]
  PROVE  QueueIsExact'
<1>1. Len(mQueue) \in Nat \ {0} /\ Len(mQueue') = Len(mQueue) - 1 /\ Head(mQueue) = mQueue[1] /\ mQueue[1] \in Jobs
      /\ \A i \in 1..Len(mQueue') : mQueue'[i] = mQueue[i + 1] /\ mQueue'[i] \in Jobs
  BY DEF RunnerTypes
<1>2. job'[mQueue[1]] = "running" /\ \A k \in Jobs : k # mQueue[1] => job'[k] = job[k]
  BY <1>1 DEF RunnerTypes
<1>3. \A i \in 1..Len(mQueue') : job'[mQueue'[i]] = "queued"
  BY <1>1, <1>2 DEF QueueIsExact
<1>4. \A i, k \in 1..Len(mQueue') : mQueue'[i] = mQueue'[k] => i = k
  BY <1>1 DEF QueueIsExact
<1>5. ASSUME NEW k \in Jobs, job'[k] = "queued" PROVE \E i \in 1..Len(mQueue') : mQueue'[i] = k
  <2>1. k # mQueue[1] /\ job[k] = "queued"
    BY <1>2, <1>5
  <2>2. PICK i \in 1..Len(mQueue) : mQueue[i] = k
    BY <2>1 DEF QueueIsExact
  <2>3. i - 1 \in 1..Len(mQueue') /\ mQueue'[i - 1] = k
    BY <1>1, <2>1, <2>2
  <2> QED
    BY <2>3
<1> QED
  BY <1>3, <1>4, <1>5 DEF QueueIsExact

\* A step that leaves the queue alone and makes no job queued or not queued.
LEMMA QueueStays ==
  ASSUME RunnerTypes, QueueIsExact, UNCHANGED mQueue, \A j \in Jobs : job'[j] = "queued" <=> job[j] = "queued"
  PROVE  QueueIsExact'
<1>1. \A i \in 1..Len(mQueue) : mQueue[i] \in Jobs
  BY DEF RunnerTypes
<1> QED
  BY <1>1 DEF QueueIsExact

\* Every step keeps the invariant.
LEMMA RunnerSteps == ASSUME RunnerInvariant, [RunnerNext]_runnerVars PROVE RunnerInvariant'
<1>0. RunnerTypes
  BY DEF RunnerInvariant, LanesAreExact
<1>1. CASE UNCHANGED runnerVars
  <2>1. RunnerTypes'
    BY <1>0, <1>1 DEF RunnerTypes, runnerVars, budget
  <2>2. LanesAreExact'
    BY <1>1, <2>1, LanesStay DEF runnerVars
  <2>3. QueueIsExact'
    BY <1>0, <1>1, QueueStays DEF runnerVars, RunnerInvariant
  <2> QED
    BY <1>1, <2>2, <2>3 DEF runnerVars, RunnerInvariant, OneRuns, UnusedIsEmpty, ReturnedIsDone, NoWakeupIsLost
<1>2. ASSUME NEW i \in DOMAIN Options, Configure(Options[i]) PROVE RunnerInvariant'
  <2>1. /\ Options[i] \in Limits
        /\ {Options[i].jobs, Options[i].bytes, Options[i].controlJobs, Options[i].controlBytes} \subseteq Nat
    BY Constants DEF Limits
  <2>2. RunnerTypes'
    BY <1>0, <1>2 DEF RunnerTypes, Configure, budget
  <2>3. LanesAreExact'
    <3>1. CASE Options[i] = mOptions
      BY <1>2, <2>2, <3>1, LanesStay DEF Configure
    <3>2. CASE ~mUsed
      <4>1. Charged(Jobs \ Control) = {} /\ Charged(Control) = {}
        BY <3>2, Constants DEF RunnerInvariant, UnusedIsEmpty, Charged
      <4>2. Cardinality({}) = 0 /\ BytesOf({}) = 0
        BY FS_EmptySet, SumOfNone DEF BytesOf
      <4>3. Charged(Jobs \ Control)' = {} /\ Charged(Control)' = {}
        BY <4>1, <1>2 DEF Charged, Configure
      <4>4. mCount' = 0 /\ mBytes' = 0 /\ mControlCount' = 0 /\ mControlBytes' = 0
        BY <1>2, <4>1, <4>2 DEF Configure, budget, RunnerInvariant, LanesAreExact
      <4> QED
        BY <1>2, <2>1, <2>2, <4>2, <4>3, <4>4 DEF Configure, LanesAreExact, BytesOf
    <3> QED
      BY <1>2, <3>1, <3>2 DEF Configure, Configurable
  <2>4. QueueIsExact'
    BY <1>0, <1>2, QueueStays DEF Configure, RunnerInvariant
  <2> QED
    BY <1>2, <2>1, <2>3, <2>4 DEF Configure, RunnerInvariant, OneRuns, UnusedIsEmpty, ReturnedIsDone, NoWakeupIsLost
<1>3. ASSUME NEW j \in Jobs, Post(j) \/ Reserve(j), ~Admission(j) PROVE RunnerInvariant'
  <2>0. Refuse(j) /\ job[j] = "new"
    BY <1>3 DEF Post, Reserve
  <2>1. RunnerTypes' /\ job'[j] = "rejected" /\ \A k \in Jobs : k # j => job'[k] = job[k]
    BY <1>0, <2>0 DEF RunnerTypes, Refuse, budget
  <2>2. LanesAreExact'
    BY <2>0, <2>1, LanesStay DEF Refuse, Counted
  <2>3. QueueIsExact'
    BY <1>0, <2>0, <2>1, QueueStays DEF Refuse, RunnerInvariant
  <2> QED
    BY <2>0, <2>1, <2>2, <2>3 DEF Refuse, RunnerInvariant, OneRuns, UnusedIsEmpty, ReturnedIsDone, NoWakeupIsLost
<1>4. ASSUME NEW j \in Jobs, Post(j), Admission(j) PROVE RunnerInvariant'
  <2>1. /\ job[j] = "new" /\ Admission(j) /\ Charge(j) /\ mQueue' = Append(mQueue, j)
        /\ job' = [job EXCEPT ![j] = "queued"] /\ Wake /\ UNCHANGED <<mOptions, mAdmissionClosed, mStopRequested, cur>>
    BY <1>4 DEF Post
  <2>2. StateTypes' /\ job'[j] = "queued" /\ \A k \in Jobs : k # j => job'[k] = job[k]
    BY <1>0, <2>1 DEF RunnerTypes, StateTypes, Charge, Wake
  <2>3. LanesAreExact'
    BY <2>1, <2>2, ChargeIsExact
  <2>4. QueueIsExact'
    BY <1>0, <2>1, QueueGrows DEF RunnerInvariant
  <2> QED
    BY <2>1, <2>2, <2>3, <2>4
       DEF Wake, Charge, Admission, RunnerInvariant, OneRuns, UnusedIsEmpty, ReturnedIsDone, NoWakeupIsLost
<1>5. ASSUME NEW j \in Jobs, Reserve(j), Admission(j) PROVE RunnerInvariant'
  <2>1. /\ job[j] = "new" /\ Admission(j) /\ Charge(j) /\ job' = [job EXCEPT ![j] = "reserved"]
        /\ UNCHANGED <<mOptions, mAdmissionClosed, mStopRequested, mQueue, runner, cur>>
    BY <1>5 DEF Reserve
  <2>2. StateTypes' /\ job'[j] = "reserved" /\ \A k \in Jobs : k # j => job'[k] = job[k]
    BY <1>0, <2>1 DEF RunnerTypes, StateTypes, Charge
  <2>3. LanesAreExact'
    BY <2>1, <2>2, ChargeIsExact
  <2>4. QueueIsExact'
    BY <1>0, <2>1, <2>2, QueueStays DEF RunnerInvariant
  <2> QED
    BY <2>1, <2>2, <2>3, <2>4 DEF Charge, RunnerInvariant, OneRuns, UnusedIsEmpty, ReturnedIsDone, NoWakeupIsLost
<1>6. ASSUME NEW j \in Jobs, PostReserved(j) PROVE RunnerInvariant'
  <2>1. CASE Postable
    <3>1. /\ job[j] = "reserved" /\ ~mStopRequested /\ mQueue' = Append(mQueue, j) /\ job' = [job EXCEPT ![j] = "queued"] /\ Wake
          /\ UNCHANGED <<mOptions, mUsed, mAdmissionClosed, mStopRequested, budget, cur>>
      BY <1>6, <2>1 DEF PostReserved, Postable
    <3>2. RunnerTypes' /\ job'[j] = "queued" /\ \A k \in Jobs : k # j => job'[k] = job[k]
      BY <1>0, <3>1 DEF RunnerTypes, Wake, budget
    <3>3. LanesAreExact'
      BY <3>1, <3>2, LanesStay DEF Counted
    <3>4. QueueIsExact'
      BY <1>0, <3>1, QueueGrows DEF RunnerInvariant
    <3> QED
      BY <3>1, <3>2, <3>3, <3>4 DEF Wake, RunnerInvariant, OneRuns, UnusedIsEmpty, ReturnedIsDone, NoWakeupIsLost
  <2>2. CASE ~Postable
    <3>1. /\ job[j] = "reserved" /\ job' = [job EXCEPT ![j] = "refused"]
          /\ UNCHANGED <<mOptions, mUsed, mAdmissionClosed, mStopRequested, mQueue, budget, runner, cur>>
      BY <1>6, <2>2 DEF PostReserved
    <3>2. RunnerTypes' /\ job'[j] = "refused" /\ \A k \in Jobs : k # j => job'[k] = job[k]
      BY <1>0, <3>1 DEF RunnerTypes, budget
    <3>3. LanesAreExact'
      BY <3>1, <3>2, LanesStay DEF Counted
    <3>4. QueueIsExact'
      BY <1>0, <3>1, <3>2, QueueStays DEF RunnerInvariant
    <3> QED
      BY <3>1, <3>2, <3>3, <3>4 DEF RunnerInvariant, OneRuns, UnusedIsEmpty, ReturnedIsDone, NoWakeupIsLost
  <2> QED
    BY <2>1, <2>2
<1>7. ASSUME NEW j \in Jobs, Drop(j) PROVE RunnerInvariant'
  <2>1. /\ job[j] \in {"reserved", "refused"} /\ Release(j) /\ job' = [job EXCEPT ![j] = "dropped"]
        /\ UNCHANGED <<mOptions, mUsed, mAdmissionClosed, mStopRequested, mQueue, runner, cur>>
    BY <1>7 DEF Drop
  <2>2. StateTypes' /\ job'[j] = "dropped" /\ \A k \in Jobs : k # j => job'[k] = job[k]
    BY <1>0, <2>1 DEF RunnerTypes, StateTypes, Release
  <2>3. LanesAreExact'
    BY <2>1, <2>2, ReleaseIsExact DEF Counted
  <2>4. QueueIsExact'
    BY <1>0, <2>1, <2>2, QueueStays DEF RunnerInvariant
  <2> QED
    BY <2>1, <2>2, <2>3, <2>4 DEF RunnerInvariant, OneRuns, UnusedIsEmpty, ReturnedIsDone, NoWakeupIsLost
<1>8. CASE CloseAdmission \/ RequestStop \/ Enter \/ Await \/ Leave \/ JobReturns
  <2>1. RunnerTypes' /\ UNCHANGED <<mOptions, budget, mQueue, job, cur>> /\ (mUsed => mUsed')
    BY <1>0, <1>8 DEF RunnerTypes, CloseAdmission, RequestStop, Enter, Await, Leave, JobReturns, Wake, budget
  <2>2. LanesAreExact'
    BY <2>1, LanesStay
  <2>3. QueueIsExact'
    BY <1>0, <2>1, QueueStays DEF RunnerInvariant
  <2>4. OneRuns' /\ UnusedIsEmpty'
    BY <1>0, <1>8, <2>1 DEF RunnerInvariant, OneRuns, UnusedIsEmpty, RunnerTypes, CloseAdmission, RequestStop, Enter, Await,
                      Leave, JobReturns, Wake
  <2>5. ReturnedIsDone' /\ NoWakeupIsLost'
    BY <1>0, <1>8, <2>1 DEF RunnerInvariant, ReturnedIsDone, NoWakeupIsLost, RunnerTypes, CloseAdmission, RequestStop, Enter, Await,
                      Leave, JobReturns, Wake, Returns
  <2> QED
    BY <2>1, <2>2, <2>3, <2>4, <2>5 DEF RunnerInvariant
<1>9. CASE Take
  <2> DEFINE h == Head(mQueue)
  <2>1. /\ mQueue # <<>> /\ runner = "awake" /\ cur' = h /\ mQueue' = Tail(mQueue) /\ runner' = "running"
        /\ job' = [job EXCEPT ![h] = "running"] /\ UNCHANGED <<mOptions, mUsed, mAdmissionClosed, mStopRequested, budget>>
    BY <1>9 DEF Take
  <2>2. h \in Jobs /\ job[h] = "queued" /\ Tail(mQueue) \in Seq(Jobs)
    <3>1. mQueue \in Seq(Jobs) /\ Len(mQueue) \in Nat \ {0}
      BY <1>0, <2>1 DEF RunnerTypes
    <3>2. h = mQueue[1] /\ 1 \in 1..Len(mQueue) /\ h \in Jobs /\ Tail(mQueue) \in Seq(Jobs)
      BY <2>1, <3>1
    <3> QED
      BY <3>2 DEF RunnerInvariant, QueueIsExact
  <2>3. RunnerTypes' /\ job'[h] = "running" /\ \A k \in Jobs : k # h => job'[k] = job[k]
    BY <1>0, <2>1, <2>2 DEF RunnerTypes, budget
  <2>4. LanesAreExact'
    BY <2>1, <2>2, <2>3, LanesStay DEF Counted
  <2>5. QueueIsExact'
    BY <1>0, <2>1, QueueShrinks DEF RunnerInvariant
  <2> HIDE DEF h
  <2>6. OneRuns'
    <3>1. cur = NoJob /\ \A k \in Jobs : job[k] # "running"
      BY <2>1, Constants DEF RunnerInvariant, OneRuns
    <3> QED
      BY <2>1, <2>2, <2>3, <3>1, Constants DEF OneRuns
  <2>7. UnusedIsEmpty' /\ ReturnedIsDone' /\ NoWakeupIsLost' /\ mOptions' \in Limits
    BY <2>1, <2>2, <2>3 DEF RunnerInvariant, UnusedIsEmpty, ReturnedIsDone, NoWakeupIsLost
  <2> QED
    BY <2>4, <2>5, <2>6, <2>7 DEF RunnerInvariant
<1>10. CASE Finish
  <2>1. /\ runner = "releasing" /\ Release(cur) /\ job' = [job EXCEPT ![cur] = "ran"] /\ cur' = NoJob /\ runner' = "awake"
        /\ UNCHANGED <<mOptions, mUsed, mAdmissionClosed, mStopRequested, mQueue>>
    BY <1>10 DEF Finish
  <2>2. cur \in Jobs /\ job[cur] = "running"
    BY <1>0, <2>1 DEF RunnerTypes, RunnerInvariant, OneRuns
  <2>3. StateTypes' /\ job'[cur] = "ran" /\ \A k \in Jobs : k # cur => job'[k] = job[k]
    BY <1>0, <2>1, <2>2 DEF RunnerTypes, StateTypes, Release
  <2>4. LanesAreExact'
    BY <2>1, <2>2, <2>3, ReleaseIsExact DEF Counted
  <2>5. QueueIsExact'
    BY <1>0, <2>1, <2>2, <2>3, QueueStays DEF RunnerInvariant
  <2>6. OneRuns'
    BY <2>1, <2>2, <2>3, Constants DEF RunnerInvariant, OneRuns
  <2>7. UnusedIsEmpty' /\ ReturnedIsDone' /\ NoWakeupIsLost' /\ mOptions' \in Limits
    BY <2>1, <2>2, <2>3 DEF RunnerInvariant, UnusedIsEmpty, ReturnedIsDone, NoWakeupIsLost
  <2> QED
    BY <2>4, <2>5, <2>6, <2>7 DEF RunnerInvariant
<1> QED
  BY <1>1, <1>2, <1>3, <1>4, <1>5, <1>6, <1>7, <1>8, <1>9, <1>10 DEF RunnerNext, Consumer

\* RunnerKeepsItsBudgets.  Whatever is posted, reserved, dropped, configured, closed
\* and stopped meanwhile, each lane of JobRunner is charged for exactly its jobs
\* and stays within the options in force, the consumer never sleeps beside a job
\* or a stop, and RunUntilStopped returns after the last job accepted.
THEOREM RunnerKeepsItsBudgets == RunnerSpec => []RunnerIsExact
<1>1. RunnerInit => RunnerInvariant
  BY RunnerStarts
<1>2. RunnerInvariant /\ [RunnerNext]_runnerVars => RunnerInvariant'
  BY RunnerSteps
<1>3. RunnerInvariant => RunnerIsExact
  <2>1. RunnerInvariant => AcceptedJobsRun
    BY Constants DEF RunnerInvariant, QueueIsExact, OneRuns, ReturnedIsDone, AcceptedJobsRun
  <2> QED
    BY <2>1 DEF RunnerInvariant, RunnerIsExact
<1> QED
  BY <1>1, <1>2, <1>3, PTL DEF RunnerSpec

\* ReservationsAreHonoured.  A reservation is refused only after RequestStop,
\* however full the lane has become and although admission is closed.
THEOREM ReservationsAreHonoured == RunnerSpec => ReservationsKept
<1>1. ASSUME RunnerTypes, [RunnerNext]_runnerVars PROVE ReservationKept
  <2> SUFFICES ASSUME NEW k \in Jobs, job[k] = "reserved", job'[k] = "refused" PROVE mStopRequested
    BY DEF ReservationKept
  <2>1. ~UNCHANGED job
    OBVIOUS
  <2>2. \A j \in Jobs : ~Post(j) /\ ~Reserve(j) /\ ~Drop(j)
    BY <1>1 DEF RunnerTypes, Post, Reserve, Drop, Refuse
  <2>3. \A j \in Jobs : PostReserved(j) => mStopRequested
    BY <1>1 DEF RunnerTypes, PostReserved, Postable
  <2>4. ~Take /\ ~Finish
    BY <1>1 DEF RunnerTypes, Take, Finish
  <2>5. ~(CloseAdmission \/ RequestStop \/ Enter \/ Await \/ Leave \/ JobReturns \/ UNCHANGED runnerVars)
        /\ \A i \in DOMAIN Options : ~Configure(Options[i])
    BY <2>1 DEF CloseAdmission, RequestStop, Enter, Await, Leave, JobReturns, Configure, runnerVars
  <2> QED
    BY <1>1, <2>2, <2>3, <2>4, <2>5 DEF RunnerNext, Consumer
<1>2. RunnerIsExact => RunnerTypes
  BY DEF RunnerIsExact, LanesAreExact
<1> QED
  BY <1>1, <1>2, RunnerKeepsItsBudgets, PTL DEF RunnerSpec, ReservationsKept
=============================================================================
