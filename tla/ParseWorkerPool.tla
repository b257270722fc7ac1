--------------------------- MODULE ParseWorkerPool --------------------------
(***************************************************************************)
(* Runtime::ParseWorkerPool: threads that take jobs from one queue.        *)
(* StopAndDiscard takes the queue away and destroys its jobs outside the   *)
(* lock; whoever took the threads joins them.                              *)
(***************************************************************************)
EXTENDS Integers, Sequences, SequencesExt

CONSTANTS Workers, Jobs, Stoppers, Faults, Gone

VARIABLES
  pool,      \* mStarted, mAccepting, mStopRequested, and mWorkers
  queue,     \* *mJobs, or Gone
  worker,    \* each thread: "none", "ready", "asleep", "ended" or its job
  caller,    \* Start and each StopAndDiscard: where it is, what it discards and joins
  job,       \* each job: new, queued, running, ran, discarded
  budget

vars == <<pool, queue, worker, caller, job, budget>>

Init ==
  /\ pool = [started |-> FALSE, accepting |-> FALSE, stop |-> FALSE, workers |-> {}]
  /\ queue = <<>> /\ worker = [w \in Workers |-> "none"]
  /\ caller = [s \in Stoppers \cup {"start"} |-> [at |-> "idle", discards |-> {}, joins |-> {}]]
  /\ job = [j \in Jobs |-> "new"] /\ budget = 0

Awake(set) == [w \in Workers |-> IF w \in set /\ worker[w] = "asleep" THEN "ready" ELSE worker[w]]

\* All the threads, or, when one cannot be made, none: those made are joined.
Start ==
  /\ caller["start"].at = "idle" /\ ~pool.started
  /\ \/ /\ pool' = [started |-> TRUE, accepting |-> TRUE, stop |-> FALSE, workers |-> Workers]
        /\ worker' = [w \in Workers |-> "ready"]
        /\ caller' = [caller EXCEPT !["start"].at = "done"] /\ UNCHANGED budget
     \/ \E made \in SUBSET Workers :
          /\ made # Workers /\ budget < Faults /\ budget' = budget + 1
          /\ pool' = [started |-> TRUE, accepting |-> FALSE, stop |-> TRUE, workers |-> {}]
          /\ worker' = [w \in Workers |-> IF w \in made THEN "ready" ELSE "none"]
          /\ caller' = [caller EXCEPT !["start"].at = "join", !["start"].joins = made]
  /\ UNCHANGED <<queue, job>>

\* notify_one after the section.
Post(j) ==
  /\ job[j] = "new" /\ pool.accepting
  /\ queue' = Append(queue, j) /\ job' = [job EXCEPT ![j] = "queued"]
  /\ \/ ~(\E w \in Workers : worker[w] = "asleep") /\ UNCHANGED worker
     \/ \E w \in Workers : worker[w] = "asleep" /\ worker' = Awake({w})
  /\ UNCHANGED <<pool, caller, budget>>

\* Whom StopAndDiscard wakes.
MutantStopWakes == worker
StopWakes == Awake(Workers)

StopAndDiscard(s) ==
  /\ caller[s].at = "idle" /\ pool.started
  /\ pool' = [pool EXCEPT !.accepting = FALSE, !.stop = TRUE, !.workers = {}]
  /\ caller' = [caller EXCEPT ![s] = [at |-> "discard", joins |-> pool.workers,
                                      discards |-> IF queue = Gone THEN {} ELSE ToSet(queue)]]
  /\ queue' = Gone /\ worker' = StopWakes
  /\ UNCHANGED <<job, budget>>

Discards(s) ==
  /\ caller[s].at = "discard"
  /\ job' = [j \in Jobs |-> IF j \in caller[s].discards THEN "discarded" ELSE job[j]]
  /\ caller' = [caller EXCEPT ![s].at = "join", ![s].discards = {}]
  /\ UNCHANGED <<pool, queue, worker, budget>>

MutantJoined(s) == TRUE
Joined(s) == \A w \in caller[s].joins : worker[w] = "ended"

Joins(s) ==
  /\ caller[s].at = "join" /\ Joined(s)
  /\ caller' = [caller EXCEPT ![s].at = "done"]
  /\ UNCHANGED <<pool, queue, worker, job, budget>>

\* The wait's predicate, and the break: stop is asked first, for there may be
\* no queue then.
RunWorker(w) ==
  /\ worker[w] = "ready"
  /\ IF pool.stop /\ (queue = Gone \/ queue = <<>>)
     THEN worker' = [worker EXCEPT ![w] = "ended"] /\ UNCHANGED <<queue, job>>
     ELSE IF queue = <<>> THEN worker' = [worker EXCEPT ![w] = "asleep"] /\ UNCHANGED <<queue, job>>
     ELSE /\ worker' = [worker EXCEPT ![w] = Head(queue)]
          /\ queue' = Tail(queue) /\ job' = [job EXCEPT ![Head(queue)] = "running"]
  /\ UNCHANGED <<pool, caller, budget>>

Runs(w) ==
  /\ worker[w] \in Jobs
  /\ job' = [job EXCEPT ![worker[w]] = "ran"] /\ worker' = [worker EXCEPT ![w] = "ready"]
  /\ UNCHANGED <<pool, queue, caller, budget>>

Next ==
  \/ Start \/ Joins("start")
  \/ \E j \in Jobs : Post(j)
  \/ \E s \in Stoppers : StopAndDiscard(s) \/ Discards(s) \/ Joins(s)
  \/ \E w \in Workers : RunWorker(w) \/ Runs(w)

Spec == Init /\ [][Next]_vars

-----------------------------------------------------------------------------

TypeOK ==
  /\ queue = Gone \/ \A i \in DOMAIN queue : queue[i] \in Jobs
  /\ \A w \in Workers : worker[w] \in {"none", "ready", "asleep", "ended"} \cup Jobs

\* No thread sleeps while the pool stops, and a queued job always has a thread
\* that will look for it.
NobodySleepsThrough ==
  /\ pool.stop => \A w \in Workers : worker[w] # "asleep"
  /\ queue # Gone /\ queue # <<>> /\ pool.accepting => \E w \in Workers : worker[w] \notin {"asleep", "ended", "none"}

\* Once StopAndDiscard has returned to the caller that took the threads, and
\* once a failed Start has returned, no thread is left and no job runs; a job
\* taken with the queue is discarded, never run.
StopLeavesNoThread ==
  \A s \in DOMAIN caller :
    /\ caller[s].at = "done" => \A w \in caller[s].joins : worker[w] = "ended"
    /\ \A j \in caller[s].discards : job[j] = "queued" /\ \A w \in Workers : worker[w] # j

\* The pool, all in all.
PoolIsOrderly == TypeOK /\ NobodySleepsThrough /\ StopLeavesNoThread

=============================================================================
