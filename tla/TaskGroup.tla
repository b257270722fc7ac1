------------------------------ MODULE TaskGroup ------------------------------
(***************************************************************************)
(* Runtime::TaskGroup: children submitted to a TaskExecutor, closed and    *)
(* cancelled together, and a completion signal for the last of them.       *)
(*                                                                         *)
(* An action is one critical section of the group's mutex, or one step     *)
(* outside it.  The executor is what TaskExecutor promises: it accepts or  *)
(* refuses, ends every accepted task once, and tells observers afterwards. *)
(***************************************************************************)
EXTENDS Integers, FiniteSets, FiniteSetsExt

CONSTANTS
  Children,      \* one element per call of Submit
  Bytes,         \* the declared bytes of each child
  MaxChildren, MaxRetained,
  Callers        \* "stop" for Stop, "cancel" for RequestCancel, "close" for CloseAdmission

VARIABLES
  group,      \* started, ready, closed, executor, submitting, retained, and
              \* whether its token was stopped and its signal completed
  list,       \* children
  child,      \* the position of a Submit, its child and its task
  caller,     \* the position of each caller
  firing,     \* some thread found the group finished and completes the signal
  late        \* the group's deadline has passed

vars == <<group, list, child, caller, firing, late>>

Init ==
  /\ group = [started |-> FALSE, ready |-> FALSE, closed |-> FALSE, executor |-> FALSE, submitting |-> 0,
              retained |-> 0, cancelled |-> FALSE, signal |-> FALSE]
  /\ list = {}
  /\ child = [c \in Children |-> [at |-> "new", linked |-> FALSE, token |-> FALSE,
                published |-> FALSE, completed |-> FALSE, observed |-> FALSE,
                told |-> FALSE, task |-> "none", taken |-> 0]]
  /\ caller = [k \in Callers |-> "idle"]
  /\ firing = FALSE /\ late = FALSE

Start ==
  /\ ~group.started
  /\ \/ group' = [group EXCEPT !.started = TRUE, !.executor = TRUE, !.ready = TRUE]
     \/ group' = [group EXCEPT !.started = TRUE, !.closed = TRUE]   \* no memory for the parent callback
  /\ UNCHANGED <<list, child, caller, firing, late>>

DeadlinePasses ==
  /\ ~late /\ late' = TRUE /\ UNCHANGED <<group, list, child, caller, firing>>

-----------------------------------------------------------------------------
(* NotifyCompletion: a look under the mutex, the waiters, and the signal   *)
(* once the mutex is free again.                                           *)

MutantFinished ==
  /\ group.closed
  /\ \A c \in list : child[c].published => child[c].completed

FinishedLocked ==
  /\ group.closed /\ group.submitting = 0
  /\ \A c \in list : child[c].published /\ child[c].completed

\* notify_all: Stop looks again.
Awake(pc) == IF pc["stop"] = "waiting" THEN [pc EXCEPT !["stop"] = "wait"] ELSE pc

NotifyCompletion(pc) ==
  /\ firing' = (firing \/ FinishedLocked)
  /\ caller' = Awake(pc)

Complete ==
  /\ firing /\ ~group.signal /\ group' = [group EXCEPT !.signal = TRUE]
  /\ UNCHANGED <<list, child, caller, firing, late>>

-----------------------------------------------------------------------------
(* Submit.                                                                 *)

\* The child is linked to the group's token before it is admitted; a token that
\* was stopped already calls back at once.
Prepare(c) ==
  /\ child[c].at = "new"
  /\ child' = [child EXCEPT ![c].at = "prepared", ![c].linked = TRUE,
                            ![c].token = group.cancelled]
  /\ UNCHANGED <<group, list, caller, firing, late>>

Admissible(c) ==
  /\ group.ready /\ ~group.closed /\ ~late
  /\ Cardinality(list) < MaxChildren
  /\ Bytes[c] <= MaxRetained - group.retained

Admit(c) ==
  /\ child[c].at = "prepared"
  /\ \/ /\ Admissible(c)
        /\ list' = list \cup {c} /\ child' = [child EXCEPT ![c].at = "submitting"]
        /\ group' = [group EXCEPT !.submitting = @ + 1, !.retained = @ + Bytes[c]]
     \/ /\ ~Admissible(c)
        /\ child' = [child EXCEPT ![c].at = "rejected"] /\ UNCHANGED <<group, list>>
  /\ UNCHANGED <<caller, firing, late>>

\* TaskExecutor::Submit accepts or refuses, on the executor bound at admission.
ExecutorSubmit(c) ==
  /\ child[c].at = "submitting"
  /\ \/ child' = [child EXCEPT ![c].at = "accepted", ![c].task = "queued"]
     \/ child' = [child EXCEPT ![c].at = "refused"]
  /\ UNCHANGED <<group, list, caller, firing, late>>

MutantRecord(c) ==
  /\ child[c].at \in {"accepted", "refused"}
  /\ \/ /\ child[c].at = "accepted"
        /\ child' = [child EXCEPT ![c].at = "observe", ![c].published = TRUE]
        /\ group' = [group EXCEPT !.submitting = @ - 1] /\ UNCHANGED list
     \/ /\ child[c].at = "refused"
        /\ child' = [child EXCEPT ![c].at = "notify"]
        /\ list' = list \ {c} /\ group' = [group EXCEPT !.submitting = @ - 1]
  /\ UNCHANGED <<caller, firing, late>>

\* The second critical section: the handle is published or the child undone.
Record(c) ==
  /\ child[c].at \in {"accepted", "refused"}
  /\ \/ /\ child[c].at = "accepted"
        /\ child' = [child EXCEPT ![c].at = "observe", ![c].published = TRUE]
        /\ group' = [group EXCEPT !.submitting = @ - 1] /\ UNCHANGED list
     \/ /\ child[c].at = "refused"
        /\ child' = [child EXCEPT ![c].at = "notify"]
        /\ list' = list \ {c}
        /\ group' = [group EXCEPT !.submitting = @ - 1, !.retained = @ - Bytes[c]]
  /\ UNCHANGED <<caller, firing, late>>

\* ObserveCompletion; a task that has ended already calls back from here.
Observe(c) ==
  /\ child[c].at = "observe"
  /\ child' = [child EXCEPT ![c].at = "notify", ![c].observed = TRUE]
  /\ UNCHANGED <<group, list, caller, firing, late>>

MutantSubmitNotifies(c) ==
  /\ child[c].at = "notify" /\ child' = [child EXCEPT ![c].at = "returned"]
  /\ IF child[c].published THEN NotifyCompletion(caller) ELSE UNCHANGED <<caller, firing>>
  /\ UNCHANGED <<group, list, late>>

\* The last thing Submit does, for an accepted and for a refused child.
SubmitNotifies(c) ==
  /\ child[c].at = "notify" /\ child' = [child EXCEPT ![c].at = "returned"]
  /\ NotifyCompletion(caller)
  /\ UNCHANGED <<group, list, late>>

-----------------------------------------------------------------------------
(* The executor's side.                                                    *)

TaskStarts(c) ==
  /\ child[c].task = "queued" /\ child' = [child EXCEPT ![c].task = "running"]
  /\ UNCHANGED <<group, list, caller, firing, late>>

TaskEnds(c) ==
  /\ child[c].task = "running" \/ (child[c].task = "queued" /\ (child[c].token \/ late))
  /\ child' = [child EXCEPT ![c].task = "finished"]
  /\ UNCHANGED <<group, list, caller, firing, late>>

\* The completion callback of a child, ...
ChildCompletes(c) ==
  /\ child[c].task = "finished" /\ child[c].observed /\ ~child[c].completed
  /\ child' = [child EXCEPT ![c].completed = TRUE]
  /\ group' = [group EXCEPT !.retained = @ - Bytes[c]]
  /\ UNCHANGED <<list, caller, firing, late>>

\* ... which then notifies.
ChildNotifies(c) ==
  /\ child[c].completed /\ ~child[c].told
  /\ child' = [child EXCEPT ![c].told = TRUE] /\ NotifyCompletion(caller)
  /\ UNCHANGED <<group, list, late>>

-----------------------------------------------------------------------------
(* CloseAdmission, Cancel, WaitUntil and Stop.                             *)

CloseGroup(k) ==
  /\ caller[k] = "idle"
  /\ group' = [group EXCEPT !.closed = TRUE]
  /\ caller' = [caller EXCEPT ![k] = IF k = "close" THEN "notify" ELSE "signal"]
  /\ UNCHANGED <<list, child, firing, late>>

\* request_stop: the first caller also runs the callbacks of the children.
SignalGroup(k) ==
  /\ caller[k] = "signal"
  /\ caller' = [caller EXCEPT ![k] = IF group.cancelled THEN "notify" ELSE "linking"]
  /\ group' = [group EXCEPT !.cancelled = TRUE]
  /\ UNCHANGED <<list, child, firing, late>>

CancelChild(k, c) ==
  /\ caller[k] = "linking" /\ child[c].linked /\ ~child[c].token
  /\ child' = [child EXCEPT ![c].token = TRUE]
  /\ UNCHANGED <<group, list, caller, firing, late>>

SignalEnds(k) ==
  /\ caller[k] = "linking" /\ \A c \in Children : child[c].linked => child[c].token
  /\ caller' = [caller EXCEPT ![k] = "notify"]
  /\ UNCHANGED <<group, list, child, firing, late>>

CallerNotifies(k) ==
  /\ caller[k] = "notify"
  /\ NotifyCompletion([caller EXCEPT ![k] = IF k = "stop" THEN "wait" ELSE "returned"])
  /\ UNCHANGED <<group, list, child, late>>

\* WaitUntil closes admission again, which changes nothing here, and waits.
Wait ==
  /\ caller["stop"] = "wait"
  /\ caller' = [caller EXCEPT !["stop"] = IF FinishedLocked THEN "unbind" ELSE "waiting"]
  /\ UNCHANGED <<group, list, child, firing, late>>

Stop ==
  /\ caller["stop"] = "unbind" /\ caller' = [caller EXCEPT !["stop"] = "returned"]
  /\ group' = [group EXCEPT !.executor = FALSE, !.ready = FALSE]
  /\ UNCHANGED <<list, child, firing, late>>

Takeable(c) == child[c].published /\ child[c].completed /\ child[c].task = "finished"

TakeCompletions ==
  /\ \E c \in list : Takeable(c)
  /\ list' = {c \in list : ~Takeable(c)}
  /\ child' = [c \in Children |-> IF c \in list /\ Takeable(c)
                                  THEN [child[c] EXCEPT !.taken = @ + 1] ELSE child[c]]
  /\ UNCHANGED <<group, caller, firing, late>>

-----------------------------------------------------------------------------
SubmitStep(c) == Prepare(c) \/ Admit(c) \/ ExecutorSubmit(c) \/ Record(c) \/ Observe(c) \/ SubmitNotifies(c)
ExecutorStep(c) == TaskStarts(c) \/ TaskEnds(c) \/ ChildCompletes(c) \/ ChildNotifies(c)
CallerStep(k) ==
  \/ SignalGroup(k) \/ SignalEnds(k) \/ CallerNotifies(k)
  \/ \E c \in Children : CancelChild(k, c)

Next ==
  \/ Start \/ DeadlinePasses \/ Complete \/ TakeCompletions \/ Wait \/ Stop
  \/ \E c \in Children : SubmitStep(c) \/ ExecutorStep(c)
  \/ \E k \in Callers : CloseGroup(k) \/ CallerStep(k)

Spec == Init /\ [][Next]_vars

-----------------------------------------------------------------------------
(* Properties.                                                             *)

InSubmit(c) == child[c].at \in {"submitting", "accepted", "refused"}

TypeOK ==
  /\ group.submitting \in Nat /\ group.retained \in 0..MaxRetained
  /\ list \subseteq Children /\ Cardinality(list) <= MaxChildren
  /\ \A c \in Children : child[c].taken \in {0, 1}

\* GroupIsExact.  The bytes and the submissions the group counts are those of its
\* children, although Submit charges in one critical section and publishes or
\* undoes in another while completions and TakeCompletions come in between.
GroupIsExact ==
  /\ TypeOK
  /\ group.retained = MapThenSumSet(LAMBDA c : Bytes[c], {c \in list : ~child[c].completed})
  /\ group.submitting = Cardinality({c \in Children : InSubmit(c)})

\* SignalMeansDone.  When the completion signal fires, when Wait finds the group
\* finished and when Stop gives the executor up, no submission can still reach
\* the executor and every task it accepted for the group has ended ("fires once
\* all accepted children are truly terminal", TaskGroup.h); no completion was
\* taken before its task ended.
SignalMeansDone ==
  /\ firing \/ group.signal \/ caller["stop"] \in {"unbind", "returned"} =>
       \A c \in Children : ~InSubmit(c) /\ child[c].task \in {"none", "finished"}
  /\ \A c \in Children : child[c].taken = 1 => child[c].task = "finished"

\* GroupForgetsNobody.  A finished group whose signal nobody is completing,
\* or whose Stop still waits, is about to be looked at again, whichever call was
\* the last: a child, a refused submission, the close or the cancellation.  And
\* once the thread that stopped the group's token has run its callbacks, every
\* child linked to it is signalled, those linked meanwhile included.
GroupForgetsNobody ==
  /\ FinishedLocked /\ (~firing \/ caller["stop"] = "waiting") =>
       \/ \E c \in Children : child[c].at = "notify" \/ (child[c].completed /\ ~child[c].told)
       \/ \E k \in Callers : caller[k] \in {"signal", "linking", "notify"}
       \/ group.closed /\ \A k \in Callers : caller[k] = "idle"     \* a failed Start
  /\ group.cancelled /\ (\A k \in Callers : caller[k] # "linking") =>
       \A c \in Children : child[c].linked => child[c].token

\* GroupIsOrderly.  The group, all in all.
GroupIsOrderly == GroupIsExact /\ SignalMeansDone /\ GroupForgetsNobody
=============================================================================
