----------------------------- MODULE SendBudget -----------------------------
(***************************************************************************)
(* The send budget that all connections of a host share, the send queues   *)
(* that draw on it, and the capacity waits they serve                      *)
(* (Net/SendBudgetInternal, Net/SendQueueInternal,                         *)
(* Net/ConnectionFlowControl).                                             *)
(*                                                                         *)
(* A thread performs one queue operation at a time.  The operation runs    *)
(* under its connection's mutex; the SendNotificationScope around it calls *)
(* SendBudget::Notify after the mutex is released.  The counters and flags *)
(* are atomics, so every load and store of them is a step of its own.      *)
(*                                                                         *)
(* Where buffered is TRUE, the plain store of atomic_flag::clear may become *)
(* visible after the load that follows it, which release/acquire ordering  *)
(* allows and x86 does.                                                    *)
(***************************************************************************)
EXTENDS Integers, Sequences, FiniteSets, Functions, TLAPS

CONSTANTS
  Threads, Conns,
  Sizes,          \* payload sizes
  Limit,          \* SendBudget::mLimitBytes
  ConnLimit,      \* SendBudget::mConnectionLimitBytes
  Operations,     \* bound on the queue operations and waits of a behaviour
  StoreBuffers,   \* the memories considered: with a store buffer, without one, or both
  None

ASSUME SendBudgetAssumption ==
  /\ IsFiniteSet(Threads) /\ IsFiniteSet(Conns)
  /\ Sizes \subseteq Nat \ {0} /\ Limit \in Nat \ {0} /\ ConnLimit \in Nat \ {0}
  /\ Operations \in Nat /\ StoreBuffers \in SUBSET BOOLEAN /\ None \notin Conns \cup Threads

VARIABLES
  used,       \* SendBudget::mUsedBytes
  changed,    \* mChanged
  notifying,  \* mNotifying
  buffered,   \* whether a flag's release store may be delayed; never changes
  delayed,    \* threads whose mNotifying.clear is still in their store buffer
  waiters,    \* mWaiters: the registered connections, by registration id
  destroyed,  \* the connections whose queue's destructor has begun
  queue,      \* SendQueue::mPayloads, a payload being its size
  retained,   \* SendCapacityState::mRetainedBytes
  closed,     \* mClosed
  pending,    \* mPending: the last wait of a connection, 0 before the first
  need,       \* mRequiredBytes
  open,       \* the waits whose source is still pending
  lock,       \* the thread that holds a connection's mutex
  pc, task,   \* a thread's position and its locals
  ops         \* operations started

memory == <<used, changed, notifying, delayed, waiters>>
conn == <<destroyed, queue, retained, closed, pending, need, open, lock>>
vars == <<used, changed, notifying, delayed, waiters, destroyed, queue, retained, closed, pending, need, open, lock, pc, task, ops, buffered>>

\* conn: the connection worked on; amount: bytes in hand; then: where to go
\* after a visit; last, upper: the cursor of a pass; wait, shared: what a visit read.
NoTask == [conn |-> None, amount |-> 0, then |-> "idle", last |-> 0, upper |-> 0, wait |-> 0, shared |-> 0]

Init ==
  /\ buffered \in StoreBuffers
  /\ used = 0 /\ changed = FALSE /\ notifying = FALSE /\ delayed = {} /\ waiters = <<>>
  /\ destroyed = {} /\ queue = [c \in Conns |-> <<>>] /\ retained = [c \in Conns |-> 0]
  /\ closed = [c \in Conns |-> FALSE]
  /\ pending = [c \in Conns |-> 0] /\ need = [c \in Conns |-> 0] /\ open = {}
  /\ lock = [c \in Conns |-> None]
  /\ pc = [t \in Threads |-> "idle"] /\ task = [t \in Threads |-> NoTask]
  /\ ops = 0

Go(t, where) == pc' = [pc EXCEPT ![t] = where]
Begin(t, c) == pc[t] = "idle" /\ c \notin destroyed /\ lock[c] = None /\ ops < Operations /\ ops' = ops + 1
Acquire(t, c) == lock' = [lock EXCEPT ![c] = t]
Holds(t, c, b) == task' = [task EXCEPT ![t].conn = c, ![t].amount = b]
Unlock(t) == lock' = [lock EXCEPT ![task[t].conn] = None]

\* The operation leaves its connection's mutex; a destructor visits its waiter.
Leave(t) ==
  LET c == task[t].conn IN
  /\ Unlock(t)
  /\ IF task[t].then = "notify"
       THEN /\ task' = [task EXCEPT ![t].wait = pending[c], ![t].amount = need[c]]
            /\ Go(t, "look")
       ELSE Go(t, "notify") /\ task' = [task EXCEPT ![t] = NoTask]

-----------------------------------------------------------------------------
(* SendQueue.                                                              *)

\* Enqueue's test of the connection's limit, and TryReserveBudget's.
HasRoom(c, b) == retained[c] + b <= ConnLimit /\ used + b <= Limit

Enqueue(t, c, b) ==
  /\ Begin(t, c) /\ ~closed[c]
  /\ IF HasRoom(c, b)
       THEN /\ used' = used + b /\ queue' = [queue EXCEPT ![c] = Append(@, b)]
            /\ Acquire(t, c) /\ Holds(t, c, b) /\ Go(t, "retain")
       ELSE Go(t, "notify") /\ UNCHANGED <<used, queue, lock, task>>
  /\ UNCHANGED <<changed, notifying, delayed, waiters, destroyed, retained, closed, pending, need, open>>

Retain(t) ==
  /\ pc[t] = "retain"
  /\ retained' = [retained EXCEPT ![task[t].conn] = @ + task[t].amount]
  /\ Leave(t)
  /\ UNCHANGED <<destroyed, queue, closed, pending, need, open, ops>> /\ UNCHANGED memory

\* Consume of the last bytes of the front payload; local storage is given up first.
Consume(t, c) ==
  /\ Begin(t, c) /\ queue[c] # <<>>
  /\ queue' = [queue EXCEPT ![c] = Tail(@)]
  /\ retained' = [retained EXCEPT ![c] = @ - Head(queue[c])]
  /\ Acquire(t, c) /\ Holds(t, c, Head(queue[c])) /\ Go(t, "credit")
  /\ UNCHANGED <<destroyed, closed, pending, need, open>> /\ UNCHANGED memory

\* CloseCapacityWaits.
Close(t, c) ==
  /\ Begin(t, c) /\ ~closed[c]
  /\ closed' = [closed EXCEPT ![c] = TRUE] /\ changed' = TRUE
  /\ Acquire(t, c) /\ Holds(t, c, 0) /\ Go(t, "clear")
  /\ UNCHANGED <<used, notifying, delayed, waiters, destroyed, queue, retained, pending, need, open>>

\* ~SendQueue: close, clear, its own waiter, and then the shared dispatcher.
Destroy(t, c) ==
  /\ Begin(t, c)
  /\ destroyed' = destroyed \cup {c}
  /\ closed' = [closed EXCEPT ![c] = TRUE] /\ changed' = TRUE
  /\ Acquire(t, c) /\ Go(t, "clear")
  /\ task' = [task EXCEPT ![t].conn = c, ![t].then = "notify"]
  /\ UNCHANGED <<used, notifying, delayed, waiters, queue, retained, pending, need, open>>

\* ~SendCapacityState, once nobody visits the state any more.
Unregister(c) ==
  /\ c \in destroyed /\ \A t \in Threads : task[t].conn # c
  /\ \E i \in 1..Len(waiters) : waiters[i] = c /\ waiters' = [waiters EXCEPT ![i] = None]
  /\ UNCHANGED <<used, changed, notifying, delayed, pc, task, ops>> /\ UNCHANGED conn

MutantClear(t) ==
  /\ pc[t] = "clear"
  /\ queue' = [queue EXCEPT ![task[t].conn] = <<>>] /\ retained' = [retained EXCEPT ![task[t].conn] = 0]
  /\ Leave(t)
  /\ UNCHANGED <<destroyed, closed, pending, need, open, ops>> /\ UNCHANGED memory

\* Clear; Release returns at once when nothing was retained.
Clear(t) ==
  LET c == task[t].conn IN
  /\ pc[t] = "clear"
  /\ queue' = [queue EXCEPT ![c] = <<>>] /\ retained' = [retained EXCEPT ![c] = 0]
  /\ IF retained[c] = 0 THEN Leave(t)
     ELSE Holds(t, c, retained[c]) /\ Go(t, "credit") /\ UNCHANGED lock
  /\ UNCHANGED <<destroyed, closed, pending, need, open, ops>> /\ UNCHANGED memory

\* SendBudget::Release, first the counter, then MarkChanged.
Credit(t) ==
  /\ pc[t] = "credit"
  /\ used' = used - task[t].amount /\ Go(t, "mark")
  /\ UNCHANGED <<changed, notifying, delayed, waiters, task, ops>> /\ UNCHANGED conn

MarkChanged(t) ==
  /\ pc[t] = "mark"
  /\ changed' = TRUE /\ Leave(t)
  /\ UNCHANGED <<used, notifying, delayed, waiters, destroyed, queue, retained, closed, pending, need, open, ops>>

-----------------------------------------------------------------------------
(* SendBudget::Notify.                                                     *)

Finish(t) == Go(t, "idle") /\ task' = [task EXCEPT ![t] = NoTask]

\* A locked instruction first drains the thread's own store buffer.
TestAndSet(t) ==
  /\ t \notin delayed
  /\ IF notifying THEN Finish(t) /\ UNCHANGED notifying
     ELSE notifying' = TRUE /\ Go(t, "pass") /\ UNCHANGED task

Notify(t) ==
  /\ pc[t] = "notify"
  /\ IF changed THEN Go(t, "acquire") /\ UNCHANGED task ELSE Finish(t)
  /\ UNCHANGED ops /\ UNCHANGED memory /\ UNCHANGED conn

NotifyAcquire(t) ==
  /\ pc[t] \in {"acquire", "reacquire"}
  /\ TestAndSet(t)
  /\ UNCHANGED <<used, changed, delayed, waiters, ops>> /\ UNCHANGED conn

\* The flag is taken back before the pass reads anything.
Pass(t) ==
  /\ pc[t] = "pass"
  /\ changed' = FALSE
  /\ task' = [task EXCEPT ![t] = [NoTask EXCEPT !.upper = Len(waiters), !.then = "visit"]]
  /\ Go(t, "visit")
  /\ UNCHANGED <<used, notifying, delayed, waiters, ops>> /\ UNCHANGED conn

\* upper_bound(last); SendCapacityState::Notify starts with its mutex.
Visit(t) ==
  /\ pc[t] = "visit" /\ task[t].last < task[t].upper
  /\ LET c == waiters[task[t].last + 1] IN
       IF c = None THEN task' = [task EXCEPT ![t].last = @ + 1] /\ UNCHANGED pc
       ELSE /\ task' = [task EXCEPT ![t].last = @ + 1, ![t].conn = c,
                                    ![t].wait = pending[c], ![t].amount = need[c]]
            /\ Go(t, "look")
  /\ UNCHANGED ops /\ UNCHANGED memory /\ UNCHANGED conn

PassEnds(t) ==
  /\ pc[t] = "visit" /\ task[t].last = task[t].upper
  /\ Go(t, IF changed THEN "pass" ELSE "clearFlag")
  /\ UNCHANGED <<task, ops>> /\ UNCHANGED memory /\ UNCHANGED conn

ClearFlag(t) ==
  /\ pc[t] = "clearFlag"
  /\ IF buffered THEN delayed' = delayed \cup {t} /\ UNCHANGED notifying
     ELSE notifying' = FALSE /\ UNCHANGED delayed
  /\ Go(t, "recheck")
  /\ UNCHANGED <<used, changed, waiters, task, ops>> /\ UNCHANGED conn

\* The store buffer of a thread reaches memory.
Drain(t) ==
  /\ t \in delayed
  /\ delayed' = delayed \ {t} /\ notifying' = FALSE
  /\ UNCHANGED <<used, changed, waiters, pc, task, ops>> /\ UNCHANGED conn

MutantRecheck(t) ==
  /\ pc[t] = "recheck"
  /\ Finish(t)
  /\ UNCHANGED ops /\ UNCHANGED memory /\ UNCHANGED conn

\* A release may have come between the last look at mChanged and the clear.
Recheck(t) ==
  /\ pc[t] = "recheck"
  /\ IF changed THEN Go(t, "reacquire") /\ UNCHANGED task ELSE Finish(t)
  /\ UNCHANGED ops /\ UNCHANGED memory /\ UNCHANGED conn

-----------------------------------------------------------------------------
(* SendCapacityState.                                                      *)

\* The visit is over: on with the pass, to the dispatcher, or out of Wait.
Return(t) ==
  /\ Go(t, task[t].then)
  /\ task' = [task EXCEPT ![t] = IF @.then = "visit" THEN [@ EXCEPT !.conn = None] ELSE NoTask]

Look(t) ==
  /\ pc[t] = "look"
  /\ IF task[t].wait \notin open THEN Return(t) /\ UNCHANGED open
     ELSE IF closed[task[t].conn] THEN Return(t) /\ open' = open \ {task[t].wait}
     ELSE Go(t, "shared") /\ UNCHANGED <<task, open>>
  /\ UNCHANGED <<destroyed, queue, retained, closed, pending, need, lock, ops>> /\ UNCHANGED memory

ReadShared(t) ==
  /\ pc[t] = "shared"
  /\ task' = [task EXCEPT ![t].shared = used] /\ Go(t, "local")
  /\ UNCHANGED ops /\ UNCHANGED memory /\ UNCHANGED conn

\* Shared accounting was read first, the connection's own second.
Decide(t) ==
  /\ pc[t] = "local"
  /\ open' = IF /\ retained[task[t].conn] + task[t].amount <= ConnLimit
                /\ task[t].shared + task[t].amount <= Limit
             THEN open \ {task[t].wait} ELSE open
  /\ Return(t)
  /\ UNCHANGED <<destroyed, queue, retained, closed, pending, need, lock, ops>> /\ UNCHANGED memory

\* Wait publishes the source under the state's mutex and then looks for itself.
Wait(t, c, b) ==
  /\ pc[t] = "idle" /\ ops < Operations /\ ops' = ops + 1
  /\ b <= ConnLimit /\ b <= Limit
  /\ ~closed[c] /\ c \notin destroyed /\ pending[c] \notin open
  /\ pending' = [pending EXCEPT ![c] = ops'] /\ need' = [need EXCEPT ![c] = b]
  /\ open' = open \cup {ops'}
  /\ waiters' = IF \E i \in 1..Len(waiters) : waiters[i] = c THEN waiters ELSE Append(waiters, c)
  /\ task' = [task EXCEPT ![t] = [NoTask EXCEPT !.conn = c, !.wait = ops', !.amount = b]]
  /\ Go(t, "look")
  /\ UNCHANGED <<used, changed, notifying, delayed, destroyed, queue, retained, closed, lock>>

\* The owner cancels or drops its subscription.
CancelWait(w) ==
  /\ open' = open \ {w}
  /\ UNCHANGED <<destroyed, queue, retained, closed, pending, need, lock, pc, task, ops>> /\ UNCHANGED memory

-----------------------------------------------------------------------------
Step(t) ==
  \/ Retain(t) \/ Clear(t) \/ Credit(t) \/ MarkChanged(t)
  \/ Notify(t) \/ NotifyAcquire(t) \/ Pass(t) \/ Visit(t) \/ PassEnds(t)
  \/ ClearFlag(t) \/ Drain(t) \/ Recheck(t)
  \/ Look(t) \/ ReadShared(t) \/ Decide(t)

Operation(t) ==
  \E c \in Conns :
    \/ \E b \in Sizes : Enqueue(t, c, b) \/ Wait(t, c, b)
    \/ Consume(t, c) \/ Close(t, c) \/ Destroy(t, c)

Quiet == \A t \in Threads : pc[t] = "idle" /\ t \notin delayed
Stopped == Quiet /\ UNCHANGED vars

Next ==
  /\ \/ \E t \in Threads : Step(t) \/ Operation(t)
     \/ \E w \in open : CancelWait(w)
     \/ \E c \in Conns : Unregister(c)
     \/ Stopped
  /\ UNCHANGED buffered

Spec == Init /\ [][Next]_vars

-----------------------------------------------------------------------------
(* Properties.                                                             *)

TypeOK ==
  /\ used \in 0..Limit /\ changed \in BOOLEAN /\ notifying \in BOOLEAN
  /\ delayed \subseteq Threads /\ waiters \in Seq(Conns \cup {None}) /\ destroyed \subseteq Conns
  /\ queue \in [Conns -> Seq(Sizes)] /\ retained \in [Conns -> 0..ConnLimit]
  /\ closed \in [Conns -> BOOLEAN] /\ pending \in [Conns -> 0..Operations]
  /\ open \subseteq 1..Operations /\ lock \in [Conns -> Threads \cup {None}]

Total(f) == SumFunctionOnSet(f, Conns)

\* The shared counter never says less than what the queues hold, so a waiter
\* that saw bytes returned to it also sees them gone from their connection; and
\* between operations the two agree.  Delayed stores do not matter here.
BudgetCoversStorage ==
  /\ TypeOK
  /\ Total(retained) <= used
  /\ Quiet => used = Total(retained)

\* "A release may race clearing the dispatcher flag. Either this caller
\* reacquires it, or the releasing caller performs the next pass."
\* (SendBudget::Notify)
ReleaseIsDispatched == Quiet => ~changed /\ ~notifying

\* When every thread has left the budget, a wait that is still open is one that
\* there is no room for: no release and no close was forgotten.
NoWaiterForgotten ==
  Quiet => \A c \in Conns : pending[c] \in open =>
    /\ ~closed[c]
    /\ retained[c] + need[c] > ConnLimit \/ used + need[c] > Limit

\* In a memory that keeps the clear before the load, every release is dispatched
\* and no wait is forgotten: the order of these two accesses is all that
\* Notify lacks.
OrderedMemorySuffices == ~buffered => ReleaseIsDispatched /\ NoWaiterForgotten

\* BudgetIsExact.  SendBudget: what is charged covers all payloads that exist;
\* and in a memory that orders Notify's store before its load, each release
\* reaches the dispatcher and no waiter with room is forgotten.
BudgetIsExact == BudgetCoversStorage /\ OrderedMemorySuffices

-----------------------------------------------------------------------------
(* The proof that BudgetIsExact holds for any threads, connections, sizes  *)
(* and limits.                                                             *)

Locked == {"retain", "clear", "credit", "mark"}
Visiting == {"look", "shared", "local"}
Positions == Locked \cup Visiting \cup
  {"idle", "notify", "acquire", "reacquire", "pass", "visit", "clearFlag", "recheck"}

Locals == [conn : Conns \cup {None}, amount : Nat, then : {"idle", "notify", "visit"},
           last : Nat, upper : Nat, wait : Nat, shared : Nat]

\* The rest of the types.
Types ==
  /\ TypeOK /\ buffered \in BOOLEAN /\ need \in [Conns -> Nat] /\ ops \in 0..Operations
  /\ pc \in [Threads -> Positions]
  /\ task \in [Threads -> Locals]

\* What a thread's locals are at its position.
Shape(t) ==
  /\ task[t].last <= task[t].upper /\ task[t].upper <= Len(waiters) /\ task[t].wait <= ops
  /\ pc[t] \in {"idle", "notify", "acquire"} => task[t] = NoTask
  /\ pc[t] \in Locked => /\ task[t].conn \in Conns /\ lock[task[t].conn] = t
                         /\ task[t].then \in {"idle", "notify"}
  /\ pc[t] = "retain" => task[t].then = "idle" /\ retained[task[t].conn] + task[t].amount <= ConnLimit
  /\ pc[t] \in Visiting => /\ task[t].conn \in Conns
                           /\ task[t].wait = pending[task[t].conn] => task[t].amount = need[task[t].conn]
  /\ pc[t] = "visit" => task[t].then = "visit"
  /\ pc[t] \notin Visiting \cup {"visit"} \/ task[t].then # "visit" => task[t].last = task[t].upper

Locks == \A c \in Conns : lock[c] # None => pc[lock[c]] \in Locked /\ task[lock[c]].conn = c

\* The bytes a thread has charged or not yet returned, and those of a payload
\* that is queued and not yet counted.
Due(t) == IF pc[t] \in {"retain", "credit"} THEN task[t].amount ELSE 0
Arriving(c) == IF lock[c] # None /\ pc[lock[c]] = "retain" THEN task[lock[c]].amount ELSE 0

Storage == \A c \in Conns : SumFunctionOnSet(queue[c], DOMAIN queue[c]) = retained[c] + Arriving(c)
Accounts == used = Total(retained) + SumFunctionOnSet([t \in Threads |-> Due(t)], Threads)

\* Who holds mNotifying, and who will yet look at mChanged.
Dispatching(t) == pc[t] \in {"pass", "visit", "clearFlag"} \/ (pc[t] \in Visiting /\ task[t].then = "visit")
Listening(t) == pc[t] # "idle" /\ ~(pc[t] \in Visiting /\ task[t].then = "idle")

Dispatch ==
  ~buffered =>
    /\ delayed = {}
    /\ \A t, u \in Threads : Dispatching(t) /\ Dispatching(u) => t = u
    /\ notifying <=> \E t \in Threads : Dispatching(t)
    /\ changed => \E t \in Threads : Listening(t)

\* An open wait is registered; that of a destroyed queue is about to be answered.
Bids(t, c) ==
  /\ task[t].conn = c /\ task[t].then = "notify"
  /\ pc[t] \in {"clear", "credit", "mark"} \/ (pc[t] = "look" /\ task[t].wait = pending[c])
Registered ==
  /\ \A c \in Conns : pending[c] <= ops /\ (pending[c] \in open => \E i \in 1..Len(waiters) : waiters[i] = c)
  /\ \A c \in destroyed : closed[c] /\ (pending[c] \in open => \E t \in Threads : Bids(t, c))

\* There is no room for a wait, or somebody is on the way to it who will see that there is.
Blocked(c) == ~closed[c] /\ (retained[c] + need[c] > ConnLimit \/ used + need[c] > Limit)
ToVisit(t, c) == \E i \in task[t].last + 1 .. task[t].upper : waiters[i] = c
Asking(t, c) ==
  /\ pc[t] \in Visiting /\ task[t].conn = c /\ task[t].wait = pending[c]
  /\ pc[t] # "look" => ~closed[c]
  /\ pc[t] = "local" => task[t].shared + need[c] <= Limit
Coming(t, c) == pc[t] \in {"credit", "mark"} \/ ToVisit(t, c) \/ Asking(t, c)
Answered ==
  \A c \in Conns : pending[c] \in open => Blocked(c) \/ changed \/ \E t \in Threads : Coming(t, c)

\* The inductive invariant.
BudgetInv ==
  /\ Types /\ (\A t \in Threads : Shape(t)) /\ Locks /\ Storage /\ Accounts
  /\ Dispatch /\ Registered /\ Answered
-----------------------------------------------------------------------------

\* A step of one thread.
Moves(t, where, k) == pc' = [pc EXCEPT ![t] = where] /\ task' = [task EXCEPT ![t] = k]

\* A leaf is for Zenon, which has 30 seconds, unless it names another prover.
USE ZenonT(30)

LEMMA Moved ==
  ASSUME Types, NEW t \in Threads, NEW where \in Positions, NEW k \in Locals, Moves(t, where, k)
  PROVE  /\ pc' \in [Threads -> Positions] /\ task' \in [Threads -> Locals]
         /\ pc'[t] = where /\ task'[t] = k
         /\ \A u \in Threads \ {t} : pc'[u] = pc[u] /\ task'[u] = task[u]
BY DEF Types, Moves

\* The locals of the other threads keep their shape when the step leaves alone
\* what they stand on.
LEMMA ShapesKept ==
  ASSUME BudgetInv, NEW t \in Threads, NEW where \in Positions, NEW k \in Locals, Moves(t, where, k), Shape(t)',
         ops' \in Nat, ops <= ops', Len(waiters') \in Nat, Len(waiters) <= Len(waiters'),
         \A c \in Conns : lock[c] \in {None, t} \/ (lock'[c] = lock[c] /\ retained'[c] = retained[c]),
         \A c \in Conns : (pending'[c] = pending[c] /\ need'[c] = need[c]) \/ pending'[c] > ops
  PROVE  \A u \in Threads : Shape(u)'
<1> SUFFICES ASSUME NEW u \in Threads \ {t} PROVE Shape(u)'
  OBVIOUS
<1>1. pc'[u] = pc[u] /\ task'[u] = task[u] /\ task[u] \in Locals /\ Shape(u)
  BY Moved DEF BudgetInv, Types
<1>2. ops \in Nat /\ Len(waiters) \in Nat /\ u # None /\ waiters \in Seq(Conns \cup {None})
  BY SendBudgetAssumption, SMTT(30) DEF BudgetInv, Types, TypeOK
<1>3. /\ task[u].last \in Nat /\ task[u].upper \in Nat /\ task[u].wait \in Nat
  BY <1>1 DEF Locals
<1>4. task[u].last <= task[u].upper /\ task[u].upper <= Len(waiters') /\ task[u].wait <= ops'
  BY <1>1, <1>2, <1>3, SMTT(30) DEF Shape
<1>5. pc[u] \in Locked => /\ task[u].conn \in Conns /\ lock'[task[u].conn] = u
                          /\ task[u].then \in {"idle", "notify"}
                          /\ retained'[task[u].conn] = retained[task[u].conn]
  BY <1>1, <1>2 DEF Shape
<1>6. pc[u] = "retain" => task[u].then = "idle" /\ retained'[task[u].conn] + task[u].amount <= ConnLimit
  BY <1>1, <1>5 DEF Shape, Locked
<1>7. pc[u] \in Visiting => /\ task[u].conn \in Conns
                            /\ task[u].wait = pending'[task[u].conn] => task[u].amount = need'[task[u].conn]
  BY <1>1, <1>2, <1>3, SMTT(30) DEF Shape
<1>8. /\ pc[u] \in {"idle", "notify", "acquire"} => task[u] = NoTask
      /\ pc[u] = "visit" => task[u].then = "visit"
      /\ pc[u] \notin Visiting \cup {"visit"} \/ task[u].then # "visit" => task[u].last = task[u].upper
  BY <1>1 DEF Shape
<1> QED BY <1>1, <1>4, <1>5, <1>6, <1>7, <1>8 DEF Shape, NoTask

\* A thread without a mutex, before and after, has no part in the accounts.
LEMMA MoneyKept ==
  ASSUME BudgetInv, NEW t \in Threads, NEW where \in Positions \ Locked, NEW k \in Locals, Moves(t, where, k),
         pc[t] \notin Locked, UNCHANGED <<used, queue, retained, lock>>
  PROVE  Locks' /\ Storage' /\ Accounts'
<1>1. pc'[t] = where /\ \A u \in Threads \ {t} : pc'[u] = pc[u] /\ task'[u] = task[u]
  BY Moved DEF BudgetInv
<1>2. \A c \in Conns : lock[c] # None => lock[c] \in Threads \ {t}
  BY DEF BudgetInv, Locks, Types, TypeOK
<1>3. Locks'
  BY <1>1, <1>2 DEF BudgetInv, Locks
<1>4. \A c \in Conns : Arriving(c)' = Arriving(c)
  BY <1>1, <1>2 DEF Arriving
<1>5. Storage'
  BY <1>4 DEF BudgetInv, Storage
<1>6. \A u \in Threads : Due(u)' = Due(u)
  BY <1>1 DEF Due, Locked
<1>7. [u \in Threads |-> Due(u)'] = [u \in Threads |-> Due(u)]
  BY <1>6
<1>8. Accounts'
  BY <1>7 DEF BudgetInv, Accounts, Total
<1> QED BY <1>3, <1>5, <1>8

\* mNotifying and mChanged for a step that leaves the first alone.
LEMMA DispatchKept ==
  ASSUME BudgetInv, NEW t \in Threads, NEW where \in Positions, NEW k \in Locals, Moves(t, where, k),
         UNCHANGED <<buffered, notifying, delayed>>, Dispatching(t)' <=> Dispatching(t),
         changed' => Listening(t)' \/ (changed /\ ~Listening(t))
  PROVE  Dispatch'
<1>1. \A u \in Threads \ {t} : pc'[u] = pc[u] /\ task'[u] = task[u]
  BY Moved DEF BudgetInv
<1>2. \A u \in Threads \ {t} : (Dispatching(u)' <=> Dispatching(u)) /\ (Listening(u)' <=> Listening(u))
  BY <1>1 DEF Dispatching, Listening
<1>3. \A u \in Threads : Dispatching(u)' <=> Dispatching(u)
  BY <1>2
<1>4. ~buffered /\ changed' => \E u \in Threads : Listening(u)'
  BY <1>2 DEF BudgetInv, Dispatch
<1> QED BY <1>3, <1>4 DEF BudgetInv, Dispatch

\* The waits, for a step that neither registers nor forgets one.
LEMMA WaitsKept ==
  ASSUME BudgetInv, NEW t \in Threads, NEW where \in Positions, NEW k \in Locals, Moves(t, where, k),
         UNCHANGED <<waiters, pending, need, destroyed>>, ops' \in Nat, ops <= ops', open' \subseteq open,
         closed' = closed \/ (changed' /\ \A c \in Conns : closed[c] => closed'[c]),
         \A c \in Conns : pending[c] \in open' /\ (Blocked(c) \/ changed \/ Coming(t, c)) =>
                            Blocked(c)' \/ changed' \/ Coming(t, c)',
         \A c \in destroyed : pending[c] \in open' /\ Bids(t, c) => Bids(t, c)'
  PROVE  Registered' /\ Answered'
<1>1. \A u \in Threads \ {t} : pc'[u] = pc[u] /\ task'[u] = task[u]
  BY Moved DEF BudgetInv
<1>2. ops \in Nat /\ pending \in [Conns -> Nat] /\ destroyed \subseteq Conns
  BY SendBudgetAssumption, SMTT(30) DEF BudgetInv, Types, TypeOK
<1>3. \A u \in Threads \ {t}, c \in Conns : Bids(u, c)' <=> Bids(u, c)
  BY <1>1 DEF Bids
<1>4. Registered'
  <2>1. \A c \in Conns : pending'[c] <= ops' /\ (pending'[c] \in open' => \E i \in 1..Len(waiters') : waiters'[i] = c)
    BY <1>2, SMTT(30) DEF BudgetInv, Registered
  <2>2. ASSUME NEW c \in destroyed' PROVE closed'[c]
    BY <1>2 DEF BudgetInv, Registered
  <2>3. ASSUME NEW c \in destroyed', pending'[c] \in open' PROVE \E u \in Threads : Bids(u, c)'
    <3>1. PICK u \in Threads : Bids(u, c)
      BY <2>3 DEF BudgetInv, Registered
    <3> QED BY <1>2, <1>3, <2>3, <3>1
  <2> QED BY <2>1, <2>2, <2>3 DEF Registered
<1>5. ASSUME NEW c \in Conns, pending'[c] \in open', ~Blocked(c)', ~changed'
      PROVE  \E u \in Threads : Coming(u, c)'
  <2>1. pending[c] \in open' /\ pending[c] \in open
    BY <1>5
  <2>2. CASE Blocked(c) \/ changed \/ Coming(t, c)
    BY <1>5, <2>1, <2>2
  <2>3. CASE ~(Blocked(c) \/ changed \/ Coming(t, c))
    <3>1. PICK u \in Threads \ {t} : Coming(u, c)
      BY <2>1, <2>3 DEF BudgetInv, Answered
    <3>2. ToVisit(u, c)' <=> ToVisit(u, c)
      BY <1>1 DEF ToVisit
    <3>3. Asking(u, c)' <=> Asking(u, c)
      BY <1>1, <1>5 DEF Asking
    <3> QED BY <1>1, <3>1, <3>2, <3>3 DEF Coming
  <2> QED BY <2>2, <2>3
<1>6. Answered'
  BY <1>5 DEF Answered
<1> QED BY <1>4, <1>6

\* A thread that is not on its way to a wait.
LEMMA NotComing ==
  ASSUME BudgetInv, NEW t \in Threads, pc[t] \notin Visiting \cup {"clear", "credit", "mark"}
  PROVE  /\ pc[t] # "visit" \/ task[t].last = task[t].upper => \A c \in Conns : ~Coming(t, c)
         /\ \A c \in Conns : ~Bids(t, c)
<1>1. task[t] \in Locals /\ Shape(t)
  BY DEF BudgetInv, Types
<1>2. pc[t] # "visit" => task[t].last = task[t].upper
  BY <1>1 DEF Shape
<1>3. task[t].last = task[t].upper => \A c \in Conns : ~ToVisit(t, c)
  BY <1>1, SMTT(30) DEF ToVisit, Locals
<1> QED BY <1>2, <1>3 DEF Coming, Asking, Bids, Visiting

\* A step of a thread that holds no mutex and touches no storage.
LEMMA FreeStep ==
  ASSUME BudgetInv, NEW t \in Threads, NEW where \in Positions \ Locked, NEW k \in Locals, Moves(t, where, k),
         pc[t] \notin Locked,
         UNCHANGED <<used, queue, retained, lock, waiters, pending, need, destroyed, closed, ops, buffered>>,
         changed' \in BOOLEAN, notifying' \in BOOLEAN, delayed' \subseteq Threads, open' \subseteq open,
         Shape(t)', Dispatch',
         \A c \in Conns : pending[c] \in open' /\ (changed \/ Coming(t, c)) => Blocked(c) \/ changed' \/ Coming(t, c)',
         \A c \in destroyed : pending[c] \in open' /\ Bids(t, c) => Bids(t, c)'
  PROVE  BudgetInv'
<1>1. Types'
  <2>1. pc' \in [Threads -> Positions] /\ task' \in [Threads -> Locals]
    BY Moved DEF BudgetInv
  <2>2. TypeOK'
    BY DEF BudgetInv, Types, TypeOK
  <2> QED BY <2>1, <2>2 DEF BudgetInv, Types
<1>2. Locks' /\ Storage' /\ Accounts'
  BY MoneyKept
<1>3. ops \in Nat /\ Len(waiters) \in Nat
  BY SendBudgetAssumption, SMTT(30) DEF BudgetInv, Types, TypeOK
<1>4. \A u \in Threads : Shape(u)'
  BY <1>3, ShapesKept, SMTT(30)
<1>5. \A c \in Conns : Blocked(c)' <=> Blocked(c)
  BY DEF Blocked
<1>6. Registered' /\ Answered'
  BY <1>3, <1>5, WaitsKept, SMTT(30)
<1> QED BY <1>1, <1>2, <1>4, <1>6 DEF BudgetInv

LEMMA NoTaskFacts ==
  /\ NoTask \in Locals /\ NoTask.conn = None /\ NoTask.amount = 0 /\ NoTask.then = "idle"
  /\ NoTask.last = 0 /\ NoTask.upper = 0 /\ NoTask.wait = 0 /\ NoTask.shared = 0
BY DEF NoTask, Locals

\* What a thread's locals are, with the types.
LEMMA TaskFacts ==
  ASSUME BudgetInv, NEW t \in Threads
  PROVE  /\ Shape(t) /\ task[t] \in Locals /\ pc[t] \in Positions /\ ops \in Nat /\ Len(waiters) \in Nat
         /\ task[t].conn \in Conns \cup {None} /\ task[t].amount \in Nat /\ task[t].last \in Nat
         /\ task[t].upper \in Nat /\ task[t].wait \in Nat /\ task[t].shared \in Nat
         /\ task[t].then \in {"idle", "notify", "visit"}
BY SendBudgetAssumption, SMTT(30) DEF BudgetInv, Types, TypeOK, Locals

\* A thread that is out of work.
LEMMA FinishStep ==
  ASSUME BudgetInv, NEW t \in Threads, pc[t] \in {"notify", "acquire", "reacquire", "recheck"}, Finish(t),
         UNCHANGED <<memory, conn, ops, buffered>>, ~buffered => ~changed \/ notifying
  PROVE  BudgetInv'
<1>1. Moves(t, "idle", NoTask)
  BY DEF Finish, Go, Moves
<1>2. pc'[t] = "idle" /\ task'[t] = NoTask /\ \A u \in Threads \ {t} : pc'[u] = pc[u] /\ task'[u] = task[u]
  BY <1>1, Moved, NoTaskFacts DEF BudgetInv, Positions
<1>3. Shape(t)'
  BY <1>2, NoTaskFacts, TaskFacts, SMTT(30) DEF Shape, Locked, Visiting, memory
<1>4. Dispatch'
  <2>1. ~Dispatching(t)' /\ ~Dispatching(t)
    BY <1>2 DEF Dispatching, Visiting
  <2>2. \A u \in Threads \ {t} : (Dispatching(u)' <=> Dispatching(u)) /\ (Listening(u)' <=> Listening(u))
    BY <1>2 DEF Dispatching, Listening
  <2>3. \A u \in Threads : Dispatching(u) => Listening(u)
    BY DEF Dispatching, Listening, Visiting
  <2>4. ~buffered /\ changed => \E u \in Threads \ {t} : Listening(u)
    <3>1. ~buffered /\ changed => \E u \in Threads : Dispatching(u)
      BY DEF BudgetInv, Dispatch
    <3> QED BY <2>1, <2>3, <3>1
  <2>5. \A u \in Threads : Dispatching(u)' <=> Dispatching(u)
    BY <2>1, <2>2
  <2>6. ~buffered' /\ changed' => \E u \in Threads : Listening(u)'
    BY <2>2, <2>4 DEF memory
  <2> QED BY <2>5, <2>6 DEF BudgetInv, Dispatch, memory
<1> QED
  <2>1. \A c \in Conns : ~Coming(t, c) /\ ~Bids(t, c)
    BY NotComing DEF Visiting
  <2>2. changed' \in BOOLEAN /\ notifying' \in BOOLEAN /\ delayed' \subseteq Threads /\ destroyed \subseteq Conns
    BY DEF BudgetInv, Types, TypeOK, memory
  <2> QED BY <1>1, <1>3, <1>4, <2>1, <2>2, FreeStep, NoTaskFacts DEF memory, conn, Positions, Locked, Visiting

\* mChanged is set: the thread goes for mNotifying.
LEMMA NotifyStep ==
  ASSUME BudgetInv, NEW t \in Threads, Notify(t) \/ Recheck(t), UNCHANGED buffered
  PROVE  BudgetInv'
<1>1. UNCHANGED <<memory, conn, ops, buffered>>
  BY DEF Notify, Recheck
<1>2. CASE ~changed
  BY <1>1, <1>2, FinishStep DEF Notify, Recheck
<1>3. CASE changed
  <2> DEFINE where == IF pc[t] = "notify" THEN "acquire" ELSE "reacquire"
  <2>1. pc[t] \in {"notify", "recheck"} /\ Moves(t, where, task[t])
    BY <1>3, TaskFacts DEF Notify, Recheck, Go, Moves, BudgetInv, Types
  <2>2. pc'[t] = where /\ task'[t] = task[t]
    BY <2>1, Moved, TaskFacts DEF BudgetInv, Positions
  <2>3. Shape(t)'
    BY <1>1, <2>1, <2>2, TaskFacts DEF Shape, Locked, Visiting, memory, NoTask
  <2>4. Dispatch'
    <3>1. ~Dispatching(t)' /\ ~Dispatching(t) /\ Listening(t)'
      BY <2>1, <2>2 DEF Dispatching, Listening, Visiting
    <3> QED BY <1>1, <2>1, <3>1, DispatchKept, TaskFacts DEF memory, Positions
  <2>5. \A c \in Conns : ~Coming(t, c) /\ ~Bids(t, c)
    BY <2>1, NotComing DEF Visiting
  <2>6. changed' = changed /\ notifying' \in BOOLEAN /\ delayed' \subseteq Threads /\ destroyed \subseteq Conns /\ changed \in BOOLEAN
    BY <1>1 DEF BudgetInv, Types, TypeOK, memory
  <2>7. where \in Positions \ Locked /\ pc[t] \notin Locked
    BY <2>1 DEF Positions, Locked, Visiting
  <2> HIDE DEF where
  <2> QED BY <1>1, <2>1, <2>3, <2>4, <2>5, <2>6, <2>7, FreeStep, TaskFacts, SMTT(30) DEF memory, conn
<1> QED BY <1>2, <1>3 DEF BudgetInv, Types, TypeOK

\* test_and_set: the thread becomes the dispatcher, or there is one.
LEMMA AcquireStep ==
  ASSUME BudgetInv, NEW t \in Threads, NotifyAcquire(t), UNCHANGED buffered
  PROVE  BudgetInv'
<1>1. pc[t] \in {"acquire", "reacquire"} /\ UNCHANGED <<used, changed, delayed, waiters, conn, ops, buffered>>
  BY DEF NotifyAcquire
<1>2. CASE notifying
  BY <1>1, <1>2, FinishStep DEF NotifyAcquire, TestAndSet, memory
<1>3. CASE ~notifying
  <2>1. notifying' = TRUE /\ Moves(t, "pass", task[t])
    BY <1>3, TaskFacts DEF NotifyAcquire, TestAndSet, Go, Moves, BudgetInv, Types
  <2>2. pc'[t] = "pass" /\ task'[t] = task[t] /\ \A u \in Threads \ {t} : pc'[u] = pc[u] /\ task'[u] = task[u]
    BY <2>1, Moved, TaskFacts DEF BudgetInv, Positions
  <2>3. Shape(t)'
    BY <1>1, <2>2, TaskFacts DEF Shape, Locked, Visiting
  <2>4. Dispatch'
    <3>1. Dispatching(t)' /\ Listening(t)' /\ \A u \in Threads \ {t} : Dispatching(u)' <=> Dispatching(u)
      BY <2>2 DEF Dispatching, Listening, Visiting
    <3>2. ~buffered => delayed = {} /\ \A u \in Threads : ~Dispatching(u)
      BY <1>3 DEF BudgetInv, Dispatch
    <3> QED BY <1>1, <2>1, <3>1, <3>2, SMTT(30) DEF Dispatch
  <2>5. \A c \in Conns : ~Coming(t, c) /\ ~Bids(t, c)
    BY <1>1, NotComing DEF Visiting
  <2>6. changed' = changed /\ delayed' \subseteq Threads /\ destroyed \subseteq Conns /\ changed \in BOOLEAN
    BY <1>1 DEF BudgetInv, Types, TypeOK
  <2>7. "pass" \in Positions \ Locked /\ pc[t] \notin Locked
    BY <1>1 DEF Positions, Locked, Visiting
  <2> QED BY <1>1, <2>1, <2>3, <2>4, <2>5, <2>6, <2>7, FreeStep, TaskFacts, SMTT(30) DEF conn
<1> QED BY <1>2, <1>3

\* A pass begins: every wait that is open will be visited.
LEMMA PassStep ==
  ASSUME BudgetInv, NEW t \in Threads, Pass(t), UNCHANGED buffered
  PROVE  BudgetInv'
<1> DEFINE k == [NoTask EXCEPT !.upper = Len(waiters), !.then = "visit"]
<1>1. /\ pc[t] = "pass" /\ changed' = FALSE /\ UNCHANGED <<used, notifying, delayed, waiters, conn, ops, buffered>>
      /\ Moves(t, "visit", k)
  BY DEF Pass, Go, Moves
<1>2. k \in Locals /\ k.last = 0 /\ k.upper = Len(waiters) /\ k.then = "visit" /\ k.wait = 0
  BY TaskFacts DEF NoTask, Locals
<1> HIDE DEF k
<1>3. pc'[t] = "visit" /\ task'[t] = k
  BY <1>1, <1>2, Moved DEF BudgetInv, Positions
<1>4. Shape(t)'
  BY <1>1, <1>2, <1>3, TaskFacts, SMTT(30) DEF Shape, Locked, Visiting
<1>5. Dispatch'
  <2>1. Dispatching(t)' /\ Dispatching(t) /\ ~changed'
    BY <1>1, <1>3 DEF Dispatching
  <2> QED BY <1>1, <1>2, <2>1, DispatchKept DEF Positions
<1>6. ASSUME NEW c \in Conns, pending[c] \in open PROVE Coming(t, c)'
  <2>1. PICK i \in 1..Len(waiters) : waiters[i] = c
    BY <1>6 DEF BudgetInv, Registered
  <2> QED BY <1>1, <1>2, <1>3, <2>1, SMTT(30) DEF Coming, ToVisit
<1>7. \A c \in Conns : ~Bids(t, c)
  BY <1>1, NotComing DEF Visiting
<1>8. notifying' \in BOOLEAN /\ delayed' \subseteq Threads /\ destroyed \subseteq Conns
  BY <1>1 DEF BudgetInv, Types, TypeOK
<1>9. "visit" \in Positions \ Locked /\ pc[t] \notin Locked
  BY <1>1 DEF Positions, Locked, Visiting
<1> QED BY <1>1, <1>2, <1>4, <1>5, <1>6, <1>7, <1>8, <1>9, FreeStep DEF conn

\* The pass goes on to the next waiter.
LEMMA VisitStep ==
  ASSUME BudgetInv, NEW t \in Threads, Visit(t), UNCHANGED buffered
  PROVE  BudgetInv'
<1> DEFINE c0 == waiters[task[t].last + 1]
           e == [task[t] EXCEPT !.last = @ + 1]
           f == [e EXCEPT !.conn = c0]
           g == [f EXCEPT !.wait = pending[c0]]
           h == [g EXCEPT !.amount = need[c0]]
<1>1. pc[t] = "visit" /\ task[t].last < task[t].upper /\ UNCHANGED <<memory, conn, ops, buffered>>
  BY DEF Visit
<1>2. task[t].upper <= Len(waiters) /\ task[t].then = "visit" /\ task[t].wait <= ops
  BY <1>1, TaskFacts DEF Shape
<1>3. c0 \in Conns \cup {None} /\ None \notin Conns
  BY <1>1, <1>2, TaskFacts, SendBudgetAssumption, SMTT(30) DEF BudgetInv, Types, TypeOK
<1>4. /\ e \in Locals /\ e.last = task[t].last + 1 /\ e.upper = task[t].upper /\ e.then = "visit"
      /\ e.wait = task[t].wait
  BY <1>2, TaskFacts, SMTT(30) DEF Locals
<1>5. destroyed \subseteq Conns /\ \A c \in Conns : ~Bids(t, c)
  BY <1>1, NotComing DEF Visiting, BudgetInv, Types, TypeOK
<1>6. changed' = changed /\ changed \in BOOLEAN /\ notifying' \in BOOLEAN /\ delayed' \subseteq Threads
  BY <1>1 DEF BudgetInv, Types, TypeOK, memory
<1>7. \A c \in Conns : Coming(t, c) => \E i \in task[t].last + 1 .. task[t].upper : waiters[i] = c
  BY <1>1 DEF Coming, ToVisit, Asking, Visiting
<1>8. CASE c0 = None
  <2>1. Moves(t, "visit", e)
    BY <1>1, <1>8, TaskFacts DEF Visit, Moves, BudgetInv, Types
  <2> HIDE DEF e
  <2>2. pc'[t] = "visit" /\ task'[t] = e
    BY <1>4, <2>1, Moved DEF BudgetInv, Positions
  <2>3. Shape(t)'
    BY <1>1, <1>2, <1>4, <2>2, TaskFacts, SMTT(30) DEF Shape, Locked, Visiting, memory
  <2>4. Dispatch'
    <3>1. Dispatching(t)' /\ Dispatching(t) /\ Listening(t)'
      BY <1>1, <2>2 DEF Dispatching, Listening, Visiting
    <3> QED BY <1>1, <1>4, <2>1, <3>1, DispatchKept DEF memory, Positions
  <2>5. ASSUME NEW c \in Conns, Coming(t, c) PROVE Coming(t, c)'
    <3>1. PICK i \in task[t].last + 1 .. task[t].upper : waiters[i] = c
      BY <1>7, <2>5
    <3>2. i # task[t].last + 1
      BY <1>3, <1>8, <3>1
    <3>3. i \in e.last + 1 .. e.upper
      BY <1>4, <3>1, <3>2, TaskFacts, SMTT(30)
    <3> QED BY <1>1, <2>2, <3>1, <3>3 DEF Coming, ToVisit, memory
  <2>6. "visit" \in Positions \ Locked /\ pc[t] \notin Locked
    BY <1>1 DEF Positions, Locked, Visiting
  <2> QED BY <1>1, <1>4, <1>5, <1>6, <2>1, <2>3, <2>4, <2>5, <2>6, FreeStep, SMTT(30) DEF memory, conn
<1>9. CASE c0 # None
  <2>1. Moves(t, "look", h)
    BY <1>1, <1>9, TaskFacts DEF Visit, Go, Moves, BudgetInv, Types, Locals
  <2>2. c0 \in Conns /\ pending[c0] \in Nat /\ need[c0] \in Nat /\ pending[c0] <= ops
    BY <1>3, <1>9, SendBudgetAssumption, SMTT(30) DEF BudgetInv, Types, TypeOK, Registered
  <2> HIDE DEF e, c0
  <2>3. /\ f \in Locals /\ f.last = e.last /\ f.upper = e.upper /\ f.then = "visit" /\ f.conn = c0
    BY <1>3, <1>4 DEF Locals
  <2> HIDE DEF f
  <2>4. /\ g \in Locals /\ g.last = e.last /\ g.upper = e.upper /\ g.then = "visit" /\ g.conn = c0
        /\ g.wait = pending[c0]
    BY <2>2, <2>3 DEF Locals
  <2> HIDE DEF g
  <2>5. /\ h \in Locals /\ h.last = e.last /\ h.upper = e.upper /\ h.then = "visit" /\ h.conn = c0
        /\ h.wait = pending[c0] /\ h.amount = need[c0]
    BY <2>2, <2>4 DEF Locals
  <2> HIDE DEF h
  <2>6. pc'[t] = "look" /\ task'[t] = h
    BY <2>1, <2>5, Moved DEF BudgetInv, Positions, Visiting
  <2>7. Shape(t)'
    BY <1>1, <1>2, <1>4, <2>2, <2>5, <2>6, TaskFacts, SMTT(30) DEF Shape, Locked, Visiting, memory, conn
  <2>8. Dispatch'
    <3>1. Dispatching(t)' /\ Dispatching(t) /\ Listening(t)'
      BY <1>1, <2>5, <2>6 DEF Dispatching, Listening, Visiting
    <3> QED BY <1>1, <2>1, <2>5, <3>1, DispatchKept DEF memory, Positions, Visiting
  <2>9. ASSUME NEW c \in Conns, Coming(t, c) PROVE Coming(t, c)'
    <3>1. CASE c = c0
      BY <1>1, <2>5, <2>6, <3>1 DEF Coming, Asking, Visiting, conn
    <3>2. CASE c # c0
      <4>1. PICK i \in task[t].last + 1 .. task[t].upper : waiters[i] = c
        BY <1>7, <2>9
      <4>2. /\ i # task[t].last + 1 /\ h.last = task[t].last + 1 /\ h.upper = task[t].upper
            /\ task[t].last \in Nat /\ task[t].upper \in Nat
        BY <1>4, <2>5, <3>2, <4>1, TaskFacts DEF c0
      <4>3. i \in h.last + 1 .. h.upper
        BY <4>1, <4>2, SMTT(30)
      <4> QED BY <1>1, <2>6, <4>1, <4>3 DEF Coming, ToVisit, memory
    <3> QED BY <3>1, <3>2
  <2>10. "look" \in Positions \ Locked /\ pc[t] \notin Locked
    BY <1>1 DEF Positions, Locked, Visiting
  <2> QED BY <1>1, <1>5, <1>6, <2>1, <2>5, <2>7, <2>8, <2>9, <2>10, FreeStep, SMTT(30) DEF memory, conn
<1> QED BY <1>8, <1>9

\* The pass is over; the dispatcher gives mNotifying up.
LEMMA PassEndsStep ==
  ASSUME BudgetInv, NEW t \in Threads, PassEnds(t) \/ ClearFlag(t), UNCHANGED buffered
  PROVE  BudgetInv'
<1> DEFINE where == IF pc[t] = "clearFlag" THEN "recheck" ELSE IF changed THEN "pass" ELSE "clearFlag"
<1>1. /\ pc[t] \in {"visit", "clearFlag"} /\ UNCHANGED <<used, changed, waiters, conn, ops, buffered>>
      /\ task[t].last = task[t].upper
  BY TaskFacts DEF PassEnds, ClearFlag, memory, Shape, Visiting
<1>2. Moves(t, where, task[t])
  BY <1>1, TaskFacts DEF PassEnds, ClearFlag, Go, Moves, BudgetInv, Types
<1>3. where \in Positions \ Locked /\ pc[t] \notin Locked /\ where \in {"recheck", "pass", "clearFlag"}
  BY <1>1 DEF Positions, Locked, Visiting
<1>4. pc'[t] = where /\ task'[t] = task[t] /\ \A u \in Threads \ {t} : pc'[u] = pc[u] /\ task'[u] = task[u]
  BY <1>2, <1>3, Moved, TaskFacts DEF BudgetInv
<1>5. Shape(t)'
  BY <1>1, <1>3, <1>4, TaskFacts DEF Shape, Locked, Visiting
<1>6. Dispatching(t) /\ Listening(t)' /\ (Dispatching(t)' <=> pc[t] = "visit")
  BY <1>1, <1>3, <1>4 DEF Dispatching, Listening, Visiting
<1>7. Dispatch' /\ notifying' \in BOOLEAN /\ delayed' \subseteq Threads
  <2>1. CASE pc[t] = "visit"
    <3>1. UNCHANGED <<notifying, delayed>>
      BY <2>1 DEF PassEnds, ClearFlag, memory
    <3> QED BY <1>1, <1>2, <1>3, <1>6, <2>1, <3>1, DispatchKept, TaskFacts DEF BudgetInv, Types, TypeOK
  <2>2. CASE pc[t] = "clearFlag"
    <3>1. IF buffered THEN delayed' = delayed \cup {t} /\ UNCHANGED notifying
          ELSE notifying' = FALSE /\ UNCHANGED delayed
      BY <2>2 DEF PassEnds, ClearFlag
    <3>2. \A u \in Threads \ {t} : Dispatching(u)' <=> Dispatching(u)
      BY <1>4 DEF Dispatching
    <3>3. ~buffered => delayed = {} /\ \A u \in Threads : ~Dispatching(u)'
      BY <1>6, <2>2, <3>2 DEF BudgetInv, Dispatch
    <3>4. Dispatch'
      BY <1>1, <1>6, <3>1, <3>3, SMTT(30) DEF Dispatch
    <3> QED BY <3>1, <3>4 DEF BudgetInv, Types, TypeOK
  <2> QED BY <1>1, <2>1, <2>2
<1>8. \A c \in Conns : ~Coming(t, c) /\ ~Bids(t, c)
  BY <1>1, NotComing DEF Visiting
<1>9. changed' = changed /\ destroyed \subseteq Conns /\ changed \in BOOLEAN
  BY <1>1 DEF BudgetInv, Types, TypeOK
<1> HIDE DEF where
<1> QED BY <1>1, <1>2, <1>3, <1>5, <1>7, <1>8, <1>9, FreeStep, TaskFacts, SMTT(30) DEF conn

\* A delayed store arrives.
LEMMA DrainStep ==
  ASSUME BudgetInv, NEW t \in Threads, Drain(t), UNCHANGED buffered
  PROVE  BudgetInv'
<1>1. /\ UNCHANGED <<used, changed, waiters, pc, task, ops, conn, buffered>>
      /\ t \in delayed /\ delayed' = delayed \ {t} /\ notifying' = FALSE
  BY DEF Drain
<1>2. Types' /\ Dispatch'
  <2>1. buffered
    BY <1>1 DEF BudgetInv, Dispatch
  <2>2. TypeOK'
    BY <1>1 DEF BudgetInv, Types, TypeOK, conn
  <2> QED BY <1>1, <2>1, <2>2 DEF BudgetInv, Types, Dispatch, conn
<1>3. \A u \in Threads : Shape(u)'
  BY <1>1 DEF BudgetInv, Shape, conn
<1>4. Locks' /\ Storage' /\ Accounts'
  BY <1>1 DEF BudgetInv, Locks, Storage, Arriving, Accounts, Total, Due, conn
<1>5. Registered'
  BY <1>1, SMTT(30) DEF BudgetInv, Registered, Bids, conn
<1>6. Answered'
  BY <1>1, SMTT(30) DEF BudgetInv, Answered, Blocked, Coming, ToVisit, Asking, conn
<1> QED BY <1>2, <1>3, <1>4, <1>5, <1>6 DEF BudgetInv

\* The visit to one waiter ends.
LEMMA ReturnFacts ==
  ASSUME BudgetInv, NEW t \in Threads, pc[t] \in Visiting, Return(t), UNCHANGED <<waiters, ops>>
  PROVE  /\ \E k \in Locals : Moves(t, task[t].then, k)
         /\ task[t].then \in Positions \ Locked
         /\ Shape(t)' /\ (Dispatching(t)' <=> Dispatching(t)) /\ (Listening(t)' <=> Listening(t))
         /\ \A c \in Conns : ToVisit(t, c) => ToVisit(t, c)'
<1> DEFINE e == [task[t] EXCEPT !.conn = None]
           k == IF task[t].then = "visit" THEN e ELSE NoTask
<1>1. /\ task[t] \in Locals /\ task[t].then \in {"idle", "notify", "visit"}
      /\ task[t].then # "visit" => task[t].last = task[t].upper
  BY TaskFacts DEF Shape
<1>2. Moves(t, task[t].then, k)
  BY TaskFacts DEF Return, Go, Moves, BudgetInv, Types
<1>3. /\ e \in Locals /\ e.last = task[t].last /\ e.upper = task[t].upper /\ e.then = task[t].then /\ e.wait = task[t].wait
  BY TaskFacts DEF Locals
<1>4. task[t].then \in Positions \ Locked
  BY <1>1 DEF Positions, Locked, Visiting
<1> HIDE DEF e
<1>5. /\ k \in Locals
      /\ task[t].then = "visit" => /\ k.last = task[t].last /\ k.upper = task[t].upper /\ k.then = task[t].then
                                   /\ k.wait = task[t].wait
      /\ task[t].then # "visit" => k = NoTask
  BY <1>3, NoTaskFacts
<1> HIDE DEF k
<1>6. pc'[t] = task[t].then /\ task'[t] = k
  BY <1>2, <1>4, <1>5, Moved DEF BudgetInv
<1>7. Shape(t)'
  <2>1. task[t].last <= task[t].upper /\ task[t].upper <= Len(waiters) /\ task[t].wait <= ops
    BY TaskFacts DEF Shape
  <2>2. CASE task[t].then = "visit"
    BY <1>5, <1>6, <2>1, <2>2 DEF Shape, Locked, Visiting
  <2>3. CASE task[t].then # "visit"
    <3>1. 0 <= 0 /\ 0 <= Len(waiters) /\ 0 <= ops
      BY TaskFacts, SMTT(30)
    <3>2. pc'[t] \in {"idle", "notify"} /\ task'[t] = NoTask
      BY <1>1, <1>5, <1>6, <2>3
    <3> QED BY <3>1, <3>2, NoTaskFacts DEF Shape, Locked, Visiting
  <2> QED BY <2>2, <2>3
<1>8. (Dispatching(t)' <=> Dispatching(t)) /\ (Listening(t)' <=> Listening(t))
  BY <1>1, <1>6 DEF Dispatching, Listening, Visiting
<1>9. \A c \in Conns : ToVisit(t, c) => ToVisit(t, c)'
  <2>1. task[t].then # "visit" => \A c \in Conns : ~ToVisit(t, c)
    BY <1>1, TaskFacts, SMTT(30) DEF ToVisit
  <2> QED BY <1>5, <1>6, <2>1 DEF ToVisit
<1> QED BY <1>2, <1>4, <1>5, <1>7, <1>8, <1>9

\* A visit that ends: the wait it asked for is answered or has no room.
LEMMA VisitEnds ==
  ASSUME BudgetInv, NEW t \in Threads, pc[t] \in Visiting, Return(t), open' \subseteq open,
         UNCHANGED <<memory, destroyed, queue, retained, closed, pending, need, lock, ops, buffered>>,
         \A c \in Conns : Asking(t, c) /\ pending[c] \in open' => Blocked(c),
         \A c \in destroyed : Bids(t, c) => pending[c] \notin open'
  PROVE  BudgetInv'
<1>1. PICK k \in Locals : Moves(t, task[t].then, k)
  BY ReturnFacts DEF memory
<1>2. /\ task[t].then \in Positions \ Locked /\ Shape(t)' /\ (Dispatching(t)' <=> Dispatching(t))
      /\ (Listening(t)' <=> Listening(t)) /\ \A c \in Conns : ToVisit(t, c) => ToVisit(t, c)'
  BY ReturnFacts DEF memory
<1>3. Dispatch'
  BY <1>1, <1>2, DispatchKept DEF memory
<1>4. \A c \in Conns : Coming(t, c) /\ pending[c] \in open' => Blocked(c) \/ Coming(t, c)'
  BY <1>2 DEF Coming, Visiting
<1>5. /\ changed' = changed /\ changed \in BOOLEAN /\ notifying' \in BOOLEAN /\ delayed' \subseteq Threads
      /\ destroyed \subseteq Conns /\ pc[t] \notin Locked
  BY DEF BudgetInv, Types, TypeOK, memory, Visiting, Locked
<1>6. UNCHANGED <<used, queue, retained, lock, waiters, pending, need, destroyed, closed, ops, buffered>>
  BY DEF memory
<1>7. \A c \in Conns : pending[c] \in open' /\ (changed \/ Coming(t, c)) => Blocked(c) \/ changed' \/ Coming(t, c)'
  BY <1>4, <1>5
<1>8. \A c \in destroyed : pending[c] \in open' /\ Bids(t, c) => Bids(t, c)'
  OBVIOUS
<1>9. changed' \in BOOLEAN
  BY <1>5
<1> QED BY <1>1, <1>2, <1>3, <1>5, <1>6, <1>7, <1>8, <1>9, FreeStep

\* SendCapacityState looks at the wait, at the shared counter, at its own.
LEMMA LookStep ==
  ASSUME BudgetInv, NEW t \in Threads, Look(t), UNCHANGED buffered
  PROVE  BudgetInv'
<1>1. pc[t] = "look" /\ UNCHANGED <<destroyed, queue, retained, closed, pending, need, lock, ops, memory>>
  BY DEF Look
<1>2. pc[t] \in Visiting /\ destroyed \subseteq Conns /\ \A c \in destroyed : closed[c]
  BY <1>1 DEF Visiting, BudgetInv, Types, TypeOK, Registered
<1>3. (\A c \in Conns : Asking(t, c) => task[t].wait = pending[c])
  BY DEF Asking
<1>4. \A c \in Conns : Bids(t, c) => task[t].wait = pending[c] /\ task[t].conn = c
  BY <1>1 DEF Bids
<1>5. CASE task[t].wait \notin open
  BY <1>1, <1>2, <1>3, <1>4, <1>5, VisitEnds DEF Look
<1>6. CASE task[t].wait \in open /\ closed[task[t].conn]
  BY <1>1, <1>2, <1>3, <1>4, <1>6, VisitEnds DEF Look
<1>7. CASE task[t].wait \in open /\ ~closed[task[t].conn]
  <2>1. Moves(t, "shared", task[t]) /\ open' = open
    BY <1>1, <1>7, TaskFacts DEF Look, Go, Moves, BudgetInv, Types
  <2>2. pc'[t] = "shared" /\ task'[t] = task[t]
    BY <2>1, Moved, TaskFacts DEF BudgetInv, Positions, Visiting
  <2>3. Shape(t)'
    BY <1>1, <2>2, TaskFacts, SMTT(30) DEF Shape, Locked, Visiting, memory
  <2>4. Dispatch'
    <3>1. (Dispatching(t)' <=> Dispatching(t)) /\ (Listening(t)' <=> Listening(t))
      BY <1>1, <2>2 DEF Dispatching, Listening, Visiting
    <3> QED BY <1>1, <2>1, <3>1, DispatchKept, TaskFacts DEF memory, Positions, Visiting
  <2>5. ASSUME NEW c \in Conns, Coming(t, c) PROVE Coming(t, c)'
    <3>1. ToVisit(t, c) => ToVisit(t, c)'
      BY <1>1, <2>2 DEF ToVisit, memory
    <3>2. Asking(t, c) => Asking(t, c)'
      BY <1>1, <1>7, <2>2 DEF Asking, Visiting
    <3> QED BY <1>1, <2>5, <3>1, <3>2 DEF Coming
  <2>6. \A c \in destroyed : ~Bids(t, c)
    BY <1>2, <1>4, <1>7
  <2>7. /\ changed' = changed /\ changed \in BOOLEAN /\ notifying' \in BOOLEAN /\ delayed' \subseteq Threads
        /\ "shared" \in Positions \ Locked /\ pc[t] \notin Locked
    BY <1>1 DEF BudgetInv, Types, TypeOK, memory, Positions, Visiting, Locked
  <2> QED BY <1>1, <2>1, <2>3, <2>4, <2>5, <2>6, <2>7, FreeStep, TaskFacts, SMTT(30) DEF memory
<1> QED BY <1>5, <1>6, <1>7

LEMMA ReadSharedStep ==
  ASSUME BudgetInv, NEW t \in Threads, ReadShared(t), UNCHANGED buffered
  PROVE  BudgetInv'
<1> DEFINE k == [task[t] EXCEPT !.shared = used]
<1>1. pc[t] = "shared" /\ UNCHANGED <<memory, conn, ops>> /\ Moves(t, "local", k)
  BY TaskFacts DEF ReadShared, Go, Moves, BudgetInv, Types
<1>2. used \in Nat /\ Limit \in Nat /\ need \in [Conns -> Nat]
  BY SendBudgetAssumption, SMTT(30) DEF BudgetInv, Types, TypeOK
<1>3. /\ k \in Locals /\ k.conn = task[t].conn /\ k.amount = task[t].amount /\ k.then = task[t].then
      /\ k.last = task[t].last /\ k.upper = task[t].upper /\ k.wait = task[t].wait /\ k.shared = used
  BY <1>2, TaskFacts DEF Locals
<1> HIDE DEF k
<1>4. pc'[t] = "local" /\ task'[t] = k
  BY <1>1, <1>3, Moved DEF BudgetInv, Positions, Visiting
<1>5. Shape(t)'
  BY <1>1, <1>3, <1>4, TaskFacts, SMTT(30) DEF Shape, Locked, Visiting, memory, conn
<1>6. Dispatch'
  <2>1. (Dispatching(t)' <=> Dispatching(t)) /\ (Listening(t)' <=> Listening(t))
    BY <1>1, <1>3, <1>4 DEF Dispatching, Listening, Visiting
  <2> QED BY <1>1, <1>3, <2>1, DispatchKept DEF memory, Positions, Visiting
<1>7. ASSUME NEW c \in Conns, Coming(t, c) PROVE Blocked(c) \/ Coming(t, c)'
  <2>1. ToVisit(t, c) => ToVisit(t, c)'
    BY <1>1, <1>3, <1>4 DEF ToVisit, memory
  <2>2. Asking(t, c) => Blocked(c) \/ Asking(t, c)'
    BY <1>1, <1>2, <1>3, <1>4, SMTT(30) DEF Asking, Blocked, Visiting, conn
  <2> QED BY <1>1, <1>7, <2>1, <2>2 DEF Coming
<1>8. \A c \in destroyed : ~Bids(t, c)
  BY <1>1 DEF Bids
<1>9. /\ changed' = changed /\ changed \in BOOLEAN /\ notifying' \in BOOLEAN /\ delayed' \subseteq Threads
      /\ "local" \in Positions \ Locked /\ pc[t] \notin Locked
  BY <1>1 DEF BudgetInv, Types, TypeOK, memory, Positions, Visiting, Locked
<1> QED BY <1>1, <1>3, <1>5, <1>6, <1>7, <1>8, <1>9, FreeStep, SMTT(30) DEF memory, conn

LEMMA DecideStep ==
  ASSUME BudgetInv, NEW t \in Threads, Decide(t), UNCHANGED buffered
  PROVE  BudgetInv'
<1>1. /\ pc[t] = "local" /\ UNCHANGED <<destroyed, queue, retained, closed, pending, need, lock, ops, memory>>
      /\ Return(t) /\ pc[t] \in Visiting
  BY DEF Decide, Visiting
<1>2. open' = IF /\ retained[task[t].conn] + task[t].amount <= ConnLimit
                 /\ task[t].shared + task[t].amount <= Limit
              THEN open \ {task[t].wait} ELSE open
  BY DEF Decide
<1>3. ASSUME NEW c \in Conns, Asking(t, c), pending[c] \in open' PROVE Blocked(c)
  <2>1. /\ task[t].conn = c /\ task[t].wait = pending[c] /\ ~closed[c] /\ task[t].shared + need[c] <= Limit
    BY <1>1, <1>3 DEF Asking
  <2>2. task[t].amount = need[c]
    BY <1>1, <2>1, TaskFacts DEF Shape
  <2>3. retained[c] \in Nat /\ need[c] \in Nat /\ ConnLimit \in Nat
    BY SendBudgetAssumption, SMTT(30) DEF BudgetInv, Types, TypeOK
  <2> QED BY <1>2, <1>3, <2>1, <2>2, <2>3, SMTT(30) DEF Blocked
<1>4. \A c \in destroyed : ~Bids(t, c)
  BY <1>1 DEF Bids
<1> QED BY <1>1, <1>2, <1>3, <1>4, VisitEnds

\* Wait registers the connection before it looks for itself.
LEMMA WaitStep ==
  ASSUME BudgetInv, NEW t \in Threads, NEW c \in Conns, NEW b \in Sizes, Wait(t, c, b), UNCHANGED buffered
  PROVE  BudgetInv'
<1> DEFINE e == [NoTask EXCEPT !.conn = c]
           f == [e EXCEPT !.wait = ops + 1]
           k == [f EXCEPT !.amount = b]
           known == \E i \in 1..Len(waiters) : waiters[i] = c
<1>1. /\ pc[t] = "idle" /\ ops < Operations /\ ops' = ops + 1 /\ ~closed[c] /\ c \notin destroyed
      /\ pending' = [pending EXCEPT ![c] = ops + 1] /\ need' = [need EXCEPT ![c] = b]
      /\ open' = open \cup {ops + 1}
      /\ waiters' = IF known THEN waiters ELSE Append(waiters, c)
      /\ UNCHANGED <<used, changed, notifying, delayed, destroyed, queue, retained, closed, lock, buffered>>
  BY DEF Wait
<1>2. Moves(t, "look", k)
  BY <1>1 DEF Wait, Go, Moves, NoTask
<1>3. b \in Nat /\ ops \in Nat /\ Operations \in Nat /\ None \notin Conns
  BY SendBudgetAssumption, SMTT(30) DEF BudgetInv, Types, TypeOK
<1>4. /\ k \in Locals /\ k.conn = c /\ k.wait = ops + 1 /\ k.amount = b /\ k.last = 0 /\ k.upper = 0 /\ k.then = "idle"
  <2>1. e \in Locals /\ e.conn = c /\ e.last = 0 /\ e.upper = 0 /\ e.then = "idle"
    BY NoTaskFacts DEF Locals
  <2> HIDE DEF e
  <2>2. f \in Locals /\ f.conn = c /\ f.last = 0 /\ f.upper = 0 /\ f.then = "idle" /\ f.wait = ops + 1
    BY <1>3, <2>1, SMTT(30) DEF Locals
  <2> HIDE DEF f
  <2> QED BY <1>3, <2>2 DEF Locals
<1> HIDE DEF k
<1>5. pc'[t] = "look" /\ task'[t] = k /\ \A u \in Threads \ {t} : pc'[u] = pc[u] /\ task'[u] = task[u]
  BY <1>2, <1>4, Moved, SMTT(30) DEF BudgetInv, Positions, Visiting
<1>6. /\ waiters \in Seq(Conns \cup {None}) /\ waiters' \in Seq(Conns \cup {None}) /\ Len(waiters) <= Len(waiters')
      /\ Len(waiters) \in Nat /\ Len(waiters') \in Nat
      /\ (\A i \in 1..Len(waiters) : waiters'[i] = waiters[i]) /\ \E i \in 1..Len(waiters') : waiters'[i] = c
  <2>1. waiters \in Seq(Conns \cup {None})
    BY DEF BudgetInv, Types, TypeOK
  <2>2. CASE known
    BY <1>1, <2>1, <2>2, SMTT(30)
  <2>3. CASE ~known
    <3>1. /\ waiters' \in Seq(Conns \cup {None}) /\ Len(waiters') = Len(waiters) + 1 /\ Len(waiters) \in Nat
          /\ \A i \in 1..Len(waiters) : waiters'[i] = waiters[i]
      BY <1>1, <2>1, <2>3, SMTT(30)
    <3>2. waiters'[Len(waiters) + 1] = c
      BY <1>1, <2>1, <2>3, SMTT(30)
    <3> QED BY <2>1, <3>1, <3>2, SMTT(30)
  <2> QED BY <2>2, <2>3
<1>7. /\ pending \in [Conns -> 0..Operations] /\ need \in [Conns -> Nat] /\ open \subseteq 1..Operations
      /\ \A d \in Conns : pending[d] <= ops
  BY DEF BudgetInv, Types, TypeOK, Registered
<1>8. /\ pending' \in [Conns -> 0..Operations] /\ need' \in [Conns -> Nat] /\ open' \subseteq 1..Operations
      /\ pending'[c] = ops + 1 /\ need'[c] = b
      /\ \A d \in Conns \ {c} : pending'[d] = pending[d] /\ need'[d] = need[d]
  <2>1. ops + 1 \in 0..Operations /\ ops + 1 \in 1..Operations
    BY <1>1, <1>3, SMTT(30)
  <2>2. pending' \in [Conns -> 0..Operations] /\ need' \in [Conns -> Nat]
    BY <1>1, <1>3, <1>7, <2>1
  <2>3. open' \subseteq 1..Operations
    BY <1>1, <1>7, <2>1
  <2>4. pending'[c] = ops + 1 /\ need'[c] = b
    BY <1>1, <1>7
  <2>5. \A d \in Conns \ {c} : pending'[d] = pending[d] /\ need'[d] = need[d]
    BY <1>1, <1>7
  <2> QED BY <2>2, <2>3, <2>4, <2>5
<1>9. Types'
  <2>1. pc' \in [Threads -> Positions] /\ task' \in [Threads -> Locals]
    BY <1>2, <1>4, Moved DEF BudgetInv, Positions, Visiting
  <2>2. TypeOK'
    BY <1>1, <1>6, <1>8 DEF BudgetInv, Types, TypeOK
  <2> QED BY <1>1, <1>3, <1>8, <2>1, <2>2 DEF BudgetInv, Types
<1>10. Locks' /\ Storage' /\ Accounts'
  BY <1>1, <1>2, <1>4, MoneyKept DEF Positions, Visiting, Locked
<1>11. \A u \in Threads : Shape(u)'
  <2>1. Shape(t)'
    BY <1>1, <1>3, <1>4, <1>5, <1>6, <1>8, SMTT(30) DEF Shape, Locked, Visiting
  <2>2. \A d \in Conns : (pending'[d] = pending[d] /\ need'[d] = need[d]) \/ pending'[d] > ops
    BY <1>3, <1>8, SMTT(30)
  <2>3. ops' \in Nat /\ ops <= ops' /\ "look" \in Positions /\ lock' = lock /\ retained' = retained
    BY <1>1, <1>3, SMTT(30) DEF Positions, Visiting
  <2>4. Len(waiters') \in Nat /\ Len(waiters) <= Len(waiters')
    BY <1>6
  <2> QED BY <1>2, <1>4, <2>1, <2>2, <2>3, <2>4, ShapesKept
<1>12. Dispatch'
  <2>1. ~Dispatching(t)' /\ ~Dispatching(t) /\ ~Listening(t)
    BY <1>1, <1>4, <1>5 DEF Dispatching, Listening, Visiting
  <2> QED BY <1>1, <1>2, <1>4, <2>1, DispatchKept DEF Positions, Visiting
<1>13. ASSUME NEW d \in Conns, pending'[d] \in open', d # c
       PROVE  pending'[d] = pending[d] /\ pending[d] \in open
  BY <1>1, <1>3, <1>7, <1>8, <1>13, SMTT(30)
<1>14. Registered'
  <2>1. ASSUME NEW d \in Conns
        PROVE  pending'[d] <= ops' /\ (pending'[d] \in open' => \E i \in 1..Len(waiters') : waiters'[i] = d)
    <3>1. CASE d = c
      BY <1>1, <1>3, <1>6, <1>8, <3>1, SMTT(30)
    <3>2. CASE d # c
      <4>1. pending'[d] <= ops'
        BY <1>1, <1>3, <1>7, <1>8, <3>2, SMTT(30)
      <4>2. ASSUME pending'[d] \in open' PROVE \E i \in 1..Len(waiters') : waiters'[i] = d
        <5>1. PICK i \in 1..Len(waiters) : waiters[i] = d
          BY <1>13, <3>2, <4>2 DEF BudgetInv, Registered
        <5> QED BY <1>6, <5>1, SMTT(30)
      <4> QED BY <4>1, <4>2
    <3> QED BY <3>1, <3>2
  <2>2. ASSUME NEW d \in destroyed' PROVE closed'[d] /\ (pending'[d] \in open' => \E u \in Threads : Bids(u, d)')
    <3>1. d \in destroyed /\ d \in Conns /\ d # c /\ closed[d]
      BY <1>1 DEF BudgetInv, Types, TypeOK, Registered
    <3>2. ASSUME pending'[d] \in open' PROVE \E u \in Threads : Bids(u, d)'
      <4>1. PICK u \in Threads : Bids(u, d)
        BY <1>13, <3>1, <3>2 DEF BudgetInv, Registered
      <4>2. u # t
        BY <1>1, <4>1 DEF Bids
      <4> QED BY <1>5, <1>8, <3>1, <4>1, <4>2 DEF Bids
    <3> QED BY <1>1, <3>1, <3>2
  <2> QED BY <2>1, <2>2 DEF Registered
<1>15. Answered'
  <2>1. SUFFICES ASSUME NEW d \in Conns, pending'[d] \in open', ~Blocked(d)', ~changed'
                 PROVE  \E u \in Threads : Coming(u, d)'
    BY DEF Answered
  <2>2. CASE d = c
    BY <1>4, <1>5, <1>8, <2>2 DEF Coming, Asking, Visiting
  <2>3. CASE d # c
    <3>1. pending'[d] = pending[d] /\ pending[d] \in open /\ need'[d] = need[d]
      BY <1>8, <1>13, <2>1, <2>3
    <3>2. ~Blocked(d) /\ ~changed
      BY <1>1, <2>1, <3>1 DEF Blocked
    <3>3. PICK u \in Threads : Coming(u, d)
      BY <3>1, <3>2 DEF BudgetInv, Answered
    <3>4. u # t
      BY <1>1, <3>3, NotComing DEF Visiting
    <3>5. ASSUME ToVisit(u, d) PROVE ToVisit(u, d)'
      <4>1. PICK i \in task[u].last + 1 .. task[u].upper : waiters[i] = d
        BY <3>5 DEF ToVisit
      <4>2. task[u].last \in Nat /\ task[u].upper \in Nat /\ task[u].upper <= Len(waiters)
        BY TaskFacts DEF Shape
      <4>3. i \in 1..Len(waiters)
        BY <1>6, <4>1, <4>2, SMTT(30)
      <4> QED BY <1>5, <1>6, <3>4, <4>1, <4>3 DEF ToVisit
    <3>6. Asking(u, d) => Asking(u, d)'
      BY <1>1, <1>5, <3>1, <3>4 DEF Asking
    <3> QED BY <1>5, <3>3, <3>4, <3>5, <3>6 DEF Coming
  <2> QED BY <2>2, <2>3
<1> QED BY <1>9, <1>10, <1>11, <1>12, <1>14, <1>15 DEF BudgetInv

\* A wait is withdrawn.
LEMMA CancelStep ==
  ASSUME BudgetInv, NEW w \in open, CancelWait(w), UNCHANGED buffered
  PROVE  BudgetInv'
<1>1. /\ open' = open \ {w} /\ UNCHANGED <<destroyed, queue, retained, closed, pending, need, lock, pc, task, ops>>
      /\ UNCHANGED <<used, changed, notifying, delayed, waiters, buffered>>
  BY DEF CancelWait, memory
<1>2. Types'
  <2>1. TypeOK'
    BY <1>1 DEF BudgetInv, Types, TypeOK
  <2> QED BY <1>1, <2>1 DEF BudgetInv, Types
<1>3. \A u \in Threads : Shape(u)'
  BY <1>1 DEF BudgetInv, Shape
<1>4. Locks' /\ Storage' /\ Accounts'
  BY <1>1 DEF BudgetInv, Locks, Storage, Arriving, Accounts, Total, Due
<1>5. Dispatch'
  BY <1>1, SMTT(30) DEF BudgetInv, Dispatch, Dispatching, Listening
<1>6. Registered'
  BY <1>1, SMTT(30) DEF BudgetInv, Registered, Bids
<1>7. Answered'
  BY <1>1, SMTT(30) DEF BudgetInv, Answered, Blocked, Coming, ToVisit, Asking
<1> QED BY <1>2, <1>3, <1>4, <1>5, <1>6, <1>7 DEF BudgetInv

\* A destroyed queue leaves the list of waiters.
LEMMA UnregisterStep ==
  ASSUME BudgetInv, NEW c \in Conns, Unregister(c), UNCHANGED buffered
  PROVE  BudgetInv'
<1>1. /\ c \in destroyed /\ \A t \in Threads : task[t].conn # c
      /\ UNCHANGED <<used, changed, notifying, delayed, pc, task, ops, buffered>>
      /\ UNCHANGED <<destroyed, queue, retained, closed, pending, need, open, lock>>
  BY DEF Unregister, conn
<1>2. PICK n \in 1..Len(waiters) : waiters[n] = c /\ waiters' = [waiters EXCEPT ![n] = None]
  BY DEF Unregister
<1>3. /\ waiters \in Seq(Conns \cup {None}) /\ waiters' \in Seq(Conns \cup {None}) /\ Len(waiters') = Len(waiters)
      /\ Len(waiters) \in Nat
      /\ \A i \in 1..Len(waiters) : waiters[i] # c => waiters'[i] = waiters[i]
  BY <1>2, SMTT(30) DEF BudgetInv, Types, TypeOK
<1>4. pending[c] \notin open
  BY <1>1 DEF BudgetInv, Registered, Bids
<1>5. Types'
  <2>1. TypeOK'
    BY <1>1, <1>3 DEF BudgetInv, Types, TypeOK
  <2> QED BY <1>1, <2>1 DEF BudgetInv, Types
<1>6. \A u \in Threads : Shape(u)'
  BY <1>1, <1>3 DEF BudgetInv, Shape
<1>7. Locks' /\ Storage' /\ Accounts'
  BY <1>1 DEF BudgetInv, Locks, Storage, Arriving, Accounts, Total, Due
<1>8. Dispatch'
  <2>1. \A u \in Threads : (Dispatching(u)' <=> Dispatching(u)) /\ (Listening(u)' <=> Listening(u))
    BY <1>1 DEF Dispatching, Listening
  <2> QED BY <1>1, <2>1, SMTT(30) DEF BudgetInv, Dispatch
<1>9. Registered'
  <2>1. \A d \in Conns : pending[d] \in open => \E i \in 1..Len(waiters') : waiters'[i] = d
    BY <1>3, <1>4 DEF BudgetInv, Registered
  <2> QED BY <1>1, <2>1, SMTT(30) DEF BudgetInv, Registered, Bids
<1>10. Answered'
  <2>1. ASSUME NEW d \in Conns, pending[d] \in open, NEW u \in Threads, Coming(u, d) PROVE Coming(u, d)'
    <3>1. d # c
      BY <1>4, <2>1
    <3>2. ToVisit(u, d) => ToVisit(u, d)'
      BY <1>1, <1>3, <3>1, TaskFacts, SMTT(30) DEF ToVisit, Shape
    <3>3. Asking(u, d) => Asking(u, d)'
      BY <1>1 DEF Asking
    <3> QED BY <1>1, <2>1, <3>2, <3>3 DEF Coming
  <2>2. \A d \in Conns : Blocked(d)' <=> Blocked(d)
    BY <1>1 DEF Blocked
  <2> QED BY <1>1, <2>1, <2>2 DEF BudgetInv, Answered
<1> QED BY <1>5, <1>6, <1>7, <1>8, <1>9, <1>10 DEF BudgetInv
=============================================================================
