-------------------------- MODULE SendBudgetProofs --------------------------
(***************************************************************************)
(* BudgetIsExact of SendBudget, for any threads, connections, sizes and    *)
(* limits: the steps under a queue's mutex, which move bytes between the   *)
(* queues and the shared counter, and the theorem.  SendBudget has the     *)
(* inductive invariant and the steps of the waits and of the dispatcher.   *)
(***************************************************************************)
EXTENDS SendBudget, SumTheorems

\* A leaf is for Zenon, which has 30 seconds, unless it names another prover.
USE ZenonT(30)

\* What the arithmetic of the accounts needs where nothing is charged.
LEMMA Settled ==
  ASSUME NEW u \in Nat, NEW r \in Nat
  PROVE  /\ 0 <= u /\ u <= u /\ u + 0 = u
         /\ u = u + (r - r) + (0 - 0) /\ u = u + (r - r) - 0
BY SMTT(30)

LEMMA Counted ==
  ASSUME NEW n \in Nat, NEW m \in Nat, n < m
  PROVE  n + 1 \in 0..m /\ n <= n + 1 /\ 0 <= n + 1
BY SMTT(30)

LEMMA Widened ==
  ASSUME NEW n \in Nat, NEW f \in [Conns -> 0..n]
  PROVE  f \in [Conns -> Nat] /\ \A c \in Conns : f[c] \in Nat
BY SMTT(30)

\* What the proof needs to know of sums.
OfNone == \A f : SumFunctionOnSet(f, {}) = 0
OfZeros == \A f, S : IsFiniteSet(S) /\ (\A x \in S : f[x] = 0) => SumFunctionOnSet(f, S) = 0
OfNaturals ==
  \A f, S : IsFiniteSet(S) /\ (\A x \in S : f[x] \in Nat) =>
    SumFunctionOnSet(f, S) \in Nat /\ \A x \in S : f[x] <= SumFunctionOnSet(f, S)
OfSequences ==
  \A q \in Seq(Nat) :
    /\ SumFunctionOnSet(q, DOMAIN q) \in Nat
    /\ \A b \in Nat : SumFunctionOnSet(Append(q, b), DOMAIN Append(q, b)) = SumFunctionOnSet(q, DOMAIN q) + b
    /\ q # <<>> => SumFunctionOnSet(q, DOMAIN q) = Head(q) + SumFunctionOnSet(Tail(q), DOMAIN Tail(q))
SumLaws == OfNone /\ OfZeros /\ OfNaturals /\ OfSequences

\* What a thread owes is part of what is charged.
LEMMA DueIsCharged ==
  ASSUME SumLaws, BudgetInv
  PROVE  /\ (\A t \in Threads : Due(t) \in Nat /\ Due(t) <= used) /\ used \in Nat
         /\ Total(retained) \in Nat /\ Total(retained) <= used
         /\ (\A t \in Threads : Due(t) = 0) => used = Total(retained)
<1> DEFINE D == [t \in Threads |-> Due(t)]
<1>1. /\ IsFiniteSet(Conns) /\ IsFiniteSet(Threads) /\ (\A c \in Conns : retained[c] \in Nat) /\ used \in Nat
      /\ used = Total(retained) + SumFunctionOnSet(D, Threads)
  BY SendBudgetAssumption, SMTT(30) DEF BudgetInv, Types, TypeOK, Accounts
<1>2. \A t \in Threads : Due(t) \in Nat /\ D[t] = Due(t)
  BY TaskFacts DEF Due
<1>3. Total(retained) \in Nat
  BY <1>1 DEF Total, SumLaws, OfNaturals
<1> HIDE DEF D
<1>4. SumFunctionOnSet(D, Threads) \in Nat /\ \A t \in Threads : D[t] <= SumFunctionOnSet(D, Threads)
  BY <1>1, <1>2 DEF SumLaws, OfNaturals
<1>5. \A t \in Threads : Due(t) <= used
  BY <1>1, <1>2, <1>3, <1>4, SMTT(30)
<1>6. (\A t \in Threads : Due(t) = 0) => SumFunctionOnSet(D, Threads) = 0
  BY <1>1, <1>2 DEF SumLaws, OfZeros
<1> QED BY <1>1, <1>2, <1>3, <1>4, <1>5, <1>6, SMTT(30)

\* A thread at work on c: the books of c and of the host are kept.
LEMMA MoneyMoves ==
  ASSUME SumLaws, BudgetInv, NEW t \in Threads, NEW c \in Conns, NEW where \in Positions, NEW k \in Locals, Moves(t, where, k),
         pc[t] \in Locked => task[t].conn = c, retained' \in [Conns -> Nat],
         \A d \in Conns \ {c} : queue'[d] = queue[d] /\ retained'[d] = retained[d] /\ lock'[d] = lock[d],
         IF where \in Locked THEN lock'[c] = t /\ k.conn = c ELSE lock'[c] = None,
         SumFunctionOnSet(queue'[c], DOMAIN queue'[c]) = retained'[c] + (IF where = "retain" THEN k.amount ELSE 0),
         used' = used + (retained'[c] - retained[c]) + ((IF where \in {"retain", "credit"} THEN k.amount ELSE 0) - Due(t))
  PROVE  Locks' /\ Storage' /\ Accounts'
<1>1. pc'[t] = where /\ task'[t] = k /\ \A u \in Threads \ {t} : pc'[u] = pc[u] /\ task'[u] = task[u]
  BY Moved DEF BudgetInv
<1>2. \A d \in Conns \ {c} : lock[d] # None => lock[d] \in Threads \ {t}
  BY DEF BudgetInv, Locks, Types, TypeOK
<1>3. t # None
  BY SendBudgetAssumption
<1>4. Locks'
  <2>1. ASSUME NEW d \in Conns, lock'[d] # None PROVE pc'[lock'[d]] \in Locked /\ task'[lock'[d]].conn = d
    <3>1. CASE d = c
      BY <1>1, <2>1, <3>1
    <3>2. CASE d # c
      BY <1>1, <1>2, <2>1, <3>2, SMTT(30) DEF BudgetInv, Locks
    <3> QED BY <3>1, <3>2
  <2> QED BY <2>1 DEF Locks
<1>5. Storage'
  <2>1. ASSUME NEW d \in Conns \ {c}
        PROVE  SumFunctionOnSet(queue'[d], DOMAIN queue'[d]) = retained'[d] + Arriving(d)'
    <3>1. Arriving(d)' = Arriving(d)
      BY <1>1, <1>2, SMTT(30) DEF Arriving
    <3> QED BY <3>1 DEF BudgetInv, Storage
  <2>2. Arriving(c)' = IF where = "retain" THEN k.amount ELSE 0
    BY <1>1, <1>3 DEF Arriving, Locked
  <2> QED BY <2>1, <2>2 DEF Storage
<1>6. Accounts'
  <2> DEFINE D == [u \in Threads |-> Due(u)]
             E == [u \in Threads |-> Due(u)']
  <2>1. Due(t)' = IF where \in {"retain", "credit"} THEN k.amount ELSE 0
    BY <1>1 DEF Due
  <2>2. \A u \in Threads \ {t} : Due(u)' = Due(u)
    BY <1>1 DEF Due
  <2>3. (\A u \in Threads : D[u] \in Nat /\ D[u] \in Int /\ D[u] = Due(u)) /\ used \in Int /\ Total(retained) \in Int
    BY DueIsCharged, SMTT(30)
  <2>4. \A u \in Threads : E[u] \in Int /\ E[u] = Due(u)'
    BY <2>1, <2>2, <2>3, SMTT(30) DEF Locals
  <2>5. /\ IsFiniteSet(Threads) /\ IsFiniteSet(Conns) /\ (\A d \in Conns : retained[d] \in Int /\ retained'[d] \in Int)
        /\ used = Total(retained) + SumFunctionOnSet(D, Threads)
    BY SendBudgetAssumption, SMTT(30) DEF BudgetInv, Types, TypeOK, Accounts
  <2> HIDE DEF D, E
  <2>6. SumFunctionOnSet(E, Threads) = SumFunctionOnSet(D, Threads) - D[t] + E[t]
    <3>1. \A u \in Threads : D[u] \in Int /\ E[u] \in Int
      BY <2>3, <2>4
    <3>2. \A u \in Threads \ {t} : D[u] = E[u]
      BY <2>2, <2>3, <2>4
    <3>3. IsFiniteSet(Threads) /\ t \in Threads
      BY <2>5
    <3> QED BY <3>1, <3>2, <3>3, SumChanges, SMTT(30)
  <2>7. Total(retained') = Total(retained) - retained[c] + retained'[c]
    <3>1. \A d \in Conns \ {c} : retained[d] = retained'[d]
      OBVIOUS
    <3>2. IsFiniteSet(Conns) /\ \A d \in Conns : retained[d] \in Int /\ retained'[d] \in Int
      BY <2>5
    <3> QED BY <3>1, <3>2, SumChanges, SMTT(30) DEF Total
  <2>8. SumFunctionOnSet(D, Threads) \in Int
    BY <2>3, <2>5, SMTT(30) DEF SumLaws, OfNaturals
  <2>9. used' = Total(retained') + SumFunctionOnSet(E, Threads)
    BY <2>1, <2>3, <2>4, <2>5, <2>6, <2>7, <2>8, SMTT(30)
  <2> QED BY <2>9 DEF E, Accounts, Total
<1> QED BY <1>4, <1>5, <1>6

\* The mutexes a thread takes and gives up.
LEMMA LockedStep ==
  ASSUME SumLaws, BudgetInv, NEW t \in Threads, NEW c \in Conns, NEW where \in Locked \cup {"notify", "look"},
         NEW k \in Locals, Moves(t, where, k), where = "look" => k.then = "notify",
         pc[t] \in Locked \cup {"idle"}, pc[t] \in Locked => task[t].conn = c, lock[c] \in {None, t}, retained' \in [Conns -> Nat],
         \A d \in Conns \ {c} : queue'[d] = queue[d] /\ retained'[d] = retained[d] /\ lock'[d] = lock[d],
         IF where \in Locked THEN lock'[c] = t /\ k.conn = c ELSE lock'[c] = None,
         SumFunctionOnSet(queue'[c], DOMAIN queue'[c]) = retained'[c] + (IF where = "retain" THEN k.amount ELSE 0),
         used' = used + (retained'[c] - retained[c]) + ((IF where \in {"retain", "credit"} THEN k.amount ELSE 0) - Due(t)),
         TypeOK', UNCHANGED <<notifying, delayed, waiters, pending, need, buffered>>, ops' \in 0..Operations, ops <= ops',
         Shape(t)', Registered', Answered'
  PROVE  BudgetInv'
<1>1. where \in Positions /\ ops' \in Nat
  BY SendBudgetAssumption, SMTT(30) DEF Positions, Visiting
<1>2. pc'[t] = where /\ task'[t] = k /\ pc' \in [Threads -> Positions] /\ task' \in [Threads -> Locals]
  BY <1>1, Moved DEF BudgetInv
<1>3. Types'
  BY <1>2 DEF BudgetInv, Types
<1>4. Locks' /\ Storage' /\ Accounts'
  BY <1>1, MoneyMoves
<1>5. \A u \in Threads : Shape(u)'
  <2>1. \A d \in Conns : lock[d] \in {None, t} \/ (lock'[d] = lock[d] /\ retained'[d] = retained[d])
    OBVIOUS
  <2> QED BY <1>1, <2>1, ShapesKept, TaskFacts, SMTT(30)
<1>6. Dispatch'
  <2>1. ~Dispatching(t)
    BY DEF Dispatching, Locked, Visiting
  <2>2. ~Dispatching(t)' /\ Listening(t)'
    BY <1>2 DEF Dispatching, Listening, Locked, Visiting
  <2> QED BY <1>1, <2>1, <2>2, DispatchKept
<1> QED BY <1>3, <1>4, <1>5, <1>6 DEF BudgetInv

\* The waits, for a step under a mutex: it leaves less room, or it will mark the change.
LEMMA WaitsUnderLock ==
  ASSUME BudgetInv, NEW t \in Threads, NEW where \in Positions, NEW k \in Locals, Moves(t, where, k),
         pc[t] \in Locked \cup {"idle"},
         UNCHANGED <<waiters, pending, need, destroyed, open>>, ops' \in 0..Operations, ops <= ops',
         closed' = closed \/ (changed' /\ \A c \in Conns : closed[c] => closed'[c]),
         \/ changed' \/ where \in {"credit", "mark"}
         \/ pc[t] \notin {"credit", "mark"} /\ changed' = changed /\ \A c \in Conns : Blocked(c) => Blocked(c)',
         pc[t] \in Locked /\ task[t].then = "notify" => /\ where \in {"credit", "mark", "look"}
                                                        /\ k.then = "notify" /\ k.conn = task[t].conn
                                                        /\ where = "look" => k.wait = pending[k.conn]
  PROVE  Registered' /\ Answered'
<1>1. pc'[t] = where /\ task'[t] = k
  BY Moved, SMTT(30) DEF BudgetInv
<1>2. \A c \in Conns : Bids(t, c) => Bids(t, c)'
  BY <1>1, TaskFacts DEF Bids, Locked, Visiting
<1>3. pc[t] \notin {"credit", "mark"} => \A c \in Conns : ~Coming(t, c)
  <2>1. \A c \in Conns : ~ToVisit(t, c)
    BY TaskFacts, SMTT(30) DEF ToVisit, Shape, Locked, Visiting
  <2> QED BY <2>1 DEF Coming, Asking, Locked, Visiting
<1>4. where \in {"credit", "mark"} => \A c \in Conns : Coming(t, c)'
  BY <1>1 DEF Coming
<1>5. \A c \in Conns : (Blocked(c) \/ changed \/ Coming(t, c)) => Blocked(c)' \/ changed' \/ Coming(t, c)'
  BY <1>3, <1>4
<1>6. ops' \in Nat /\ destroyed \subseteq Conns
  BY SendBudgetAssumption, SMTT(30) DEF BudgetInv, Types, TypeOK
<1> QED BY <1>2, <1>5, <1>6, WaitsKept

\* A connection's books.
LEMMA ConnFacts ==
  ASSUME BudgetInv, NEW c \in Conns
  PROVE  /\ queue \in [Conns -> Seq(Sizes)] /\ queue[c] \in Seq(Nat) /\ retained \in [Conns -> 0..ConnLimit]
         /\ retained \in [Conns -> Nat] /\ retained[c] \in Nat /\ retained[c] <= ConnLimit
         /\ used \in Nat /\ used <= Limit /\ ops \in Nat /\ ConnLimit \in Nat /\ Limit \in Nat /\ Operations \in Nat
         /\ lock \in [Conns -> Threads \cup {None}] /\ pending \in [Conns -> Nat] /\ need \in [Conns -> Nat]
         /\ closed \in [Conns -> BOOLEAN] /\ need[c] \in Nat /\ pending[c] \in Nat /\ pending[c] <= ops
         /\ SumFunctionOnSet(queue[c], DOMAIN queue[c]) = retained[c] + Arriving(c)
<1>1. queue \in [Conns -> Seq(Sizes)] /\ Sizes \subseteq Nat
  BY SendBudgetAssumption DEF BudgetInv, Types, TypeOK
<1>2. queue[c] \in Seq(Nat)
  <2>1. queue[c] \in Seq(Sizes)
    BY <1>1
  <2>2. Len(queue[c]) \in Nat /\ queue[c] = [i \in 1..Len(queue[c]) |-> queue[c][i]]
    BY <2>1, SMTT(30)
  <2>3. \A i \in 1..Len(queue[c]) : queue[c][i] \in Sizes
    BY <2>1, SMTT(30)
  <2>4. \A i \in 1..Len(queue[c]) : queue[c][i] \in Nat
    BY <1>1, <2>3
  <2> QED BY <2>2, <2>4, SMTT(30)
<1>3. SumFunctionOnSet(queue[c], DOMAIN queue[c]) = retained[c] + Arriving(c)
  BY DEF BudgetInv, Storage
<1> QED BY <1>1, <1>2, <1>3, SendBudgetAssumption, SMTT(30) DEF BudgetInv, Types, TypeOK, Registered

\* The thread that holds a mutex.
LEMMA LockedFacts ==
  ASSUME BudgetInv, NEW t \in Threads, pc[t] \in Locked
  PROVE  /\ task[t].conn \in Conns /\ lock[task[t].conn] = t /\ task[t].then \in {"idle", "notify"}
         /\ Arriving(task[t].conn) = IF pc[t] = "retain" THEN task[t].amount ELSE 0
         /\ task[t].last = task[t].upper /\ task[t].wait <= ops /\ task[t].upper <= Len(waiters)
<1>1. t # None
  BY SendBudgetAssumption
<1>2. task[t].conn \in Conns /\ lock[task[t].conn] = t /\ task[t].then \in {"idle", "notify"}
  BY TaskFacts DEF Shape
<1>3. task[t].last = task[t].upper /\ task[t].wait <= ops /\ task[t].upper <= Len(waiters)
  BY <1>2, TaskFacts DEF Shape
<1> QED BY <1>1, <1>2, <1>3 DEF Arriving

\* The end of an operation under its mutex.
LEMMA LeaveFacts ==
  ASSUME BudgetInv, NEW t \in Threads, pc[t] \in Locked, Leave(t), UNCHANGED <<pending, need, waiters, ops>>
  PROVE  /\ lock' = [lock EXCEPT ![task[t].conn] = None] /\ Shape(t)'
         /\ \E where \in {"notify", "look"}, k \in Locals :
              /\ Moves(t, where, k) /\ (where = "look" <=> task[t].then = "notify")
              /\ where = "look" => k.then = "notify" /\ k.conn = task[t].conn /\ k.wait = pending[k.conn]
<1> DEFINE c == task[t].conn
           e == [task[t] EXCEPT !.wait = pending[c]]
           f == [e EXCEPT !.amount = need[c]]
           where == IF task[t].then = "notify" THEN "look" ELSE "notify"
           k == IF task[t].then = "notify" THEN f ELSE NoTask
<1>1. lock' = [lock EXCEPT ![c] = None] /\ c \in Conns
  BY LockedFacts DEF Leave, Unlock
<1>2. pending[c] \in Nat /\ need[c] \in Nat /\ pending[c] <= ops
  BY <1>1, ConnFacts
<1>3. Moves(t, where, k)
  BY TaskFacts DEF Leave, Go, Moves, BudgetInv, Types, Locals
<1>4. /\ e \in Locals /\ e.conn = c /\ e.then = task[t].then /\ e.last = task[t].last /\ e.upper = task[t].upper
      /\ e.wait = pending[c]
  BY <1>2, TaskFacts DEF Locals
<1> HIDE DEF e
<1>5. /\ f \in Locals /\ f.conn = c /\ f.then = task[t].then /\ f.last = task[t].last /\ f.upper = task[t].upper
      /\ f.wait = pending[c] /\ f.amount = need[c]
  BY <1>2, <1>4 DEF Locals
<1> HIDE DEF f
<1>6. where \in {"notify", "look"} /\ where \in Positions /\ k \in Locals
  BY <1>5, NoTaskFacts DEF Positions, Visiting
<1>7. pc'[t] = where /\ task'[t] = k
  BY <1>3, <1>6, Moved DEF BudgetInv
<1>8. Shape(t)'
  <2>1. CASE task[t].then = "notify"
    <3>1. pc'[t] = "look" /\ task'[t] = f
      BY <1>7, <2>1
    <3>2. /\ f.last <= f.upper /\ f.upper <= Len(waiters) /\ f.wait <= ops /\ f.last = f.upper
      <4>1. f.last = f.upper /\ f.upper <= Len(waiters) /\ f.wait <= ops /\ f.upper \in Nat
        BY <1>2, <1>5, LockedFacts, TaskFacts
      <4>2. f.upper <= f.upper
        BY <4>1, Settled
      <4> QED BY <4>1, <4>2
    <3> QED BY <1>1, <1>5, <3>1, <3>2 DEF Shape, Locked, Visiting
  <2>2. CASE task[t].then # "notify"
    BY <1>7, <2>2, NoTaskFacts, TaskFacts, SMTT(30) DEF Shape, Locked, Visiting
  <2> QED BY <2>1, <2>2
<1>9. (where = "look" <=> task[t].then = "notify") /\ (where = "look" => k.then = "notify" /\ k.conn = c /\ k.wait = pending[k.conn])
  BY <1>5
<1> HIDE DEF where, k, c
<1> QED BY <1>1, <1>3, <1>6, <1>8, <1>9 DEF c

\* What Holds leaves in an idle thread's locals.
LEMMA HoldsFacts ==
  ASSUME BudgetInv, NEW t \in Threads, pc[t] = "idle", NEW c \in Conns, NEW b \in Nat, Holds(t, c, b), NEW where, Go(t, where)
  PROVE  \E k \in Locals : /\ Moves(t, where, k) /\ k.conn = c /\ k.amount = b /\ k.then = "idle"
                           /\ k.last = 0 /\ k.upper = 0 /\ k.wait = 0
<1> DEFINE e == [NoTask EXCEPT !.conn = c]
           k == [e EXCEPT !.amount = b]
<1>1. task[t] = NoTask
  BY TaskFacts DEF Shape
<1>2. Moves(t, where, k)
  BY <1>1, TaskFacts DEF Holds, Go, Moves, NoTask, BudgetInv, Types
<1>3. e \in Locals /\ e.conn = c /\ e.then = "idle" /\ e.last = 0 /\ e.upper = 0 /\ e.wait = 0
  BY NoTaskFacts DEF Locals
<1> HIDE DEF e
<1>4. k \in Locals /\ k.conn = c /\ k.amount = b /\ k.then = "idle" /\ k.last = 0 /\ k.upper = 0 /\ k.wait = 0
  BY <1>3 DEF Locals
<1> QED BY <1>2, <1>4

\* Enqueue charges first.
LEMMA EnqueueStep ==
  ASSUME SumLaws, BudgetInv, NEW t \in Threads, NEW c \in Conns, NEW b \in Sizes, Enqueue(t, c, b), UNCHANGED buffered
  PROVE  BudgetInv'
<1>1. /\ pc[t] = "idle" /\ lock[c] = None /\ ops < Operations /\ ops' = ops + 1
      /\ UNCHANGED <<changed, notifying, delayed, waiters, destroyed, retained, closed, pending, need, open>>
  BY DEF Enqueue, Begin
<1>2. b \in Nat /\ ops' \in 0..Operations /\ ops <= ops'
  BY <1>1, ConnFacts, SendBudgetAssumption, Counted
<1>3. Arriving(c) = 0 /\ Due(t) = 0 /\ task[t] = NoTask
  BY <1>1, TaskFacts DEF Arriving, Due, Shape
<1>4. CASE HasRoom(c, b)
  <2>1. /\ used' = used + b /\ queue' = [queue EXCEPT ![c] = Append(@, b)] /\ lock' = [lock EXCEPT ![c] = t]
        /\ Holds(t, c, b) /\ Go(t, "retain")
    BY <1>4 DEF Enqueue, Acquire
  <2>2. PICK k \in Locals : /\ Moves(t, "retain", k) /\ k.conn = c /\ k.amount = b /\ k.then = "idle"
                            /\ k.last = 0 /\ k.upper = 0 /\ k.wait = 0
    BY <1>1, <1>2, <2>1, HoldsFacts, SMTT(30)
  <2>3. pc'[t] = "retain" /\ task'[t] = k /\ "retain" \in Positions /\ "retain" \in Locked
    BY <2>2, Moved, SMTT(30) DEF BudgetInv, Positions, Locked
  <2>4. retained[c] + b <= ConnLimit /\ used' \in 0..Limit
    <3>1. used' = used + b /\ used + b <= Limit /\ used \in Nat /\ Limit \in Nat /\ retained[c] + b <= ConnLimit
      BY <1>4, <2>1, ConnFacts DEF HasRoom
    <3> QED BY <1>2, <3>1, SMTT(30)
  <2>5. /\ queue' \in [Conns -> Seq(Sizes)] /\ queue'[c] = Append(queue[c], b) /\ lock'[c] = t
        /\ lock' \in [Conns -> Threads \cup {None}]
        /\ \A d \in Conns \ {c} : queue'[d] = queue[d] /\ retained'[d] = retained[d] /\ lock'[d] = lock[d]
    <3>1. \A d \in Conns \ {c} : queue'[d] = queue[d] /\ retained'[d] = retained[d] /\ lock'[d] = lock[d]
      BY <1>1, <2>1, ConnFacts
    <3>2. queue[c] \in Seq(Sizes) /\ Append(queue[c], b) \in Seq(Sizes)
      BY ConnFacts, SMTT(30)
    <3>3. queue' \in [Conns -> Seq(Sizes)] /\ queue'[c] = Append(queue[c], b)
      BY <2>1, <3>2, ConnFacts
    <3>4. lock' \in [Conns -> Threads \cup {None}] /\ lock'[c] = t
      BY <2>1, ConnFacts
    <3> QED BY <3>1, <3>3, <3>4
  <2>6. TypeOK'
    BY <1>1, <2>4, <2>5 DEF BudgetInv, Types, TypeOK
  <2>7. SumFunctionOnSet(queue'[c], DOMAIN queue'[c]) = retained[c] + b
    <3>1. queue[c] \in Seq(Nat) /\ SumFunctionOnSet(queue[c], DOMAIN queue[c]) = retained[c]
      BY <1>3, ConnFacts, SMTT(30)
    <3>2. SumFunctionOnSet(Append(queue[c], b), DOMAIN Append(queue[c], b)) = SumFunctionOnSet(queue[c], DOMAIN queue[c]) + b
      BY <1>2, <3>1 DEF SumLaws, OfSequences
    <3>3. SumFunctionOnSet(Append(queue[c], b), DOMAIN Append(queue[c], b)) = retained[c] + b
      BY <3>1, <3>2
    <3> QED BY <2>5, <3>3
  <2>8. Shape(t)'
    BY <1>1, <1>2, <2>2, <2>3, <2>4, <2>5, TaskFacts, SMTT(30) DEF Shape, Locked, Visiting
  <2>9. ASSUME NEW d \in Conns, Blocked(d) PROVE Blocked(d)'
    <3>1. used' = used + b /\ used \in Nat /\ b \in Nat /\ need[d] \in Nat /\ Limit \in Nat
      BY <1>2, <2>1, ConnFacts
    <3> QED BY <1>1, <2>9, <3>1, SMTT(30) DEF Blocked
  <2>10. Registered' /\ Answered'
    BY <1>1, <1>2, <2>2, <2>3, <2>9, WaitsUnderLock DEF Locked
  <2>11. used' = used + (retained'[c] - retained[c]) + (k.amount - Due(t)) /\ retained' \in [Conns -> Nat]
    <3>1. used + b = used + (retained[c] - retained[c]) + (b - 0)
      <4>1. used \in Nat /\ retained[c] \in Nat
        BY ConnFacts
      <4> QED BY <1>2, <4>1, SMTT(30)
    <3>2. used' = used + b /\ retained'[c] = retained[c] /\ k.amount = b /\ Due(t) = 0
      BY <1>1, <1>3, <2>1, <2>2
    <3>3. retained' \in [Conns -> Nat]
      BY <1>1, ConnFacts
    <3> QED BY <3>1, <3>2, <3>3
  <2>12. /\ IF "retain" \in Locked THEN lock'[c] = t /\ k.conn = c ELSE lock'[c] = None
         /\ SumFunctionOnSet(queue'[c], DOMAIN queue'[c]) = retained'[c] + (IF "retain" = "retain" THEN k.amount ELSE 0)
         /\ used' = used + (retained'[c] - retained[c]) + ((IF "retain" \in {"retain", "credit"} THEN k.amount ELSE 0) - Due(t))
    BY <1>1, <2>2, <2>3, <2>5, <2>7, <2>11
  <2>13. /\ "retain" \in Locked \cup {"notify", "look"} /\ pc[t] \in Locked \cup {"idle"} /\ lock[c] \in {None, t}
         /\ ("retain" = "look" => k.then = "notify") /\ (pc[t] \in Locked => task[t].conn = c)
         /\ UNCHANGED <<notifying, delayed, waiters, pending, need, buffered>>
    BY <1>1, <2>3 DEF Locked
  <2> QED BY <1>2, <2>2, <2>5, <2>6, <2>8, <2>10, <2>11, <2>12, <2>13, LockedStep
<1>5. CASE ~HasRoom(c, b)
  <2>1. Moves(t, "notify", NoTask) /\ UNCHANGED <<used, queue, lock>>
    BY <1>3, <1>5 DEF Enqueue, Go, Moves, BudgetInv, Types
  <2>2. pc'[t] = "notify" /\ task'[t] = NoTask /\ "notify" \in Positions /\ "notify" \notin Locked
    BY <2>1, Moved, NoTaskFacts DEF BudgetInv, Positions, Locked
  <2>3. TypeOK'
    BY <1>1, <2>1 DEF BudgetInv, Types, TypeOK
  <2>4. Shape(t)'
    BY <1>1, <1>2, <2>2, NoTaskFacts, TaskFacts, SMTT(30) DEF Shape, Locked, Visiting
  <2>5. \A d \in Conns : Blocked(d) => Blocked(d)'
    BY <1>1, <2>1 DEF Blocked
  <2>6. Registered' /\ Answered'
    BY <1>1, <1>2, <2>1, <2>2, <2>5, NoTaskFacts, WaitsUnderLock DEF Locked
  <2>7. SumFunctionOnSet(queue'[c], DOMAIN queue'[c]) = retained'[c] + 0
    BY <1>1, <1>3, <2>1, ConnFacts
  <2>8. used' = used + (retained'[c] - retained[c]) + (0 - Due(t)) /\ retained' \in [Conns -> Nat]
    <3>1. used = used + (retained[c] - retained[c]) + (0 - 0)
      BY ConnFacts, Settled
    <3> QED BY <1>1, <1>3, <2>1, <3>1, ConnFacts
  <2>9. /\ IF "notify" \in Locked THEN lock'[c] = t /\ NoTask.conn = c ELSE lock'[c] = None
        /\ SumFunctionOnSet(queue'[c], DOMAIN queue'[c]) = retained'[c] + (IF "notify" = "retain" THEN NoTask.amount ELSE 0)
        /\ used' = used + (retained'[c] - retained[c]) + ((IF "notify" \in {"retain", "credit"} THEN NoTask.amount ELSE 0) - Due(t))
    BY <1>1, <2>1, <2>2, <2>7, <2>8
  <2>10. /\ "notify" \in Locked \cup {"notify", "look"} /\ pc[t] \in Locked \cup {"idle"} /\ lock[c] \in {None, t}
         /\ ("notify" = "look" => NoTask.then = "notify") /\ (pc[t] \in Locked => task[t].conn = c)
         /\ UNCHANGED <<notifying, delayed, waiters, pending, need, buffered>>
         /\ \A d \in Conns \ {c} : queue'[d] = queue[d] /\ retained'[d] = retained[d] /\ lock'[d] = lock[d]
    BY <1>1, <2>1 DEF Locked
  <2> QED BY <1>2, <2>1, <2>3, <2>4, <2>6, <2>8, <2>9, <2>10, NoTaskFacts, LockedStep
<1> QED BY <1>4, <1>5

\* The end of an operation: its mutex is released, and the bytes are settled.
LEMMA LeaveStep ==
  ASSUME SumLaws, BudgetInv, NEW t \in Threads, pc[t] \in Locked, NEW c \in Conns, c = task[t].conn, Leave(t),
         UNCHANGED <<notifying, delayed, waiters, pending, need, buffered, destroyed, closed, open, ops>>,
         used' \in 0..Limit, changed' \in BOOLEAN, queue' \in [Conns -> Seq(Sizes)], retained' \in [Conns -> 0..ConnLimit],
         \A d \in Conns \ {c} : queue'[d] = queue[d] /\ retained'[d] = retained[d],
         SumFunctionOnSet(queue'[c], DOMAIN queue'[c]) = retained'[c],
         used' = used + (retained'[c] - retained[c]) - Due(t),
         \/ changed'
         \/ pc[t] \notin {"credit", "mark"} /\ changed' = changed /\ \A d \in Conns : Blocked(d) => Blocked(d)'
  PROVE  BudgetInv'
<1>1. lock' = [lock EXCEPT ![c] = None] /\ Shape(t)'
  BY LeaveFacts
<1>2. PICK where \in {"notify", "look"}, k \in Locals :
              /\ Moves(t, where, k) /\ (where = "look" <=> task[t].then = "notify")
              /\ where = "look" => k.then = "notify" /\ k.conn = c /\ k.wait = pending[k.conn]
  BY LeaveFacts
<1>3. lock[c] = t /\ lock \in [Conns -> Threads \cup {None}] /\ ops \in Nat /\ Operations \in Nat /\ ConnLimit \in Nat
  BY LockedFacts, ConnFacts
<1>4. /\ lock' \in [Conns -> Threads \cup {None}] /\ lock'[c] = None
      /\ \A d \in Conns \ {c} : queue'[d] = queue[d] /\ retained'[d] = retained[d] /\ lock'[d] = lock[d]
  BY <1>1, <1>3
<1>5. TypeOK'
  BY <1>4 DEF BudgetInv, Types, TypeOK
<1>6. ops' \in 0..Operations /\ ops <= ops' /\ retained' \in [Conns -> Nat] /\ retained'[c] \in Nat
  BY <1>3, Widened, Settled DEF BudgetInv, Types
<1>7. where \in Positions /\ where \notin Locked /\ where \notin {"retain", "credit"}
  BY DEF Positions, Locked, Visiting
<1>8. Registered' /\ Answered'
  BY <1>2, <1>6, <1>7, WaitsUnderLock
<1>9. /\ IF where \in Locked THEN lock'[c] = t /\ k.conn = c ELSE lock'[c] = None
      /\ SumFunctionOnSet(queue'[c], DOMAIN queue'[c]) = retained'[c] + (IF where = "retain" THEN k.amount ELSE 0)
      /\ used' = used + (retained'[c] - retained[c]) + ((IF where \in {"retain", "credit"} THEN k.amount ELSE 0) - Due(t))
  <2>1. used \in Nat /\ retained[c] \in Nat /\ Due(t) \in Nat
    BY ConnFacts, DueIsCharged
  <2> QED BY <1>4, <1>6, <1>7, <2>1, SMTT(30)
<1>10. /\ where \in Locked \cup {"notify", "look"} /\ pc[t] \in Locked \cup {"idle"} /\ lock[c] \in {None, t}
       /\ (where = "look" => k.then = "notify") /\ (pc[t] \in Locked => task[t].conn = c)
       /\ UNCHANGED <<notifying, delayed, waiters, pending, need, buffered>>
  BY <1>2, <1>3
<1> QED BY <1>1, <1>2, <1>4, <1>5, <1>6, <1>8, <1>9, <1>10, LockedStep

\* The beginning or the middle of one: the mutex is held.
LEMMA HoldStep ==
  ASSUME SumLaws, BudgetInv, NEW t \in Threads, NEW c \in Conns, NEW where \in {"clear", "credit", "mark"}, NEW k \in Locals,
         Moves(t, where, k), k.conn = c, k.then \in {"idle", "notify"}, k.last = k.upper, k.upper <= Len(waiters), k.wait <= ops',
         (pc[t] = "idle" /\ lock[c] = None) \/ (pc[t] \in Locked /\ task[t].conn = c), lock' = [lock EXCEPT ![c] = t],
         UNCHANGED <<notifying, delayed, waiters, pending, need, buffered, open>>, ops' \in 0..Operations, ops <= ops',
         used' \in 0..Limit, changed' \in BOOLEAN, queue' \in [Conns -> Seq(Sizes)], retained' \in [Conns -> 0..ConnLimit],
         closed' \in [Conns -> BOOLEAN], destroyed' \subseteq Conns,
         \A d \in Conns \ {c} : queue'[d] = queue[d] /\ retained'[d] = retained[d],
         SumFunctionOnSet(queue'[c], DOMAIN queue'[c]) = retained'[c],
         NEW due \in Nat, due = IF where = "credit" THEN k.amount ELSE 0,
         used' = used + (retained'[c] - retained[c]) + (due - Due(t)),
         Registered', Answered'
  PROVE  BudgetInv'
<1>1. lock[c] \in {None, t} /\ lock \in [Conns -> Threads \cup {None}] /\ ops \in Nat /\ Operations \in Nat /\ ConnLimit \in Nat
  BY LockedFacts, ConnFacts
<1>2. /\ lock' \in [Conns -> Threads \cup {None}] /\ lock'[c] = t
      /\ \A d \in Conns \ {c} : queue'[d] = queue[d] /\ retained'[d] = retained[d] /\ lock'[d] = lock[d]
  BY <1>1
<1>3. TypeOK'
  BY <1>2 DEF BudgetInv, Types, TypeOK
<1>4. where \in Positions /\ where \in Locked /\ where # "retain" /\ where \notin {"idle", "notify", "acquire", "visit"} \cup Visiting
  BY DEF Positions, Locked, Visiting
<1>5. pc'[t] = where /\ task'[t] = k
  BY <1>4, Moved DEF BudgetInv
<1>6. Shape(t)'
  <2>1. k.last <= k.upper
    BY Settled DEF Locals
  <2> QED BY <1>2, <1>4, <1>5, <2>1 DEF Shape
<1>7. retained' \in [Conns -> Nat] /\ retained'[c] \in Nat
  BY <1>1, Widened
<1>8. /\ IF where \in Locked THEN lock'[c] = t /\ k.conn = c ELSE lock'[c] = None
      /\ SumFunctionOnSet(queue'[c], DOMAIN queue'[c]) = retained'[c] + (IF where = "retain" THEN k.amount ELSE 0)
      /\ used' = used + (retained'[c] - retained[c]) + ((IF where \in {"retain", "credit"} THEN k.amount ELSE 0) - Due(t))
  <2>1. retained'[c] + 0 = retained'[c]
    BY <1>7, Settled
  <2> QED BY <1>2, <1>4, <2>1
<1>9. /\ where \in Locked \cup {"notify", "look"} /\ pc[t] \in Locked \cup {"idle"} /\ lock[c] \in {None, t}
      /\ (where = "look" => k.then = "notify") /\ (pc[t] \in Locked => task[t].conn = c)
      /\ UNCHANGED <<notifying, delayed, waiters, pending, need, buffered>>
  BY <1>1, <1>4 DEF Locked
<1> QED BY <1>2, <1>3, <1>6, <1>7, <1>8, <1>9, LockedStep

LEMMA RetainStep ==
  ASSUME SumLaws, BudgetInv, NEW t \in Threads, Retain(t), UNCHANGED buffered
  PROVE  BudgetInv'
<1> DEFINE c == task[t].conn
           a == task[t].amount
<1>1. /\ pc[t] = "retain" /\ pc[t] \in Locked /\ Leave(t) /\ retained' = [retained EXCEPT ![c] = @ + a]
      /\ UNCHANGED <<notifying, delayed, waiters, pending, need, buffered, destroyed, closed, open, ops>>
      /\ UNCHANGED <<queue, used, changed>>
  BY DEF Retain, memory, Locked
<1>2. c \in Conns /\ a \in Nat /\ retained[c] + a <= ConnLimit /\ Arriving(c) = a /\ Due(t) = a
  BY <1>1, LockedFacts, TaskFacts DEF Shape, Due
<1>3. /\ retained[c] \in Nat /\ retained \in [Conns -> 0..ConnLimit] /\ ConnLimit \in Nat /\ used \in Nat /\ Limit \in Nat
      /\ need \in [Conns -> Nat]
      /\ SumFunctionOnSet(queue[c], DOMAIN queue[c]) = retained[c] + a
  BY <1>2, ConnFacts
<1> HIDE DEF c, a
<1>4. /\ retained' \in [Conns -> 0..ConnLimit] /\ retained'[c] = retained[c] + a
      /\ \A d \in Conns \ {c} : queue'[d] = queue[d] /\ retained'[d] = retained[d]
  BY <1>1, <1>2, <1>3, SMTT(30)
<1>5. SumFunctionOnSet(queue'[c], DOMAIN queue'[c]) = retained'[c]
  BY <1>1, <1>3, <1>4
<1>6. used' = used + (retained'[c] - retained[c]) - Due(t)
  <2>1. used \in Nat /\ retained[c] \in Nat /\ a \in Nat
    BY <1>2, <1>3
  <2>2. used = used + ((retained[c] + a) - retained[c]) - a
    BY <2>1, SMTT(30)
  <2> QED BY <1>1, <1>2, <1>4, <2>2
<1>7. ASSUME NEW d \in Conns, Blocked(d) PROVE Blocked(d)'
  <2>1. retained[d] \in Nat /\ retained'[d] \in Nat /\ need[d] \in Nat /\ retained[d] <= retained'[d]
    <3>1. retained[d] \in Nat /\ retained'[d] \in Nat /\ need[d] \in Nat
      BY <1>3, <1>4, Widened
    <3>2. retained'[d] = retained[d] \/ retained'[d] = retained[d] + a
      BY <1>4
    <3>3. a \in Nat
      BY <1>2
    <3> QED BY <3>1, <3>2, <3>3, SMTT(30)
  <2> QED BY <1>1, <1>3, <1>7, <2>1, SMTT(30) DEF Blocked
<1>8. used' \in 0..Limit /\ changed' \in BOOLEAN /\ queue' \in [Conns -> Seq(Sizes)]
  BY <1>1 DEF BudgetInv, Types, TypeOK
<1> QED BY <1>1, <1>2, <1>4, <1>5, <1>6, <1>7, <1>8, LeaveStep DEF c

LEMMA MarkStep ==
  ASSUME SumLaws, BudgetInv, NEW t \in Threads, MarkChanged(t), UNCHANGED buffered
  PROVE  BudgetInv'
<1> DEFINE c == task[t].conn
<1>1. /\ pc[t] = "mark" /\ pc[t] \in Locked /\ Leave(t) /\ changed' = TRUE
      /\ UNCHANGED <<notifying, delayed, waiters, pending, need, buffered, destroyed, closed, open, ops>>
      /\ UNCHANGED <<queue, used, retained>>
  BY DEF MarkChanged, Locked
<1>2. c \in Conns /\ Arriving(c) = 0 /\ Due(t) = 0
  BY <1>1, LockedFacts DEF Due
<1>3. retained[c] \in Nat /\ used \in Nat /\ SumFunctionOnSet(queue[c], DOMAIN queue[c]) = retained[c]
  BY <1>2, ConnFacts, SMTT(30)
<1> HIDE DEF c
<1>4. used' \in 0..Limit /\ queue' \in [Conns -> Seq(Sizes)] /\ retained' \in [Conns -> 0..ConnLimit]
  BY <1>1 DEF BudgetInv, Types, TypeOK
<1>5. /\ \A d \in Conns \ {c} : queue'[d] = queue[d] /\ retained'[d] = retained[d]
      /\ SumFunctionOnSet(queue'[c], DOMAIN queue'[c]) = retained'[c]
      /\ used' = used + (retained'[c] - retained[c]) - Due(t)
  <2>1. used = used + (retained[c] - retained[c]) - 0
    BY <1>3, Settled
  <2> QED BY <1>1, <1>2, <1>3, <2>1
<1> QED BY <1>1, <1>2, <1>4, <1>5, LeaveStep DEF c

LEMMA CreditStep ==
  ASSUME SumLaws, BudgetInv, NEW t \in Threads, Credit(t), UNCHANGED buffered
  PROVE  BudgetInv'
<1> DEFINE c == task[t].conn
<1>1. /\ pc[t] = "credit" /\ pc[t] \in Locked /\ Moves(t, "mark", task[t]) /\ used' = used - task[t].amount
      /\ UNCHANGED <<changed, notifying, delayed, waiters, pending, need, buffered, open, queue, retained, closed>>
      /\ UNCHANGED <<destroyed, lock, ops>>
  BY DEF Credit, Go, Moves, conn, Locked, BudgetInv, Types
<1>2. /\ c \in Conns /\ lock[c] = t /\ Arriving(c) = 0 /\ Due(t) = task[t].amount /\ task[t].then \in {"idle", "notify"}
      /\ task[t].last = task[t].upper /\ task[t].wait <= ops /\ task[t].upper <= Len(waiters)
  BY <1>1, LockedFacts DEF Due
<1>3. /\ retained[c] \in Nat /\ used \in Nat /\ SumFunctionOnSet(queue[c], DOMAIN queue[c]) = retained[c]
      /\ lock \in [Conns -> Threads \cup {None}] /\ used <= Limit /\ Limit \in Nat /\ ops \in 0..Operations /\ ops \in Nat
  BY <1>2, ConnFacts, SMTT(30) DEF BudgetInv, Types
<1>4. task[t] \in Locals /\ "mark" \in Positions /\ task[t].amount \in Nat /\ task[t].amount <= used
  BY <1>2, TaskFacts, DueIsCharged DEF Positions, Locked
<1>5. used' \in 0..Limit
  BY <1>1, <1>3, <1>4, SMTT(30)
<1>6. /\ queue' \in [Conns -> Seq(Sizes)] /\ retained' \in [Conns -> 0..ConnLimit] /\ changed' \in BOOLEAN
      /\ closed' \in [Conns -> BOOLEAN] /\ destroyed' \subseteq Conns
  BY <1>1 DEF BudgetInv, Types, TypeOK
<1>7. Registered' /\ Answered'
  <2>1. ops' \in 0..Operations /\ ops <= ops' /\ changed' = changed
    BY <1>1, <1>3, Settled
  <2>2. PICK k \in Locals : k = task[t] /\ Moves(t, "mark", k)
    BY <1>1, <1>4
  <2> QED BY <1>1, <1>4, <2>1, <2>2, WaitsUnderLock
<1> HIDE DEF c
<1>8. lock' = [lock EXCEPT ![c] = t] /\ ops' \in 0..Operations /\ ops <= ops'
  <2>1. lock' = [d \in Conns |-> IF d = c THEN t ELSE lock[d]]
    BY <1>1, <1>2, <1>3
  <2>2. lock' = [lock EXCEPT ![c] = t]
    BY <1>1, <1>3, <2>1
  <2> QED BY <1>1, <1>3, <2>2, Settled
<1>9. /\ \A d \in Conns \ {c} : queue'[d] = queue[d] /\ retained'[d] = retained[d]
      /\ SumFunctionOnSet(queue'[c], DOMAIN queue'[c]) = retained'[c]
      /\ used' = used + (retained'[c] - retained[c]) + (0 - Due(t))
  <2>1. used - task[t].amount = used + (retained[c] - retained[c]) + (0 - task[t].amount)
    BY <1>3, <1>4, SMTT(30)
  <2> QED BY <1>1, <1>2, <1>3, <2>1
<1>10. c = task[t].conn
  BY DEF c
<1>11. /\ "mark" \in {"clear", "credit", "mark"} /\ 0 \in Nat /\ 0 = (IF "mark" = "credit" THEN task[t].amount ELSE 0)
       /\ UNCHANGED <<notifying, delayed, waiters, pending, need, buffered, open>>
       /\ ((pc[t] = "idle" /\ lock[c] = None) \/ (pc[t] \in Locked /\ task[t].conn = c)) /\ task[t].wait <= ops'
  BY <1>1, <1>2, <1>10
<1>12. PICK k \in Locals : /\ Moves(t, "mark", k) /\ k.conn = c /\ k.then \in {"idle", "notify"} /\ k.last = k.upper
                            /\ k.upper <= Len(waiters) /\ k.wait <= ops' /\ 0 = (IF "mark" = "credit" THEN k.amount ELSE 0)
  BY <1>1, <1>2, <1>4, <1>10, <1>11
<1> QED BY <1>2, <1>5, <1>6, <1>7, <1>8, <1>9, <1>11, <1>12, HoldStep

LEMMA ClearStep ==
  ASSUME SumLaws, BudgetInv, NEW t \in Threads, Clear(t), UNCHANGED buffered
  PROVE  BudgetInv'
<1> DEFINE c == task[t].conn
<1>1. /\ pc[t] = "clear" /\ pc[t] \in Locked /\ queue' = [queue EXCEPT ![c] = <<>>] /\ retained' = [retained EXCEPT ![c] = 0]
      /\ UNCHANGED <<used, changed, notifying, delayed, waiters, pending, need, buffered, open, closed, destroyed, ops>>
  BY DEF Clear, memory, Locked
<1>2. /\ c \in Conns /\ lock[c] = t /\ Due(t) = 0 /\ task[t].then \in {"idle", "notify"}
      /\ task[t].last = task[t].upper /\ task[t].wait <= ops /\ task[t].upper <= Len(waiters)
  BY <1>1, LockedFacts DEF Due
<1>3. /\ retained[c] \in Nat /\ used \in Nat /\ ops \in 0..Operations /\ ops \in Nat /\ ConnLimit \in Nat
      /\ lock \in [Conns -> Threads \cup {None}] /\ queue \in [Conns -> Seq(Sizes)] /\ retained \in [Conns -> 0..ConnLimit]
  BY <1>2, ConnFacts DEF BudgetInv, Types
<1>4. /\ queue' \in [Conns -> Seq(Sizes)] /\ retained' \in [Conns -> 0..ConnLimit] /\ queue'[c] = <<>> /\ retained'[c] = 0
      /\ \A d \in Conns \ {c} : queue'[d] = queue[d] /\ retained'[d] = retained[d]
  <2> HIDE DEF c
  <2>1. queue' \in [Conns -> Seq(Sizes)] /\ queue'[c] = <<>>
    BY <1>1, <1>2, <1>3, SMTT(30)
  <2>2. retained' \in [Conns -> 0..ConnLimit] /\ retained'[c] = 0
    BY <1>1, <1>2, <1>3, SMTT(30)
  <2> QED BY <1>1, <1>2, <1>3, <2>1, <2>2
<1>5. SumFunctionOnSet(queue'[c], DOMAIN queue'[c]) = retained'[c]
  <2>1. DOMAIN <<>> = {}
    BY SMTT(30)
  <2>2. SumFunctionOnSet(<<>>, DOMAIN <<>>) = 0
    BY <2>1 DEF SumLaws, OfNone
  <2> QED BY <1>4, <2>2
<1>6. used' \in 0..Limit /\ changed' \in BOOLEAN /\ closed' \in [Conns -> BOOLEAN] /\ destroyed' \subseteq Conns
  BY <1>1 DEF BudgetInv, Types, TypeOK
<1>7. CASE retained[c] = 0
  <2>1. Leave(t)
    BY <1>7 DEF Clear
  <2>2. used' = used + (retained'[c] - retained[c]) - Due(t)
    <3>1. used = used + (0 - 0) - 0
      BY <1>3, SMTT(30)
    <3> QED BY <1>1, <1>2, <1>4, <1>7, <3>1
  <2>3. \A d \in Conns : retained'[d] = retained[d]
    BY <1>4, <1>7
  <2>4. \A d \in Conns : Blocked(d) => Blocked(d)'
    BY <1>1, <2>3 DEF Blocked
  <2> HIDE DEF c
  <2> QED BY <1>1, <1>2, <1>4, <1>5, <1>6, <2>1, <2>2, <2>4, LeaveStep DEF c
<1>8. CASE retained[c] # 0
  <2> DEFINE e == [task[t] EXCEPT !.conn = c]
             k == [e EXCEPT !.amount = retained[c]]
  <2>1. Moves(t, "credit", k) /\ lock' = lock
    BY <1>8, TaskFacts DEF Clear, Holds, Go, Moves, BudgetInv, Types
  <2>2. /\ e \in Locals /\ e.conn = c /\ e.then = task[t].then /\ e.last = task[t].last /\ e.upper = task[t].upper
        /\ e.wait = task[t].wait
    BY <1>2, TaskFacts DEF Locals
  <2> HIDE DEF e, c
  <2>3. /\ k \in Locals /\ k.conn = c /\ k.amount = retained[c] /\ k.then = task[t].then /\ k.last = task[t].last
        /\ k.upper = task[t].upper /\ k.wait = task[t].wait
    BY <1>3, <2>2 DEF Locals
  <2> HIDE DEF k
  <2>4. ops' \in 0..Operations /\ ops <= ops' /\ "credit" \in Positions /\ c = task[t].conn
    BY <1>1, <1>3, SMTT(30) DEF Positions, Locked, c
  <2>5. Registered' /\ Answered'
    BY <1>1, <2>1, <2>3, <2>4, WaitsUnderLock
  <2>6. used' = used + (retained'[c] - retained[c]) + (retained[c] - Due(t)) /\ lock' = [lock EXCEPT ![c] = t]
    <3>1. used = used + (0 - retained[c]) + (retained[c] - 0)
      BY <1>3, SMTT(30)
    <3>2. lock = [d \in Conns |-> IF d = c THEN t ELSE lock[d]]
      BY <1>2, <1>3
    <3>3. lock = [lock EXCEPT ![c] = t]
      BY <1>3, <3>2
    <3> QED BY <1>1, <1>2, <1>4, <2>1, <3>1, <3>3
  <2>7. k.then \in {"idle", "notify"} /\ k.last = k.upper /\ k.upper <= Len(waiters) /\ k.wait <= ops'
    BY <1>1, <1>2, <2>3
  <2>8. /\ "credit" \in {"clear", "credit", "mark"} /\ retained[c] = (IF "credit" = "credit" THEN k.amount ELSE 0)
        /\ UNCHANGED <<notifying, delayed, waiters, pending, need, buffered, open>>
        /\ ((pc[t] = "idle" /\ lock[c] = None) \/ (pc[t] \in Locked /\ task[t].conn = c))
    BY <1>1, <2>3, <2>4
  <2>9. c \in Conns /\ retained[c] \in Nat
    BY <1>2, <1>3
  <2> QED BY <1>4, <1>5, <1>6, <2>1, <2>3, <2>4, <2>5, <2>6, <2>7, <2>8, <2>9, HoldStep
<1> QED BY <1>7, <1>8

LEMMA ConsumeStep ==
  ASSUME SumLaws, BudgetInv, NEW t \in Threads, NEW c \in Conns, Consume(t, c), UNCHANGED buffered
  PROVE  BudgetInv'
<1> DEFINE b == Head(queue[c])
<1>1. /\ pc[t] = "idle" /\ lock[c] = None /\ ops < Operations /\ ops' = ops + 1 /\ queue[c] # <<>>
      /\ queue' = [queue EXCEPT ![c] = Tail(@)] /\ retained' = [retained EXCEPT ![c] = @ - b]
      /\ lock' = [lock EXCEPT ![c] = t] /\ Holds(t, c, b) /\ Go(t, "credit")
      /\ UNCHANGED <<used, changed, notifying, delayed, waiters, pending, need, buffered, open, closed, destroyed>>
  BY DEF Consume, Begin, Acquire, memory
<1>2. /\ queue[c] \in Seq(Nat) /\ queue \in [Conns -> Seq(Sizes)] /\ retained \in [Conns -> 0..ConnLimit] /\ retained[c] \in Nat
      /\ retained[c] <= ConnLimit /\ ConnLimit \in Nat /\ used \in Nat /\ ops \in Nat /\ Operations \in Nat
      /\ SumFunctionOnSet(queue[c], DOMAIN queue[c]) = retained[c] + Arriving(c)
  BY ConnFacts
<1>3. Due(t) = 0 /\ Arriving(c) = 0 /\ Len(waiters) \in Nat
  BY <1>1, TaskFacts DEF Arriving, Due
<1>4. b \in Nat /\ Tail(queue[c]) \in Seq(Nat) /\ Tail(queue[c]) \in Seq(Sizes)
  <2>1. queue[c] \in Seq(Sizes)
    BY <1>2
  <2> QED BY <1>1, <1>2, <2>1, SMTT(30)
<1>5. SumFunctionOnSet(Tail(queue[c]), DOMAIN Tail(queue[c])) \in Nat
  BY <1>4 DEF SumLaws, OfSequences
<1>6. SumFunctionOnSet(queue[c], DOMAIN queue[c]) = b + SumFunctionOnSet(Tail(queue[c]), DOMAIN Tail(queue[c]))
  BY <1>1, <1>2 DEF SumLaws, OfSequences
<1> DEFINE left == SumFunctionOnSet(Tail(queue[c]), DOMAIN Tail(queue[c]))
           all == SumFunctionOnSet(queue[c], DOMAIN queue[c])
<1>7. left \in Nat /\ all = b + left /\ all = retained[c] + 0
  BY <1>2, <1>3, <1>5, <1>6
<1> HIDE DEF left, all, b
<1>8. retained[c] = b + left /\ retained[c] - b = left /\ left <= ConnLimit
  BY <1>2, <1>4, <1>7, SMTT(30)
<1>9. /\ queue' \in [Conns -> Seq(Sizes)] /\ retained' \in [Conns -> 0..ConnLimit] /\ queue'[c] = Tail(queue[c])
      /\ retained'[c] = left /\ \A d \in Conns \ {c} : queue'[d] = queue[d] /\ retained'[d] = retained[d]
  <2>1. queue' \in [Conns -> Seq(Sizes)] /\ queue'[c] = Tail(queue[c])
    BY <1>1, <1>2, <1>4
  <2>2. retained' \in [Conns -> 0..ConnLimit] /\ retained'[c] = left
    <3>1. left \in 0..ConnLimit
      BY <1>2, <1>7, <1>8, SMTT(30)
    <3> QED BY <1>1, <1>2, <1>8, <3>1
  <2> QED BY <1>1, <1>2, <2>1, <2>2
<1>10. SumFunctionOnSet(queue'[c], DOMAIN queue'[c]) = retained'[c]
  BY <1>9 DEF left
<1>11. PICK k \in Locals : /\ Moves(t, "credit", k) /\ k.conn = c /\ k.amount = b /\ k.then = "idle"
                           /\ k.last = 0 /\ k.upper = 0 /\ k.wait = 0
  <2>1. pc[t] = "idle" /\ b \in Nat /\ Holds(t, c, b) /\ Go(t, "credit")
    BY <1>1, <1>4
  <2> QED BY <2>1, HoldsFacts, SMTT(30)
<1>12. used' = used + (retained'[c] - retained[c]) + (b - Due(t))
  <2>1. used = used + (left - (b + left)) + (b - 0)
    BY <1>2, <1>4, <1>7, SMTT(30)
  <2> QED BY <1>1, <1>3, <1>8, <1>9, <2>1
<1>13. ops' \in 0..Operations /\ ops <= ops' /\ "credit" \in Positions /\ 0 <= Len(waiters) /\ 0 <= ops' /\ pc[t] \notin Locked
  BY <1>1, <1>2, <1>3, Counted, Settled DEF Positions, Locked
<1>14. Registered' /\ Answered'
  BY <1>1, <1>11, <1>13, WaitsUnderLock
<1>15. used' \in 0..Limit /\ changed' \in BOOLEAN /\ closed' \in [Conns -> BOOLEAN] /\ destroyed' \subseteq Conns
  BY <1>1 DEF BudgetInv, Types, TypeOK
<1>16. /\ "credit" \in {"clear", "credit", "mark"} /\ b = (IF "credit" = "credit" THEN k.amount ELSE 0)
       /\ UNCHANGED <<notifying, delayed, waiters, pending, need, buffered, open>>
       /\ ((pc[t] = "idle" /\ lock[c] = None) \/ (pc[t] \in Locked /\ task[t].conn = c))
       /\ k.then \in {"idle", "notify"} /\ k.last = k.upper /\ k.upper <= Len(waiters) /\ k.wait <= ops'
  BY <1>1, <1>11, <1>13
<1>17. lock' = [lock EXCEPT ![c] = t] /\ b \in Nat /\ ops' \in 0..Operations /\ ops <= ops'
  BY <1>1, <1>4, <1>13
<1> QED BY <1>9, <1>10, <1>11, <1>12, <1>14, <1>15, <1>16, <1>17, HoldStep

\* Closing marks the change itself.
LEMMA CloseStep ==
  ASSUME SumLaws, BudgetInv, NEW t \in Threads, NEW c \in Conns, Close(t, c) \/ Destroy(t, c), UNCHANGED buffered
  PROVE  BudgetInv'
<1>1. /\ pc[t] = "idle" /\ lock[c] = None /\ ops < Operations /\ ops' = ops + 1
      /\ closed' = [closed EXCEPT ![c] = TRUE] /\ changed' = TRUE /\ lock' = [lock EXCEPT ![c] = t]
      /\ UNCHANGED <<used, notifying, delayed, waiters, pending, need, buffered, open, queue, retained>>
  BY DEF Close, Destroy, Begin, Acquire
<1>2. /\ ops \in Nat /\ Operations \in Nat /\ used \in Nat /\ retained[c] \in Nat /\ closed \in [Conns -> BOOLEAN]
      /\ SumFunctionOnSet(queue[c], DOMAIN queue[c]) = retained[c] + Arriving(c)
  BY ConnFacts
<1>3. Due(t) = 0 /\ Arriving(c) = 0 /\ Len(waiters) \in Nat /\ task[t] = NoTask
  BY <1>1, TaskFacts DEF Arriving, Due, Shape
<1>4. /\ ops' \in 0..Operations /\ ops <= ops' /\ "clear" \in Positions /\ 0 <= Len(waiters) /\ 0 <= ops'
      /\ pc[t] \in Locked \cup {"idle"} /\ pc[t] \notin Locked
  BY <1>1, <1>2, <1>3, Counted, Settled DEF Positions, Locked
<1>5. /\ closed' \in [Conns -> BOOLEAN] /\ \A d \in Conns : closed[d] => closed'[d]
  BY <1>1, <1>2
<1>6. /\ used' \in 0..Limit /\ changed' \in BOOLEAN /\ queue' \in [Conns -> Seq(Sizes)]
      /\ retained' \in [Conns -> 0..ConnLimit]
  BY <1>1 DEF BudgetInv, Types, TypeOK
<1>7. /\ \A d \in Conns \ {c} : queue'[d] = queue[d] /\ retained'[d] = retained[d]
      /\ SumFunctionOnSet(queue'[c], DOMAIN queue'[c]) = retained'[c]
      /\ used' = used + (retained'[c] - retained[c]) + (0 - Due(t))
  <2>1. used = used + (retained[c] - retained[c]) + (0 - 0) /\ retained[c] + 0 = retained[c]
    BY <1>2, Settled
  <2> QED BY <1>1, <1>2, <1>3, <2>1
<1>8. \E k \in Locals : /\ Moves(t, "clear", k) /\ k.conn = c /\ k.then \in {"idle", "notify"}
                        /\ k.last = 0 /\ k.upper = 0 /\ k.wait = 0
                        /\ destroyed' = destroyed \/ (destroyed' = destroyed \cup {c} /\ k.then = "notify")
  <2>1. CASE Close(t, c)
    <3>1. Holds(t, c, 0) /\ Go(t, "clear") /\ destroyed' = destroyed
      BY <2>1 DEF Close
    <3> QED BY <1>1, <3>1, HoldsFacts, SMTT(30)
  <2>2. CASE Destroy(t, c)
    <3> DEFINE e == [NoTask EXCEPT !.conn = c]
               k == [e EXCEPT !.then = "notify"]
    <3>1. Moves(t, "clear", k) /\ destroyed' = destroyed \cup {c}
      BY <1>3, <2>2, TaskFacts DEF Destroy, Go, Moves, NoTask, BudgetInv, Types
    <3>2. e \in Locals /\ e.conn = c /\ e.last = 0 /\ e.upper = 0 /\ e.wait = 0
      BY NoTaskFacts DEF Locals
    <3> HIDE DEF e
    <3>3. k \in Locals /\ k.conn = c /\ k.then = "notify" /\ k.last = 0 /\ k.upper = 0 /\ k.wait = 0
      BY <3>2 DEF Locals
    <3> QED BY <3>1, <3>3
  <2> QED BY <2>1, <2>2
<1>9. PICK k \in Locals : /\ Moves(t, "clear", k) /\ k.conn = c /\ k.then \in {"idle", "notify"}
                          /\ k.last = 0 /\ k.upper = 0 /\ k.wait = 0
                          /\ destroyed' = destroyed \/ (destroyed' = destroyed \cup {c} /\ k.then = "notify")
  BY <1>8
<1>10. pc'[t] = "clear" /\ task'[t] = k /\ \A u \in Threads \ {t} : pc'[u] = pc[u] /\ task'[u] = task[u]
  BY <1>4, <1>9, Moved DEF BudgetInv
<1>11. destroyed' \subseteq Conns /\ destroyed \subseteq Conns
  BY <1>9 DEF BudgetInv, Types, TypeOK
<1>12. Registered'
  <2>1. ASSUME NEW d \in Conns
        PROVE  pending'[d] <= ops' /\ (pending'[d] \in open' => \E i \in 1..Len(waiters') : waiters'[i] = d)
    <3>1. pending[d] \in Nat /\ pending[d] <= ops
      BY ConnFacts
    <3>2. pending[d] <= ops + 1
      BY <1>2, <3>1, SMTT(30)
    <3> QED BY <1>1, <3>2 DEF BudgetInv, Registered
  <2>2. ASSUME NEW d \in destroyed' PROVE closed'[d]
    <3>1. d = c \/ closed[d]
      BY <1>9 DEF BudgetInv, Registered
    <3> QED BY <1>1, <1>2, <1>5, <1>11, <3>1
  <2>3. ASSUME NEW d \in destroyed', pending'[d] \in open' PROVE \E u \in Threads : Bids(u, d)'
    <3>1. CASE d \in destroyed
      <4>1. PICK u \in Threads : Bids(u, d)
        BY <1>1, <2>3, <3>1 DEF BudgetInv, Registered
      <4>2. u # t
        BY <1>1, <1>11, <4>1, NotComing DEF Visiting
      <4>3. Bids(u, d)'
        BY <1>1, <1>10, <4>1, <4>2 DEF Bids
      <4> QED BY <4>3
    <3>2. CASE d \notin destroyed
      <4>1. d = c /\ k.then = "notify"
        BY <1>9, <3>2
      <4> QED BY <1>9, <1>10, <4>1 DEF Bids
    <3> QED BY <3>1, <3>2
  <2> QED BY <2>1, <2>2, <2>3 DEF Registered
<1>13. Answered'
  BY <1>1 DEF Answered
<1>14. /\ "clear" \in {"clear", "credit", "mark"} /\ 0 \in Nat /\ 0 = (IF "clear" = "credit" THEN k.amount ELSE 0)
       /\ UNCHANGED <<notifying, delayed, waiters, pending, need, buffered, open>>
       /\ ((pc[t] = "idle" /\ lock[c] = None) \/ (pc[t] \in Locked /\ task[t].conn = c))
       /\ k.last = k.upper /\ k.upper <= Len(waiters) /\ k.wait <= ops'
  BY <1>1, <1>4, <1>9
<1>15. /\ Moves(t, "clear", k) /\ k.conn = c /\ k.then \in {"idle", "notify"} /\ lock' = [lock EXCEPT ![c] = t]
       /\ ops' \in 0..Operations /\ ops <= ops'
  BY <1>1, <1>4, <1>9
<1> QED BY <1>5, <1>6, <1>7, <1>11, <1>12, <1>13, <1>14, <1>15, HoldStep

LEMMA BudgetInitially == ASSUME SumLaws, Init PROVE BudgetInv
<1>1. \A t \in Threads : pc[t] = "idle" /\ task[t] = NoTask
  BY DEF Init
<1>2. Types
  <2>1. TypeOK
    <3>1. <<>> \in Seq(Conns \cup {None}) /\ <<>> \in Seq(Sizes)
      BY SMTT(30)
    <3>2. queue \in [Conns -> Seq(Sizes)] /\ waiters \in Seq(Conns \cup {None})
      BY <3>1 DEF Init
    <3>3. retained \in [Conns -> 0..ConnLimit] /\ pending \in [Conns -> 0..Operations] /\ used \in 0..Limit
      BY SendBudgetAssumption, SMTT(30) DEF Init
    <3> QED BY <3>2, <3>3 DEF Init, TypeOK
  <2> QED BY <2>1, NoTaskFacts, SendBudgetAssumption, SMTT(30) DEF Init, Types, Positions
<1>3. \A t \in Threads : Shape(t)
  BY <1>1, NoTaskFacts, SMTT(30) DEF Init, Shape, Locked, Visiting
<1>4. Locks
  BY DEF Init, Locks
<1>5. Storage
  <2> SUFFICES ASSUME NEW c \in Conns PROVE SumFunctionOnSet(queue[c], DOMAIN queue[c]) = retained[c] + Arriving(c)
    BY DEF Storage
  <2>1. queue[c] = <<>> /\ retained[c] = 0 /\ Arriving(c) = 0
    BY DEF Init, Arriving
  <2>2. DOMAIN <<>> = {} /\ 0 = retained[c] + Arriving(c)
    BY <2>1, SMTT(30)
  <2> QED BY <2>1, <2>2 DEF SumLaws, OfNone
<1>6. Accounts
  <2> DEFINE D == [t \in Threads |-> Due(t)]
  <2>1. (\A t \in Threads : D[t] = 0) /\ \A c \in Conns : retained[c] = 0
    BY <1>1 DEF Init, Due
  <2> HIDE DEF D
  <2>2. SumFunctionOnSet(D, Threads) = 0 /\ SumFunctionOnSet(retained, Conns) = 0
    BY <2>1, SendBudgetAssumption DEF SumLaws, OfZeros
  <2>3. used = SumFunctionOnSet(retained, Conns) + SumFunctionOnSet(D, Threads)
    BY <2>2, SMTT(30) DEF Init
  <2> QED BY <2>3 DEF Accounts, Total, D
<1>7. Dispatch
  BY <1>1 DEF Init, Dispatch, Dispatching, Visiting
<1>8. Registered /\ Answered
  BY SMTT(30) DEF Init, Registered, Answered
<1> QED BY <1>2, <1>3, <1>4, <1>5, <1>6, <1>7, <1>8 DEF BudgetInv

LEMMA BudgetStays == ASSUME SumLaws, BudgetInv, [Next]_vars PROVE BudgetInv'
<1>1. ASSUME NEW t \in Threads, Step(t), UNCHANGED buffered PROVE BudgetInv'
  <2>1. CASE Retain(t)
    BY <1>1, <2>1, RetainStep
  <2>2. CASE Clear(t)
    BY <1>1, <2>2, ClearStep
  <2>3. CASE Credit(t)
    BY <1>1, <2>3, CreditStep
  <2>4. CASE MarkChanged(t)
    BY <1>1, <2>4, MarkStep
  <2>5. CASE Notify(t) \/ Recheck(t)
    BY <1>1, <2>5, NotifyStep
  <2>6. CASE NotifyAcquire(t)
    BY <1>1, <2>6, AcquireStep
  <2>7. CASE Pass(t)
    BY <1>1, <2>7, PassStep
  <2>8. CASE Visit(t)
    BY <1>1, <2>8, VisitStep
  <2>9. CASE PassEnds(t) \/ ClearFlag(t)
    BY <1>1, <2>9, PassEndsStep
  <2>10. CASE Drain(t)
    BY <1>1, <2>10, DrainStep
  <2>11. CASE Look(t)
    BY <1>1, <2>11, LookStep
  <2>12. CASE ReadShared(t)
    BY <1>1, <2>12, ReadSharedStep
  <2>13. CASE Decide(t)
    BY <1>1, <2>13, DecideStep
  <2> QED BY <1>1, <2>1, <2>2, <2>3, <2>4, <2>5, <2>6, <2>7, <2>8, <2>9, <2>10, <2>11, <2>12, <2>13 DEF Step
<1>2. ASSUME NEW t \in Threads, Operation(t), UNCHANGED buffered PROVE BudgetInv'
  <2>1. PICK c \in Conns : \/ \E b \in Sizes : Enqueue(t, c, b) \/ Wait(t, c, b)
                           \/ Consume(t, c) \/ Close(t, c) \/ Destroy(t, c)
    BY <1>2 DEF Operation
  <2>2. ASSUME NEW b \in Sizes, Enqueue(t, c, b) PROVE BudgetInv'
    BY <1>2, <2>2, EnqueueStep
  <2>3. ASSUME NEW b \in Sizes, Wait(t, c, b) PROVE BudgetInv'
    BY <1>2, <2>3, WaitStep
  <2>4. CASE Consume(t, c)
    BY <1>2, <2>4, ConsumeStep
  <2>5. CASE Close(t, c) \/ Destroy(t, c)
    BY <1>2, <2>5, CloseStep
  <2> QED BY <2>1, <2>2, <2>3, <2>4, <2>5
<1>3. ASSUME NEW w \in open, CancelWait(w), UNCHANGED buffered PROVE BudgetInv'
  BY <1>3, CancelStep
<1>4. ASSUME NEW c \in Conns, Unregister(c), UNCHANGED buffered PROVE BudgetInv'
  BY <1>4, UnregisterStep
<1>5. CASE UNCHANGED vars
  <2>1. /\ UNCHANGED <<used, changed, notifying, delayed, waiters, destroyed, queue, retained, closed>>
        /\ UNCHANGED <<pending, need, open, lock, pc, task, ops, buffered>>
    BY <1>5 DEF vars
  <2>2. Types' /\ (\A t \in Threads : Shape(t)') /\ Locks'
    BY <2>1 DEF BudgetInv, Types, TypeOK, Shape, Locks
  <2>3. Storage'
    BY <2>1 DEF BudgetInv, Storage, Arriving
  <2>4. Accounts'
    BY <2>1 DEF BudgetInv, Accounts, Due, Total
  <2>5. Dispatch'
    BY <2>1 DEF BudgetInv, Dispatch, Dispatching, Listening
  <2>6. Registered'
    BY <2>1, SMTT(30) DEF BudgetInv, Registered, Bids
  <2>7. Answered'
    <3>1. \A c \in Conns : Blocked(c)' <=> Blocked(c)
      BY <2>1 DEF Blocked
    <3>2. \A t \in Threads, c \in Conns : (ToVisit(t, c)' <=> ToVisit(t, c)) /\ (Asking(t, c)' <=> Asking(t, c))
      BY <2>1 DEF ToVisit, Asking
    <3>3. \A t \in Threads, c \in Conns : Coming(t, c)' <=> Coming(t, c)
      BY <2>1, <3>2 DEF Coming
    <3> QED BY <2>1, <3>1, <3>3 DEF BudgetInv, Answered
  <2> QED BY <2>2, <2>3, <2>4, <2>5, <2>6, <2>7 DEF BudgetInv
<1> QED BY <1>1, <1>2, <1>3, <1>4, <1>5 DEF Next, Stopped

\* When every thread is out, nothing is due and nobody is on the way.
LEMMA BudgetInvIsEnough == ASSUME SumLaws, BudgetInv PROVE BudgetIsExact
<1>1. ASSUME Quiet, NEW t \in Threads
      PROVE  pc[t] = "idle" /\ Due(t) = 0 /\ ~Dispatching(t) /\ ~Listening(t) /\ \A c \in Conns : ~Coming(t, c)
  <2>1. pc[t] = "idle"
    BY <1>1 DEF Quiet
  <2> QED BY <2>1, NotComing DEF Due, Dispatching, Listening, Visiting
<1>2. BudgetCoversStorage
  <2>1. TypeOK
    BY DEF BudgetInv, Types
  <2> QED BY <1>1, <2>1, DueIsCharged DEF BudgetCoversStorage
<1>3. ASSUME ~buffered, Quiet PROVE ~changed /\ ~notifying
  BY <1>1, <1>3 DEF BudgetInv, Dispatch
<1>4. ASSUME ~buffered, Quiet, NEW c \in Conns, pending[c] \in open
      PROVE  ~closed[c] /\ (retained[c] + need[c] > ConnLimit \/ used + need[c] > Limit)
  <2>1. Blocked(c)
    BY <1>1, <1>3, <1>4 DEF BudgetInv, Answered
  <2> QED BY <2>1 DEF Blocked
<1> QED BY <1>2, <1>3, <1>4 DEF BudgetIsExact, OrderedMemorySuffices, ReleaseIsDispatched, NoWaiterForgotten

\* Sums of sizes and of debts obey the laws that the lemmas of SendBudget use.
LEMMA SumLawsHold == SumLaws
<1>1. OfNone /\ OfZeros
  BY SumOfNone, SumOfZeros DEF OfNone, OfZeros
<1>2. OfNaturals
  <2> SUFFICES ASSUME NEW f, NEW S, IsFiniteSet(S), \A x \in S : f[x] \in Nat
               PROVE  SumFunctionOnSet(f, S) \in Nat /\ \A x \in S : f[x] <= SumFunctionOnSet(f, S)
    BY DEF OfNaturals
  <2>1. SumFunctionOnSet(f, S) \in Nat
    BY SumIsNatural
  <2>2. ASSUME NEW x \in S PROVE f[x] <= SumFunctionOnSet(f, S)
    <3>1. SumFunctionOnSet(f, S) = f[x] + SumFunctionOnSet(f, S \ {x})
      BY SumRemoves, SMTT(30)
    <3>2. IsFiniteSet(S \ {x})
      BY FS_Subset
    <3>3. SumFunctionOnSet(f, S \ {x}) \in Nat
      BY <3>2, SumIsNatural
    <3> QED BY <3>1, <3>3, SMTT(30)
  <2> QED BY <2>1, <2>2
<1>3. OfSequences
  <2> SUFFICES ASSUME NEW q \in Seq(Nat)
               PROVE  /\ SumFunctionOnSet(q, DOMAIN q) \in Nat
                      /\ \A b \in Nat : SumFunctionOnSet(Append(q, b), DOMAIN Append(q, b)) = SumFunctionOnSet(q, DOMAIN q) + b
                      /\ q # <<>> => SumFunctionOnSet(q, DOMAIN q) = Head(q) + SumFunctionOnSet(Tail(q), DOMAIN Tail(q))
    BY DEF OfSequences
  <2>1. 0 \in Nat
    OBVIOUS
  <2> QED BY <2>1, SumAppended, SumOfTail
<1> QED BY <1>1, <1>2, <1>3 DEF SumLaws

\* For any number of threads and connections, any payload sizes and limits: the
\* shared counter covers what the queues retain and agrees with it between
\* operations; and where the clear of mNotifying is not delayed, every release
\* is dispatched and no wait that there is room for is left open.
THEOREM BudgetForgetsNobody == Spec => []BudgetIsExact
<1>1. Init => BudgetInv
  BY SumLawsHold, BudgetInitially
<1>2. BudgetInv /\ [Next]_vars => BudgetInv'
  BY SumLawsHold, BudgetStays
<1>3. BudgetInv => BudgetIsExact
  BY SumLawsHold, BudgetInvIsEnough
<1> QED BY <1>1, <1>2, <1>3, PTL DEF Spec
=============================================================================
