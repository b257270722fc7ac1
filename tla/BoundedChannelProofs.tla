------------------------ MODULE BoundedChannelProofs -------------------------
(***************************************************************************)
(* BoundedChannel implements FifoQueue, loses no value and forgets no wait,*)
(* for any messages, limits, receivers and waits.                          *)
(***************************************************************************)
EXTENDS BoundedChannel, SumTheorems, TLAPS

Codes == {"new", "Ok", "TooLarge", "Closed", "WouldBlock"}

ValueTypes ==
  /\ queue \in Seq(Messages) /\ received \in Seq(Messages) /\ bytes \in Int
  /\ msg \in [Messages -> Codes] /\ closed \in BOOLEAN

\* What TrySend did not accept is in neither sequence, so a value that is
\* offered for the first time is new to the queue.
Accepted ==
  /\ \A i \in 1 .. Len(queue) : msg[queue[i]] = "Ok"
  /\ \A i \in 1 .. Len(received) : msg[received[i]] = "Ok"

ValueInv == ValueTypes /\ Accepted

valueVars == <<queue, bytes, closed, msg, received>>

\* A step changes the values in one of four ways.
Accept(m) ==
  /\ ~closed /\ msg[m] = "new" /\ CanSend(queue, bytes, Bytes[m])
  /\ queue' = Append(queue, m) /\ bytes' = bytes + Bytes[m]
  /\ msg' = [msg EXCEPT ![m] = "Ok"] /\ UNCHANGED <<closed, received>>

Refuse(m) ==
  /\ msg[m] = "new"
  /\ \E c \in Codes \ {"Ok"} : msg' = [msg EXCEPT ![m] = c]
  /\ UNCHANGED <<queue, bytes, closed, received>>

HandOut ==
  /\ queue # <<>> /\ queue' = Tail(queue) /\ bytes' = bytes - Bytes[Head(queue)]
  /\ received' = Append(received, Head(queue)) /\ UNCHANGED <<closed, msg>>

Shuts == ~closed /\ closed' = TRUE /\ UNCHANGED <<queue, bytes, msg, received>>

\* A leaf is for Zenon, which has 60 seconds, unless it names another prover.
USE ZenonT(60)

\* Every step of the channel is one of them or leaves the values alone
\* (TrySend, ReceiveImpl, Close; subscriptions and timeouts touch no value).
LEMMA StepOnValues ==
  ASSUME Next
  PROVE  \/ \E m \in Messages : Accept(m) \/ Refuse(m)
         \/ HandOut \/ Shuts \/ UNCHANGED valueVars
<1>1. CASE \E m \in Messages : TrySend(m)
  <2>1. PICK m \in Messages : TrySend(m)
    BY <1>1
  <2>2. CASE SendCode(m) = "Ok"
    <3>1. Accept(m)
      BY <2>1, <2>2 DEF TrySend, Send, SendCode, Accept
    <3> QED BY <3>1
  <2>3. CASE SendCode(m) # "Ok"
    <3>1. SendCode(m) \in Codes \ {"Ok"}
      BY <2>3 DEF SendCode, Codes
    <3>2. Refuse(m)
      BY <2>1, <2>3, <3>1 DEF TrySend, Refuse
    <3> QED BY <3>2
  <2> QED BY <2>2, <2>3
<1>2. CASE \E r \in Receivers : Receive(r)
  <2>1. PICK r \in Receivers : Receive(r)
    BY <1>2
  <2>2. \/ queue # <<>> /\ Pop(r)
        \/ UNCHANGED <<queue, bytes, received>>
    BY <2>1 DEF Receive, Conclude
  <2>3. UNCHANGED <<closed, msg>>
    BY <2>1 DEF Receive
  <2> QED BY <2>2, <2>3 DEF Pop, HandOut, valueVars
<1>3. CASE \E r \in Receivers : Timeout(r) \/ StopRequested(r)
  BY <1>3 DEF Timeout, StopRequested, valueVars
<1>4. CASE \E s \in Waits : Subscribe(s) \/ CancelWait(s)
  BY <1>4 DEF Subscribe, CancelWait, callVars, valueVars
<1>5. CASE \E f \in firing : Fire(f)
  BY <1>5 DEF Fire, callVars, valueVars
<1>6. CASE Close
  BY <1>6 DEF Close, Shuts
<1>7. CASE Destroy
  BY <1>7 DEF Destroy, callVars, valueVars
<1> QED BY <1>1, <1>2, <1>3, <1>4, <1>5, <1>6, <1>7 DEF Next

\* An empty channel holds no value.
LEMMA InitValues ==
  ASSUME Init
  PROVE  ValueInv
<1>1. <<>> \in Seq(Messages) /\ Len(<<>>) = 0
  BY SMTT(30)
<1>2. ValueTypes
  <2>1. queue = <<>> /\ received = <<>> /\ bytes = 0 /\ closed = FALSE
    BY DEF Init
  <2>2. bytes \in Int
    BY SMTT(30), <2>1
  <2>3. msg \in [Messages -> Codes]
    BY DEF Init, Codes
  <2>4. closed \in BOOLEAN /\ queue \in Seq(Messages) /\ received \in Seq(Messages)
    BY <1>1, <2>1
  <2> QED BY <2>2, <2>3, <2>4 DEF ValueTypes
<1>3. Accepted
  BY SMTT(30), <1>1 DEF Init, Accepted
<1> QED BY <1>2, <1>3 DEF ValueInv

\* Both sequences keep holding accepted messages only.
LEMMA ValuesKept ==
  ASSUME ValueInv, [Next]_vars
  PROVE  ValueInv'
<1> USE DEF ValueInv, ValueTypes, Accepted
<1>1. CASE UNCHANGED valueVars
  BY <1>1 DEF valueVars
<1>2. ASSUME NEW m \in Messages, Accept(m)
      PROVE  ValueInv'
  <2>1. Bytes[m] \in Nat
    BY BoundedChannelAssumption
  <2>2. ValueTypes'
    BY SMTT(30), <1>2, <2>1 DEF Accept, Codes
  <2>3. \A i \in 1 .. Len(queue') : queue'[i] = m \/ (i \in 1 .. Len(queue) /\ queue'[i] = queue[i])
    BY SMTT(30), <1>2 DEF Accept
  <2>4. \A x \in Messages : msg[x] = "Ok" \/ x = m => msg'[x] = "Ok"
    BY <1>2 DEF Accept
  <2> QED BY SMTT(30), <1>2, <2>2, <2>3, <2>4 DEF Accept
<1>3. ASSUME NEW m \in Messages, Refuse(m)
      PROVE  ValueInv'
  <2>1. \A x \in Messages : msg[x] = "Ok" => msg'[x] = "Ok"
    BY <1>3 DEF Refuse
  <2>2. /\ \A i \in 1 .. Len(queue) : queue[i] \in Messages
        /\ \A i \in 1 .. Len(received) : received[i] \in Messages
    BY SMTT(30)
  <2>3. msg' \in [Messages -> Codes]
    BY <1>3 DEF Refuse
  <2> QED BY <1>3, <2>1, <2>2, <2>3 DEF Refuse
<1>4. CASE HandOut
  <2>1. Head(queue) \in Messages /\ Head(queue) = queue[1] /\ 1 \in 1 .. Len(queue)
    BY SMTT(30), <1>4 DEF HandOut
  <2>2. Bytes[Head(queue)] \in Nat
    BY <2>1, BoundedChannelAssumption
  <2>3. ValueTypes'
    BY SMTT(30), <1>4, <2>1, <2>2 DEF HandOut
  <2>4. \A i \in 1 .. Len(queue') : i + 1 \in 1 .. Len(queue) /\ queue'[i] = queue[i + 1]
    BY SMTT(30), <1>4 DEF HandOut
  <2>5. \A i \in 1 .. Len(received') :
          received'[i] = Head(queue) \/ (i \in 1 .. Len(received) /\ received'[i] = received[i])
    BY SMTT(30), <1>4, <2>1 DEF HandOut
  <2> QED BY SMTT(30), <1>4, <2>1, <2>3, <2>4, <2>5 DEF HandOut
<1>5. CASE Shuts
  BY <1>5 DEF Shuts
<1>6. CASE UNCHANGED vars
  BY <1>6 DEF vars, callVars
<1> QED BY <1>1, <1>2, <1>3, <1>4, <1>5, <1>6, StepOnValues

\* A step of the channel is a step of FifoQueue or leaves its variables alone.
LEMMA StepSimulates ==
  ASSUME ValueInv, [Next]_vars
  PROVE  [Fifo!FifoNext]_(Fifo!fifoVars)
<1> USE DEF ValueInv, ValueTypes
<1>1. CASE UNCHANGED valueVars
  BY <1>1 DEF valueVars, Fifo!fifoVars
<1>2. ASSUME NEW m \in Messages, Accept(m)
      PROVE  Fifo!FifoNext
  <2>1. m \notin Fifo!Elements(queue) \cup Fifo!Elements(received)
    BY <1>2 DEF Accept, Accepted, Fifo!Elements
  <2>2. Bytes[m] \in Nat /\ MaxRetainedBytes \in Nat
    BY BoundedChannelAssumption
  <2>3. bytes + Bytes[m] <= MaxRetainedBytes
    BY SMTT(30), <1>2, <2>2 DEF Accept, CanSend
  <2>4. Fifo!Put(m)
    BY <1>2, <2>1, <2>3 DEF Accept, CanSend, Fifo!Put
  <2> QED BY <2>4 DEF Fifo!FifoNext
<1>3. ASSUME NEW m \in Messages, Refuse(m)
      PROVE  UNCHANGED Fifo!fifoVars
  BY <1>3 DEF Refuse, Fifo!fifoVars
<1>4. CASE HandOut
  BY <1>4 DEF HandOut, Fifo!Take, Fifo!FifoNext
<1>5. CASE Shuts
  BY <1>5 DEF Shuts, Fifo!Shut, Fifo!FifoNext
<1>6. CASE UNCHANGED vars
  BY <1>6 DEF vars, callVars, Fifo!fifoVars
<1> QED BY <1>1, <1>2, <1>3, <1>4, <1>5, <1>6, StepOnValues

\* BoundedChannel is a bounded first-in first-out queue: whatever its callers,
\* subscriptions, timeouts and cancellations do, every accepted value is handed
\* out at most once, in the order TrySend accepted it, also after Close, and the
\* limits are never exceeded.
THEOREM ChannelImplementsFifo ==
  Spec => ChannelIsAFifo
<1>1. Init => Fifo!FifoInit
  BY DEF Init, Fifo!FifoInit
<1>2. ValueInv /\ [Next]_vars => ValueInv'
  BY ValuesKept
<1>3. ValueInv /\ [Next]_vars => [Fifo!FifoNext]_(Fifo!fifoVars)
  BY StepSimulates
<1>4. Init => ValueInv
  BY InitValues
<1> QED BY <1>1, <1>2, <1>3, <1>4, PTL DEF Spec, ChannelIsAFifo, Fifo!FifoSpec

-----------------------------------------------------------------------------
(* No wait is lost.                                                        *)

WaitTypes ==
  /\ queue \in Seq(Messages) /\ bytes \in Int /\ writeBytes \in Int
  /\ wait \in [Waits -> {"new", "refused", "pending", "Ok", "Closed", "Cancelled"}]
  /\ receiver \in [Receivers -> {"new", "waiting", "awake", "Ok", "Cancelled", "Timeout",
                                 "Closed", "WouldBlock"}]
  /\ read \in (Waits \ Writing) \cup {None} /\ write \in Writing \cup {None}
  /\ firing \subseteq Waits \X {"Ok", "Closed"}

\* The channel remembers the room its pending writer asked for, and what it
\* holds or a caller carries was subscribed.
WaitsAreKnown ==
  /\ IsPending(write) => writeBytes = WaitBytes[write]
  /\ \A s \in Waits : (s \in {read, write} \/ \E f \in firing : f[1] = s) => wait[s] # "new"

WaitInv == WaitTypes /\ WaitsAreKnown /\ NobodyWaitsForNothing /\ NoWaitIsForgotten

\* The channel starts without waits.
LEMMA InitWaits ==
  ASSUME Init
  PROVE  WaitInv
<1>1. <<>> \in Seq(Messages)
  BY SMTT(30)
<1>2. WaitTypes
  BY SMTT(30), <1>1 DEF Init, WaitTypes
<1>3. ~IsPending(read) /\ ~IsPending(write)
  BY DEF Init, IsPending
<1>4. None \notin Waits
  BY BoundedChannelAssumption
<1> QED BY <1>2, <1>3, <1>4 DEF Init, WaitInv, WaitsAreKnown, NobodyWaitsForNothing, NoWaitIsForgotten

\* Notified leaves no receiver asleep.
LEMMA NotifiedFacts ==
  ASSUME WaitTypes
  PROVE  /\ Notified \in [Receivers -> {"new", "waiting", "awake", "Ok", "Cancelled", "Timeout",
                                        "Closed", "WouldBlock"}]
         /\ \A r \in Receivers : Notified[r] # "waiting"
BY DEF WaitTypes, Notified

\* What Carry adds is in the caller's hands, and nothing else is.
LEMMA CarryFacts ==
  ASSUME NEW x, NEW c
  PROVE  /\ x # None => \E f \in Carry(x, c) : f[1] = x
         /\ \A f \in Carry(x, c) : x # None /\ f[1] = x
<1>1. <<x, c>>[1] = x
  OBVIOUS
<1>2. CASE x = None
  BY <1>2 DEF Carry
<1>3. CASE x # None
  <2>1. Carry(x, c) = {<<x, c>>}
    BY <1>3 DEF Carry
  <2>2. \A f \in Carry(x, c) : f = <<x, c>>
    BY <2>1
  <2> QED BY <1>1, <1>3, <2>1, <2>2
<1> QED BY <1>2, <1>3

\* A message answers the reader and leaves a writer without room where it was.
LEMMA SendKeepsWaits ==
  ASSUME WaitInv, NEW m \in Messages, TrySend(m)
  PROVE  WaitInv'
<1> USE DEF WaitInv
<1>1. CASE SendCode(m) = "Ok"
  <2>1. /\ queue' = Append(queue, m) /\ bytes' = bytes + Bytes[m] /\ receiver' = Notified
        /\ firing' = firing \cup Carry(read, "Ok") /\ read' = None
        /\ UNCHANGED <<alive, closed, write, writeBytes, wait>> /\ ~closed /\ alive
    BY <1>1 DEF TrySend, Send, SendCode
  <2>2. Bytes[m] \in Nat /\ MaxRetainedBytes \in Nat /\ MaxMessages \in Nat /\ None \notin Waits
    BY BoundedChannelAssumption
  <2>3. WaitTypes'
    BY SMTT(30), <2>1, <2>2, NotifiedFacts DEF WaitTypes, Carry
  <2>4. WaitsAreKnown'
    BY SMTT(30), <2>1, <2>2 DEF WaitTypes, WaitsAreKnown, Carry, IsPending
  <2>5. \A a \in Int : ~CanSend(queue, bytes, a) => ~CanSend(queue', bytes', a)
    BY SMTT(30), <2>1, <2>2 DEF WaitTypes, CanSend
  <2>6. ASSUME IsPending(write)
        PROVE  WaitBytes[write] \in Int
    BY SMTT(30), <2>6, BoundedChannelAssumption DEF WaitTypes, IsPending
  <2>7. NobodyWaitsForNothing'
    BY <2>1, <2>5, <2>6, NotifiedFacts DEF NobodyWaitsForNothing, IsPending
  <2>8. NoWaitIsForgotten'
    BY <2>1, <2>2, CarryFacts DEF NoWaitIsForgotten
  <2> QED BY <2>3, <2>4, <2>7, <2>8
<1>2. CASE SendCode(m) # "Ok"
  BY <1>2 DEF TrySend, WaitTypes, WaitsAreKnown, NobodyWaitsForNothing, NoWaitIsForgotten, IsPending,
              CanSend, Available
<1> QED BY <1>1, <1>2

\* A receive takes the writer out exactly when the room it asked for is there.
LEMMA ReceiveKeepsWaits ==
  ASSUME WaitInv, NEW r \in Receivers, Receive(r)
  PROVE  WaitInv'
<1> USE DEF WaitInv
<1>0. /\ None \notin Waits /\ \A m \in Messages : Bytes[m] \in Nat
      /\ UNCHANGED <<alive, closed, read, writeBytes, wait>> /\ alive
  BY BoundedChannelAssumption DEF Receive
<1>1. CASE queue # <<>> /\ Pop(r)
  <2> DEFINE q == Tail(queue)  b == bytes - Bytes[Head(queue)]
  <2>1. /\ queue' = q /\ bytes' = b /\ receiver' = [Notified EXCEPT ![r] = "Ok"]
        /\ \/ FreesRoom(q, b) /\ firing' = firing \cup Carry(write, "Ok") /\ write' = None
           \/ ~FreesRoom(q, b) /\ UNCHANGED <<firing, write>>
    BY <1>1 DEF Pop
  <2>2. Head(queue) \in Messages /\ q \in Seq(Messages)
    BY SMTT(30), <1>1 DEF WaitTypes
  <2>3. b \in Int
    BY SMTT(30), <1>0, <2>2 DEF WaitTypes
  <2>4. /\ receiver' \in [Receivers -> {"new", "waiting", "awake", "Ok", "Cancelled", "Timeout",
                                        "Closed", "WouldBlock"}]
        /\ \A x \in Receivers : receiver'[x] # "waiting"
    BY <2>1, NotifiedFacts
  <2> HIDE DEF q, b
  <2>5. WaitTypes'
    BY SMTT(30), <1>0, <2>1, <2>2, <2>3, <2>4, BoundedChannelAssumption DEF WaitTypes, Carry
  <2>6. WaitsAreKnown'
    BY SMTT(30), <1>0, <2>1 DEF WaitTypes, WaitsAreKnown, Carry, IsPending
  <2>7. ~IsPending(read)
    BY <1>1 DEF NobodyWaitsForNothing
  <2>8. NobodyWaitsForNothing'
    BY <1>0, <2>1, <2>4, <2>7 DEF NobodyWaitsForNothing, IsPending, FreesRoom, WaitsAreKnown
  <2>9. NoWaitIsForgotten'
    BY <1>0, <2>1, CarryFacts DEF NoWaitIsForgotten
  <2> QED BY <2>5, <2>6, <2>8, <2>9
<1>2. CASE UNCHANGED <<queue, bytes, firing, write>>
           /\ \E c \in {"Cancelled", "Closed", "WouldBlock"} : Answer(r, c)
  BY <1>0, <1>2 DEF Answer, WaitTypes, WaitsAreKnown, NobodyWaitsForNothing, NoWaitIsForgotten, IsPending,
                    CanSend, Available
<1>3. CASE UNCHANGED <<queue, bytes, firing, write>> /\ ~Available /\ Answer(r, "waiting")
  BY <1>0, <1>3 DEF Answer, WaitTypes, WaitsAreKnown, NobodyWaitsForNothing, NoWaitIsForgotten, IsPending,
                    CanSend, Available
<1> QED BY <1>1, <1>2, <1>3 DEF Receive, Conclude, EmptyCode

\* A subscription stays in the channel only when there is nothing for it.
LEMMA SubscribeKeepsWaits ==
  ASSUME WaitInv, NEW s \in Waits, Subscribe(s)
  PROVE  WaitInv'
<1> USE DEF WaitInv
<1>0. /\ None \notin Waits /\ Writing \subseteq Waits /\ WaitBytes[s] \in Int /\ alive /\ wait[s] = "new"
      /\ UNCHANGED <<alive, queue, bytes, closed, receiver>>
  BY SMTT(30), BoundedChannelAssumption DEF Subscribe, callVars
<1>1. CASE Occupied(s)
  <2>1. wait' = [wait EXCEPT ![s] = "refused"] /\ UNCHANGED <<read, write, writeBytes, firing>>
    BY <1>1 DEF Subscribe
  <2> QED BY <1>0, <2>1 DEF WaitTypes, WaitsAreKnown, NobodyWaitsForNothing, NoWaitIsForgotten, IsPending,
                            CanSend, Available
<1>2. CASE ~Occupied(s)
  <2>1. /\ wait' = [wait EXCEPT ![s] = "pending"]
        /\ writeBytes' = IF s \in Writing THEN WaitBytes[s] ELSE writeBytes
        /\ \/ /\ SubscribeCode(s) = "WouldBlock" /\ UNCHANGED firing
              /\ write' = IF s \in Writing THEN s ELSE write
              /\ read' = IF s \in Writing THEN read ELSE s
           \/ /\ SubscribeCode(s) \in {"Ok", "Closed"}
              /\ firing' = firing \cup {<<s, SubscribeCode(s)>>} /\ UNCHANGED <<read, write>>
    BY <1>2 DEF Subscribe, SubscribeCode
  <2>2. WaitTypes'
    BY SMTT(30), <1>0, <2>1 DEF WaitTypes
  <2>3. s \notin {read, write} /\ ~IsPending(Direction(s))
    BY <1>0, <1>2 DEF WaitsAreKnown, Occupied
  <2>4. WaitsAreKnown'
    BY SMTT(30), <1>0, <2>1, <2>3 DEF WaitTypes, WaitsAreKnown, IsPending, Direction
  <2>5. NobodyWaitsForNothing'
    BY <1>0, <2>1, <2>3 DEF WaitTypes, NobodyWaitsForNothing, IsPending, SubscribeCode, CanSend, Available
  <2>6. NoWaitIsForgotten'
    <3>1. /\ \A x \in Waits : x # s => (wait'[x] = "pending" <=> wait[x] = "pending")
          /\ \A f \in firing : f \in firing'
      BY <1>0, <2>1 DEF WaitTypes
    <3>2. s \in {read', write'} \/ \E f \in firing' : f[1] = s
      <4>1. CASE s \in {read', write'}
        BY <4>1
      <4>2. CASE firing' = firing \cup {<<s, SubscribeCode(s)>>}
        <5>1. <<s, SubscribeCode(s)>> \in firing' /\ <<s, SubscribeCode(s)>>[1] = s
          BY <4>2
        <5> QED BY <5>1
      <4> QED BY <2>1, <4>1, <4>2
    <3>3. \A x \in Waits : x # s /\ wait[x] = "pending" /\ x \in {read, write} => x \in {read', write'}
      BY <1>0, <2>1, <2>3 DEF WaitTypes, IsPending, Direction
    <3> QED BY <1>0, <3>1, <3>2, <3>3 DEF NoWaitIsForgotten
  <2> QED BY <2>2, <2>4, <2>5, <2>6
<1> QED BY <1>1, <1>2

\* Every other step too keeps each wait in the channel or in a caller's hands.
LEMMA WaitsKept ==
  ASSUME WaitInv, [Next]_vars
  PROVE  WaitInv'
<1> USE DEF WaitInv
<1>0. None \notin Waits /\ Writing \subseteq Waits
  BY BoundedChannelAssumption
<1>1. ASSUME NEW r \in Receivers, Timeout(r) \/ StopRequested(r)
      PROVE  WaitInv'
  BY SMTT(30), <1>1 DEF Timeout, StopRequested, Answer, WaitTypes, WaitsAreKnown, NobodyWaitsForNothing,
              NoWaitIsForgotten, IsPending, CanSend, Available
<1>2. ASSUME NEW s \in Waits, CancelWait(s)
      PROVE  WaitInv'
  BY <1>0, <1>2 DEF CancelWait, callVars, WaitTypes, WaitsAreKnown, NobodyWaitsForNothing,
                    NoWaitIsForgotten, IsPending, CanSend, Available
<1>3. ASSUME NEW f \in firing, Fire(f)
      PROVE  WaitInv'
  <2>1. f[1] \in Waits /\ f[2] \in {"Ok", "Closed"}
    BY DEF WaitTypes
  <2>2. /\ wait' = [wait EXCEPT ![f[1]] = IF wait[f[1]] = "pending" THEN f[2] ELSE wait[f[1]]]
        /\ firing' = firing \ {f}
        /\ UNCHANGED <<alive, queue, bytes, closed, read, write, writeBytes, receiver>>
    BY <1>3 DEF Fire, callVars
  <2>3. /\ \A s \in Waits : wait'[s] = "pending" => wait[s] = "pending" /\ s # f[1]
        /\ \A s \in Waits : wait[s] # "new" => wait'[s] # "new"
    BY <2>1, <2>2 DEF WaitTypes
  <2>4. WaitTypes'
    BY <2>1, <2>2 DEF WaitTypes
  <2>5. WaitsAreKnown' /\ NobodyWaitsForNothing'
    BY <1>0, <2>2, <2>3 DEF WaitTypes, WaitsAreKnown, NobodyWaitsForNothing, IsPending, CanSend, Available
  <2>6. NoWaitIsForgotten'
    BY <2>2, <2>3 DEF NoWaitIsForgotten
  <2> QED BY <2>4, <2>5, <2>6
<1>4. CASE Close
  <2>1. /\ closed' = TRUE /\ read' = None /\ write' = None /\ receiver' = Notified
        /\ firing' = firing \cup Carry(read, IF queue = <<>> THEN "Closed" ELSE "Ok") \cup Carry(write, "Closed")
        /\ UNCHANGED <<alive, queue, bytes, writeBytes, wait>> /\ alive
    BY <1>4 DEF Close
  <2>2. WaitTypes'
    BY SMTT(30), <1>0, <2>1, NotifiedFacts DEF WaitTypes, Carry
  <2>3. WaitsAreKnown' /\ NoWaitIsForgotten'
    BY SMTT(30), <1>0, <2>1, CarryFacts DEF WaitsAreKnown, NoWaitIsForgotten, IsPending
  <2>4. NobodyWaitsForNothing'
    BY <2>1, NotifiedFacts DEF NobodyWaitsForNothing, IsPending
  <2> QED BY <2>2, <2>3, <2>4
<1>5. CASE Destroy
  <2>1. /\ read' = None /\ write' = None /\ firing = {}
        /\ firing' = Carry(read, "Closed") \cup Carry(write, "Closed")
        /\ UNCHANGED <<queue, bytes, closed, writeBytes, wait, receiver>> /\ alive
        /\ \A r \in Receivers : receiver[r] # "waiting"
    BY <1>5 DEF Destroy, callVars
  <2>2. WaitTypes'
    BY SMTT(30), <1>0, <2>1 DEF WaitTypes, Carry
  <2>3. WaitsAreKnown' /\ NoWaitIsForgotten'
    BY SMTT(30), <1>0, <2>1, CarryFacts DEF WaitsAreKnown, NoWaitIsForgotten, IsPending
  <2>4. NobodyWaitsForNothing'
    BY <2>1 DEF NobodyWaitsForNothing, IsPending
  <2> QED BY <2>2, <2>3, <2>4
<1>6. CASE UNCHANGED vars
  BY <1>6 DEF vars, callVars, WaitTypes, WaitsAreKnown, NobodyWaitsForNothing, NoWaitIsForgotten, IsPending,
              CanSend, Available
<1> QED BY <1>1, <1>2, <1>3, <1>4, <1>5, <1>6, SendKeepsWaits, ReceiveKeepsWaits, SubscribeKeepsWaits DEF Next

-----------------------------------------------------------------------------
(* Nothing is lost, and the limits hold.                                   *)

\* Every accepted value is in one of the two sequences, at one place.
Contents ==
  /\ \A i, k \in 1 .. Len(queue) : queue[i] = queue[k] => i = k
  /\ \A i, k \in 1 .. Len(received) : received[i] = received[k] => i = k
  /\ \A i \in 1 .. Len(received), k \in 1 .. Len(queue) : received[i] # queue[k]
  /\ \A m \in Messages : msg[m] = "Ok" => \/ \E i \in 1 .. Len(queue) : queue[i] = m
                                          \/ \E i \in 1 .. Len(received) : received[i] = m

\* The bytes are those of the queue, within the limits.
BytesAreCounted ==
  /\ bytes = SumFunctionOnSet(Bytes, Range(queue)) /\ bytes <= MaxRetainedBytes
  /\ Len(queue) <= MaxMessages

Successful == {r \in Receivers : receiver[r] = "Ok"}

\* Each value handed out went to one receiver, none to a stopped one.
ReceiversAreServed ==
  /\ IsFiniteSet(Successful) /\ Len(received) = Cardinality(Successful)
  /\ \A r \in stopped : receiver[r] # "Ok"
  /\ stopped \subseteq Receivers /\ writeBytes \in 0 .. MaxRetainedBytes

\* The inductive invariant of ChannelIsExact.
ChannelInv == ValueInv /\ Contents /\ BytesAreCounted /\ WaitInv /\ ReceiversAreServed

\* The values of a queue are finitely many, of natural sizes.
LEMMA QueueIsFinite ==
  ASSUME NEW q \in Seq(Messages)
  PROVE  IsFiniteSet(Range(q)) /\ Range(q) \subseteq Messages /\ \A m \in Range(q) : Bytes[m] \in Nat
<1>1. Len(q) \in Nat /\ DOMAIN q = 1 .. Len(q) /\ q \in [1 .. Len(q) -> Messages]
  BY SMTT(30)
<1>2. q \in Surjection(1 .. Len(q), Range(q))
  BY <1>1 DEF Surjection, Range
<1>3. IsFiniteSet(1 .. Len(q))
  BY SMTT(30), <1>1, FS_Interval
<1>4. IsFiniteSet(Range(q))
  BY <1>2, <1>3, FS_Surjection
<1>5. Range(q) \subseteq Messages
  BY <1>1 DEF Range
<1> QED BY <1>4, <1>5, BoundedChannelAssumption

\* A new value at the end of the queue adds its bytes; the first, taken out of
\* a queue without repetitions, takes its own away.
LEMMA QueueBytes ==
  ASSUME NEW q \in Seq(Messages), \A i, k \in 1 .. Len(q) : q[i] = q[k] => i = k
  PROVE  /\ SumFunctionOnSet(Bytes, Range(q)) \in Nat
         /\ \A m \in Messages : m \notin Range(q) =>
              SumFunctionOnSet(Bytes, Range(Append(q, m))) = SumFunctionOnSet(Bytes, Range(q)) + Bytes[m]
         /\ q # <<>> =>
              SumFunctionOnSet(Bytes, Range(Tail(q))) = SumFunctionOnSet(Bytes, Range(q)) - Bytes[Head(q)]
<1>1. SumFunctionOnSet(Bytes, Range(q)) \in Nat
  BY QueueIsFinite, SumIsNatural
<1>2. ASSUME NEW m \in Messages, m \notin Range(q)
      PROVE  SumFunctionOnSet(Bytes, Range(Append(q, m))) = SumFunctionOnSet(Bytes, Range(q)) + Bytes[m]
  <2>1. Range(Append(q, m)) = Range(q) \cup {m}
    <3>1. DOMAIN Append(q, m) = 1 .. Len(q) + 1 /\ DOMAIN q = 1 .. Len(q) /\ Len(q) \in Nat
      BY SMTT(30)
    <3>2. /\ \A i \in 1 .. Len(q) : Append(q, m)[i] = q[i]
          /\ Append(q, m)[Len(q) + 1] = m
      BY SMTT(30)
    <3>3. \A i \in 1 .. Len(q) + 1 : i \in 1 .. Len(q) \/ i = Len(q) + 1
      BY SMTT(30), <3>1
    <3>4. Len(q) + 1 \in 1 .. Len(q) + 1 /\ \A i \in 1 .. Len(q) : i \in 1 .. Len(q) + 1
      BY SMTT(30), <3>1
    <3>5. \A x \in Range(Append(q, m)) : x \in Range(q) \/ x = m
      BY SMTT(30), <3>1, <3>2, <3>3 DEF Range
    <3>6. \A x \in Range(q) : x \in Range(Append(q, m))
      BY SMTT(30), <3>1, <3>2, <3>4 DEF Range
    <3>7. m \in Range(Append(q, m))
      BY <3>1, <3>2, <3>4 DEF Range
    <3> QED BY <3>5, <3>6, <3>7
  <2>2. \A y \in Range(q) \cup {m} : Bytes[y] \in Int
    BY SMTT(30), QueueIsFinite, BoundedChannelAssumption
  <2> QED BY <1>2, <2>1, <2>2, QueueIsFinite, SumAdds
<1>3. ASSUME q # <<>>
      PROVE  SumFunctionOnSet(Bytes, Range(Tail(q))) = SumFunctionOnSet(Bytes, Range(q)) - Bytes[Head(q)]
  <2>1. /\ Len(q) \in Nat \ {0} /\ Head(q) = q[1] /\ Tail(q) \in Seq(Messages) /\ Len(Tail(q)) = Len(q) - 1
        /\ \A i \in 1 .. Len(q) - 1 : Tail(q)[i] = q[i + 1]
    BY SMTT(30), <1>3
  <2>2. DOMAIN q = 1 .. Len(q) /\ DOMAIN Tail(q) = 1 .. Len(q) - 1
    BY SMTT(30), <2>1
  <2>3. \A i \in 2 .. Len(q) : q[i] # q[1]
    BY SMTT(30), <2>1
  <2>4. ASSUME NEW m \in Range(q) \ {q[1]}
        PROVE  m \in Range(Tail(q))
    <3>1. PICK i \in 1 .. Len(q) : m = q[i]
      BY <2>2 DEF Range
    <3>2. i # 1
      BY <3>1
    <3>3. i - 1 \in 1 .. Len(q) - 1 /\ (i - 1) + 1 = i
      BY SMTT(30), <2>1, <3>2
    <3>4. Tail(q)[i - 1] = m
      BY <2>1, <3>1, <3>3
    <3> QED BY <2>2, <3>3, <3>4 DEF Range
  <2>5. ASSUME NEW m \in Range(Tail(q))
        PROVE  m \in Range(q) \ {q[1]}
    <3>1. PICK i \in 1 .. Len(q) - 1 : m = q[i + 1]
      BY SMTT(30), <2>1, <2>2 DEF Range
    <3>2. i + 1 \in 2 .. Len(q) /\ i + 1 \in 1 .. Len(q)
      BY SMTT(30), <2>1
    <3> QED BY <2>2, <2>3, <3>1, <3>2 DEF Range
  <2>6. Range(Tail(q)) = Range(q) \ {q[1]} /\ q[1] \in Range(q)
    BY SMTT(30), <2>1, <2>2, <2>4, <2>5 DEF Range
  <2>7. \A y \in Range(q) : Bytes[y] \in Int
    BY SMTT(30), QueueIsFinite
  <2>8. SumFunctionOnSet(Bytes, Range(q)) = Bytes[q[1]] + SumFunctionOnSet(Bytes, Range(q) \ {q[1]})
    BY SMTT(30), <2>6, <2>7, QueueIsFinite, SumRemoves
  <2>9. SumFunctionOnSet(Bytes, Range(Tail(q))) \in Nat
    BY <2>1, QueueIsFinite, SumIsNatural
  <2>10. Bytes[q[1]] \in Int
    BY <2>6, <2>7
  <2>11. \A all, rest, first \in Int : all = first + rest => rest = all - first
    BY SMTT(30)
  <2>12. SumFunctionOnSet(Bytes, Range(q)) = Bytes[q[1]] + SumFunctionOnSet(Bytes, Range(Tail(q)))
    BY <2>6, <2>8
  <2>13. SumFunctionOnSet(Bytes, Range(q)) \in Int /\ SumFunctionOnSet(Bytes, Range(Tail(q))) \in Int
    BY SMTT(30), <2>9, <1>1
  <2>14. Head(q) = q[1]
    BY <2>1
  <2> QED BY <2>10, <2>11, <2>12, <2>13, <2>14
<1> QED BY <1>1, <1>2, <1>3

\* The four ways to change the values keep each of them at one place, and the
\* bytes those of the queue (TrySend, ReceiveImpl).
LEMMA ContentsKept ==
  ASSUME ValueInv, Contents, BytesAreCounted, [Next]_vars
  PROVE  Contents' /\ BytesAreCounted'
<1> USE DEF ValueInv, ValueTypes
<1>1. CASE UNCHANGED valueVars
  BY <1>1 DEF valueVars, Contents, BytesAreCounted
<1>2. ASSUME NEW m \in Messages, Accept(m)
      PROVE  Contents' /\ BytesAreCounted'
  <2>1. /\ \A i \in 1 .. Len(queue) : queue[i] # m
        /\ \A i \in 1 .. Len(received) : received[i] # m
    BY <1>2 DEF Accept, Accepted
  <2>2. /\ Len(queue) \in Nat /\ queue' \in Seq(Messages) /\ Len(queue') = Len(queue) + 1
        /\ queue'[Len(queue) + 1] = m
        /\ \A i \in 1 .. Len(queue) : queue'[i] = queue[i]
    BY SMTT(30), <1>2 DEF Accept
  <2>3. UNCHANGED received /\ \A x \in Messages : msg'[x] = "Ok" <=> msg[x] = "Ok" \/ x = m
    BY <1>2 DEF Accept
  <2>4. \A i \in 1 .. Len(queue') : i \in 1 .. Len(queue) \/ i = Len(queue) + 1
    BY SMTT(30), <2>2
  <2>5. \A i, k \in 1 .. Len(queue') : queue'[i] = queue'[k] => i = k
    BY SMTT(30), <2>1, <2>2, <2>4 DEF Contents
  <2>6. \A i \in 1 .. Len(received), k \in 1 .. Len(queue') : received[i] # queue'[k]
    BY SMTT(30), <2>1, <2>2, <2>4 DEF Contents
  <2>7. \A x \in Messages : (\E i \in 1 .. Len(queue) : queue[i] = x) \/ x = m
                              => \E i \in 1 .. Len(queue') : queue'[i] = x
    BY SMTT(30), <2>2
  <2>8. Contents'
    BY <2>3, <2>5, <2>6, <2>7 DEF Contents
  <2>9. BytesAreCounted'
    <3>1. m \notin Range(queue)
      BY SMTT(30), <2>1 DEF Range
    <3>2. SumFunctionOnSet(Bytes, Range(Append(queue, m))) = SumFunctionOnSet(Bytes, Range(queue)) + Bytes[m]
      BY <3>1, QueueBytes DEF Contents
    <3>3. MaxRetainedBytes \in Nat /\ MaxMessages \in Nat /\ Bytes[m] \in Nat
      BY BoundedChannelAssumption
    <3>4. bytes' <= MaxRetainedBytes /\ Len(queue') <= MaxMessages
      BY SMTT(30), <1>2, <2>2, <3>3 DEF Accept, CanSend
    <3> QED BY <1>2, <3>2, <3>4 DEF Accept, BytesAreCounted
  <2> QED BY <2>8, <2>9
<1>3. ASSUME NEW m \in Messages, Refuse(m)
      PROVE  Contents' /\ BytesAreCounted'
  <2>1. \A x \in Messages : msg'[x] = "Ok" => msg[x] = "Ok"
    BY <1>3 DEF Refuse
  <2> QED BY <1>3, <2>1 DEF Refuse, Contents, BytesAreCounted
<1>4. CASE HandOut
  <2>1. /\ Len(queue) \in Nat \ {0} /\ Head(queue) = queue[1] /\ Len(queue') = Len(queue) - 1
        /\ \A i \in 1 .. Len(queue) - 1 : queue'[i] = queue[i + 1]
        /\ Head(queue) \in Messages
    BY SMTT(30), <1>4 DEF HandOut
  <2>2. /\ Len(received) \in Nat /\ Len(received') = Len(received) + 1
        /\ received'[Len(received) + 1] = queue[1]
        /\ \A i \in 1 .. Len(received) : received'[i] = received[i]
    BY SMTT(30), <1>4, <2>1 DEF HandOut
  <2>3. /\ \A i \in 1 .. Len(queue') : i + 1 \in 2 .. Len(queue) /\ i + 1 \in 1 .. Len(queue)
        /\ \A i \in 1 .. Len(received') : i \in 1 .. Len(received) \/ i = Len(received) + 1
        /\ 1 \in 1 .. Len(queue)
    BY SMTT(30), <2>1, <2>2
  <2>4. \A i, k \in 1 .. Len(queue') : queue'[i] = queue'[k] => i = k
    BY SMTT(30), <2>1, <2>3 DEF Contents
  <2>5. \A i, k \in 1 .. Len(received') : received'[i] = received'[k] => i = k
    BY SMTT(30), <2>2, <2>3 DEF Contents
  <2>6. \A i \in 1 .. Len(received'), k \in 1 .. Len(queue') : received'[i] # queue'[k]
    BY SMTT(30), <2>1, <2>2, <2>3 DEF Contents
  <2>7. ASSUME NEW x \in Messages, msg[x] = "Ok"
        PROVE  (\E i \in 1 .. Len(queue') : queue'[i] = x) \/ (\E i \in 1 .. Len(received') : received'[i] = x)
    <3>1. CASE \E i \in 1 .. Len(received) : received[i] = x
      BY SMTT(30), <2>2, <3>1
    <3>2. CASE x = queue[1]
      BY SMTT(30), <2>2, <3>2
    <3>3. CASE \E i \in 2 .. Len(queue) : queue[i] = x
      <4>1. PICK i \in 2 .. Len(queue) : queue[i] = x
        BY <3>3
      <4>2. i - 1 \in 1 .. Len(queue') /\ queue'[i - 1] = x
        BY SMTT(30), <2>1, <4>1
      <4> QED BY <4>2
    <3> QED BY SMTT(30), <2>1, <2>7, <3>1, <3>2, <3>3 DEF Contents
  <2>8. Contents'
    BY <1>4, <2>4, <2>5, <2>6, <2>7 DEF Contents, HandOut
  <2>9. BytesAreCounted'
    <3>1. SumFunctionOnSet(Bytes, Range(Tail(queue))) = SumFunctionOnSet(Bytes, Range(queue)) - Bytes[Head(queue)]
      BY <1>4, QueueBytes DEF Contents, HandOut
    <3>2. MaxRetainedBytes \in Nat /\ MaxMessages \in Nat /\ Bytes[Head(queue)] \in Nat
      BY <2>1, BoundedChannelAssumption
    <3>3. bytes' <= MaxRetainedBytes /\ Len(queue') <= MaxMessages
      BY SMTT(30), <1>4, <2>1, <3>2 DEF HandOut, BytesAreCounted
    <3> QED BY <1>4, <3>1, <3>3 DEF HandOut, BytesAreCounted
  <2> QED BY <2>8, <2>9
<1>5. CASE Shuts
  BY <1>5 DEF Shuts, Contents, BytesAreCounted
<1>6. CASE UNCHANGED vars
  BY <1>6 DEF vars, callVars, Contents, BytesAreCounted
<1> QED BY <1>1, <1>2, <1>3, <1>4, <1>5, <1>6, StepOnValues

\* A step hands a value to one receiver that is not stopped, or none is handed
\* out (Pop; every other step leaves those that are served as they are).
LEMMA StepOnReceivers ==
  ASSUME WaitTypes, [Next]_vars
  PROVE  \/ \E r \in Receivers : r \notin stopped /\ receiver[r] # "Ok" /\ UNCHANGED <<stopped, writeBytes>>
                                 /\ received' = Append(received, Head(queue)) /\ queue # <<>>
                                 /\ receiver' = [Notified EXCEPT ![r] = "Ok"]
         \/ /\ UNCHANGED received /\ \A r \in Receivers : receiver'[r] = "Ok" <=> receiver[r] = "Ok"
            /\ stopped' \subseteq stopped \cup {r \in Receivers : receiver[r] # "Ok"}
            /\ writeBytes' \in {writeBytes} \cup {WaitBytes[s] : s \in Waits}
<1>1. \A r \in Receivers : Notified[r] = "Ok" <=> receiver[r] = "Ok"
  BY DEF WaitTypes, Notified
<1>2. ASSUME NEW m \in Messages, TrySend(m)
      PROVE  UNCHANGED <<received, stopped, writeBytes>> /\ receiver' \in {receiver, Notified}
  BY <1>2 DEF TrySend, Send
<1>3. ASSUME NEW r \in Receivers, Receive(r), ~(r \notin stopped /\ queue # <<>> /\ Pop(r))
      PROVE  /\ UNCHANGED <<received, stopped, writeBytes>>
             /\ \A x \in Receivers : receiver'[x] = "Ok" <=> receiver[x] = "Ok"
  BY <1>3 DEF Receive, Conclude, Answer, EmptyCode, WaitTypes
<1>4. ASSUME NEW r \in Receivers, Receive(r), r \notin stopped, queue # <<>>, Pop(r)
      PROVE  /\ receiver[r] # "Ok" /\ UNCHANGED <<stopped, writeBytes>>
             /\ received' = Append(received, Head(queue)) /\ receiver' = [Notified EXCEPT ![r] = "Ok"]
  BY <1>4 DEF Receive, Pop
<1>5. ASSUME NEW r \in Receivers, Timeout(r)
      PROVE  /\ UNCHANGED <<received, stopped, writeBytes>>
             /\ \A x \in Receivers : receiver'[x] = "Ok" <=> receiver[x] = "Ok"
  BY <1>5 DEF Timeout, Answer, WaitTypes
<1>6. ASSUME NEW r \in Receivers, StopRequested(r)
      PROVE  /\ UNCHANGED <<received, writeBytes>> /\ stopped' = stopped \cup {r} /\ receiver[r] # "Ok"
             /\ \A x \in Receivers : receiver'[x] = "Ok" <=> receiver[x] = "Ok"
  BY <1>6 DEF StopRequested, WaitTypes
<1>7. ASSUME NEW s \in Waits, Subscribe(s)
      PROVE  UNCHANGED <<received, stopped, receiver>> /\ writeBytes' \in {writeBytes, WaitBytes[s]}
  BY <1>7 DEF Subscribe, callVars
<1>8. CASE (\E s \in Waits : CancelWait(s)) \/ (\E f \in firing : Fire(f)) \/ Destroy \/ UNCHANGED vars
  BY <1>8 DEF CancelWait, Fire, Destroy, callVars, vars
<1>9. CASE Close
  BY <1>1, <1>9 DEF Close
<1>10. CASE \E m \in Messages : TrySend(m)
  BY <1>1, <1>2, <1>10
<1>11. CASE \E r \in Receivers : Receive(r)
  BY <1>3, <1>4, <1>11
<1>12. CASE \E r \in Receivers : Timeout(r) \/ StopRequested(r)
  BY <1>5, <1>6, <1>12
<1>13. CASE \E s \in Waits : Subscribe(s)
  BY <1>7, <1>13
<1> QED BY <1>8, <1>9, <1>10, <1>11, <1>12, <1>13 DEF Next

\* Receivers stay served one value each.
LEMMA ReceiversKept ==
  ASSUME ValueInv, WaitTypes, ReceiversAreServed, [Next]_vars
  PROVE  ReceiversAreServed'
<1>1. ASSUME NEW r \in Receivers, r \notin stopped, receiver[r] # "Ok", UNCHANGED <<stopped, writeBytes>>,
             received' = Append(received, Head(queue)), queue # <<>>,
             receiver' = [Notified EXCEPT ![r] = "Ok"]
      PROVE  ReceiversAreServed'
  <2>1. \A x \in Receivers : receiver'[x] = "Ok" <=> receiver[x] = "Ok" \/ x = r
    BY <1>1 DEF WaitTypes, Notified
  <2>2. Successful' = Successful \cup {r} /\ r \notin Successful
    BY <1>1, <2>1 DEF Successful
  <2>3. IsFiniteSet(Successful') /\ Cardinality(Successful') = Cardinality(Successful) + 1
    BY <2>2, FS_AddElement DEF ReceiversAreServed
  <2>4. Head(queue) \in Messages
    BY SMTT(30), <1>1 DEF ValueInv, ValueTypes
  <2>5. Len(received') = Len(received) + 1
    BY SMTT(30), <1>1, <2>4 DEF ValueInv, ValueTypes
  <2> QED BY <1>1, <2>1, <2>3, <2>5 DEF ReceiversAreServed
<1>2. ASSUME UNCHANGED received, \A r \in Receivers : receiver'[r] = "Ok" <=> receiver[r] = "Ok",
             stopped' \subseteq stopped \cup {r \in Receivers : receiver[r] # "Ok"},
             writeBytes' \in {writeBytes} \cup {WaitBytes[s] : s \in Waits}
      PROVE  ReceiversAreServed'
  <2>1. Successful' = Successful
    BY <1>2 DEF Successful
  <2>2. writeBytes' \in 0 .. MaxRetainedBytes
    BY <1>2, BoundedChannelAssumption DEF ReceiversAreServed
  <2> QED BY <1>2, <2>1, <2>2 DEF ReceiversAreServed
<1> QED BY <1>1, <1>2, StepOnReceivers

\* The inductive invariant holds of an empty channel.
LEMMA InitChannel ==
  ASSUME Init
  PROVE  ChannelInv
<1>1. Range(<<>>) = {} /\ SumFunctionOnSet(Bytes, {}) = 0
  BY SMTT(30), SumOfNone DEF Range
<1>2. BytesAreCounted
  <2>1. queue = <<>> /\ bytes = 0
    BY DEF Init
  <2>2. Len(queue) = 0 /\ bytes = SumFunctionOnSet(Bytes, Range(queue))
    BY <1>1, <2>1
  <2>3. 0 <= MaxRetainedBytes /\ 0 <= MaxMessages
    BY SMTT(30), BoundedChannelAssumption
  <2> QED BY <2>1, <2>2, <2>3 DEF BytesAreCounted
<1>3. Successful = {}
  BY DEF Init, Successful
<1>4. ReceiversAreServed
  BY SMTT(30), <1>3, FS_EmptySet, BoundedChannelAssumption DEF Init, ReceiversAreServed
<1>5. Contents
  BY SMTT(30) DEF Init, Contents
<1> QED BY <1>2, <1>4, <1>5, InitValues, InitWaits DEF ChannelInv

\* The sequences of Contents are what NothingLost says of them together.
LEMMA ContentsTogether ==
  ASSUME ValueInv, Contents
  PROVE  LET all == received \o queue
         IN Range(all) = {m \in Messages : msg[m] = "Ok"} /\ Len(all) = Cardinality(Range(all))
<1> USE DEF ValueInv, ValueTypes
<1> DEFINE all == received \o queue
           a == Len(received)
           b == Len(queue)
<1>1. /\ all \in Seq(Messages) /\ Len(all) = a + b /\ a \in Nat /\ b \in Nat
      /\ \A i \in 1 .. a : all[i] = received[i]
      /\ \A i \in 1 .. b : all[a + i] = queue[i]
  BY SMTT(30)
<1> HIDE DEF all
<1>2. DOMAIN all = 1 .. a + b /\ all \in [1 .. a + b -> Messages]
  <2>1. all \in [1 .. Len(all) -> Messages]
    BY SMTT(30), <1>1
  <2> QED BY <1>1, <2>1
<1>3. \A i \in 1 .. a + b : i \in 1 .. a \/ (i - a \in 1 .. b /\ i = a + (i - a))
  BY SMTT(30), <1>1
<1>4. /\ \A i \in 1 .. a : i \in 1 .. a + b
      /\ \A i \in 1 .. b : a + i \in 1 .. a + b
  BY SMTT(30), <1>1
<1>5. \A i \in 1 .. a + b : all[i] = IF i \in 1 .. a THEN received[i] ELSE queue[i - a]
  BY <1>1, <1>3
<1>6. ASSUME NEW i \in 1 .. a + b, NEW k \in 1 .. a + b, all[i] = all[k]
      PROVE  i = k
  <2>1. CASE i \in 1 .. a /\ k \in 1 .. a
    BY <1>1, <1>6, <2>1 DEF Contents
  <2>2. CASE i \notin 1 .. a /\ k \notin 1 .. a
    <3>1. i - a \in 1 .. b /\ k - a \in 1 .. b /\ queue[i - a] = queue[k - a]
      BY <1>3, <1>5, <1>6, <2>2
    <3>2. i - a = k - a
      BY <3>1 DEF Contents
    <3> QED BY SMTT(30), <1>1, <3>2
  <2>3. CASE i \in 1 .. a /\ k \notin 1 .. a
    <3>1. k - a \in 1 .. b /\ received[i] = queue[k - a]
      BY <1>3, <1>5, <1>6, <2>3
    <3> QED BY <2>3, <3>1 DEF Contents
  <2>4. CASE i \notin 1 .. a /\ k \in 1 .. a
    <3>1. i - a \in 1 .. b /\ received[k] = queue[i - a]
      BY <1>3, <1>5, <1>6, <2>4
    <3> QED BY <2>4, <3>1 DEF Contents
  <2> QED BY <2>1, <2>2, <2>3, <2>4
<1>7. \A i \in 1 .. a + b : msg[all[i]] = "Ok"
  BY <1>3, <1>5 DEF Accepted
<1>8. ASSUME NEW m \in Messages, msg[m] = "Ok"
      PROVE  \E i \in 1 .. a + b : all[i] = m
  <2>1. CASE \E i \in 1 .. b : queue[i] = m
    <3>1. PICK i \in 1 .. b : queue[i] = m
      BY <2>1
    <3>2. a + i \in 1 .. a + b /\ all[a + i] = m
      BY <1>1, <1>4, <3>1
    <3> QED BY <3>2
  <2>2. CASE \E i \in 1 .. a : received[i] = m
    BY <1>1, <1>4, <2>2
  <2> QED BY <1>8, <2>1, <2>2 DEF Contents
<1>9. Range(all) = {m \in Messages : msg[m] = "Ok"}
  BY <1>2, <1>7, <1>8 DEF Range
<1>10. all \in Bijection(1 .. a + b, Range(all))
  <2>1. all \in [1 .. a + b -> Range(all)] /\ \A m \in Range(all) : \E i \in 1 .. a + b : all[i] = m
    BY <1>2 DEF Range
  <2>2. all \in Surjection(1 .. a + b, Range(all))
    BY <2>1 DEF Surjection
  <2>3. all \in Injection(1 .. a + b, Range(all))
    BY <1>2, <1>6, <2>1 DEF Injection, IsInjective
  <2> QED BY <2>2, <2>3 DEF Bijection
<1>11. Cardinality(Range(all)) = a + b
  <2>1. a + b \in Nat
    BY SMTT(30), <1>1
  <2> QED BY <1>10, <2>1, FS_CountingElements DEF ExistsBijection
<1> QED BY <1>1, <1>9, <1>11 DEF all

\* For any messages, receivers, subscriptions and limits: no value is lost,
\* duplicated or handed to a call that was cancelled, the byte count is exact
\* and the limits hold, nobody waits for what is there, and no subscription is
\* forgotten (TrySend, ReceiveImpl, Subscribe, Close and ~State).
THEOREM ChannelKeepsItsPromises == Spec => []ChannelIsExact
<1>1. Init => ChannelInv
  BY InitChannel
<1>2. ChannelInv /\ [Next]_vars => ChannelInv'
  <2> SUFFICES ASSUME ChannelInv, [Next]_vars PROVE ChannelInv'
    OBVIOUS
  <2>1. ValueInv' /\ WaitInv'
    BY ValuesKept, WaitsKept DEF ChannelInv
  <2>2. Contents' /\ BytesAreCounted'
    BY ContentsKept DEF ChannelInv
  <2>3. ReceiversAreServed'
    BY ReceiversKept DEF ChannelInv, WaitInv
  <2> QED BY <2>1, <2>2, <2>3 DEF ChannelInv
<1>3. ChannelInv => ChannelIsExact
  <2> SUFFICES ASSUME ChannelInv PROVE ChannelIsExact
    OBVIOUS
  <2>1. bytes \in Nat
    BY QueueBytes DEF ChannelInv, BytesAreCounted, Contents, ValueInv, ValueTypes
  <2>2. TypeOK
    BY <2>1 DEF ChannelInv, ValueInv, ValueTypes, WaitInv, WaitTypes, ReceiversAreServed, Codes, TypeOK
  <2>3. NothingLost
    BY <2>2, ContentsTogether DEF ChannelInv, BytesAreCounted, ReceiversAreServed, Successful, NothingLost
  <2> QED BY <2>3 DEF ChannelInv, WaitInv, ChannelIsExact
<1> QED BY <1>1, <1>2, <1>3, PTL DEF Spec
=============================================================================
