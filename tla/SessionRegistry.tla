--------------------------- MODULE SessionRegistry --------------------------
(***************************************************************************)
(* Session::SessionRegistry: registries that share the process-wide        *)
(* counter of session numbers.  Issuers issue numbers concurrently; the    *)
(* runner's thread of a registry registers, looks up and visits; any       *)
(* thread unregisters.  Numbers run from 1 to MaxId and then are spent.    *)
(***************************************************************************)
EXTENDS Integers, FiniteSets, FiniteSetTheorems, TLAPS

CONSTANTS
  Issuers,       \* threads that issue numbers, each for one registry
  Registry,      \* the registry each thread issues for
  MaxId,         \* the largest uint64
  Faults,        \* allocations that fail
  None

ASSUME RegistryAssumption == MaxId \in Nat \ {0}

Registries == {Registry[t] : t \in Issuers}
Ids == 1..MaxId

VARIABLES
  nextId,        \* gNextSessionId; 0 when spent
  thread,        \* IssueId's "current" of each thread, or its last answer
  issued,        \* issuedIds of each registry
  sessions,      \* the sessions of each registry
  visit,         \* what is left of ForEach's snapshot in each registry, or None
  given,         \* how often each number was given out
  budget

vars == <<nextId, thread, issued, sessions, visit, given, budget>>

Init ==
  /\ nextId = 1 /\ thread = [t \in Issuers |-> [at |-> "idle", current |-> 0]]
  /\ issued = [r \in Registries |-> {}] /\ sessions = [r \in Registries |-> {}]
  /\ visit = [r \in Registries |-> None]
  /\ given = [i \in Ids |-> 0] /\ budget = 0

Fault == budget < Faults /\ budget' = budget + 1

\* The number after this one: none after the last.
MutantAfter(id) == IF id = MaxId THEN 1 ELSE id + 1
After(id) == IF id = MaxId THEN 0 ELSE id + 1

IssueIdLoads(t) ==
  /\ thread[t].at = "idle" /\ nextId # 0
  /\ thread' = [thread EXCEPT ![t] = [at |-> "exchange", current |-> nextId]]
  /\ UNCHANGED <<nextId, issued, sessions, visit, given, budget>>

\* compare_exchange: on failure "current" is what it found, and 0 ends the loop.
IssueIdExchanges(t) ==
  /\ thread[t].at = "exchange"
  /\ IF nextId = thread[t].current
     THEN /\ nextId' = After(nextId) /\ thread' = [thread EXCEPT ![t].at = "reserve"]
          /\ given' = [given EXCEPT ![nextId] = @ + 1]
     ELSE /\ thread' = [thread EXCEPT ![t] = IF nextId = 0 THEN [at |-> "idle", current |-> 0]
                                             ELSE [at |-> "exchange", current |-> nextId]]
          /\ UNCHANGED <<nextId, given>>
  /\ UNCHANGED <<issued, sessions, visit, budget>>

\* The number is spent even when it cannot be reserved.
IssueIdReserves(t) ==
  /\ thread[t].at = "reserve" /\ thread' = [thread EXCEPT ![t] = [at |-> "idle", current |-> 0]]
  /\ \/ issued' = [issued EXCEPT ![Registry[t]] = @ \cup {thread[t].current}] /\ UNCHANGED budget
     \/ Fault /\ UNCHANGED issued
  /\ UNCHANGED <<nextId, sessions, visit, given>>

DiscardIssuedId(r, i) ==
  /\ i \in issued[r] /\ issued' = [issued EXCEPT ![r] = @ \ {i}]
  /\ UNCHANGED <<nextId, thread, sessions, visit, given, budget>>

\* Under both locks the reservation becomes a registration, or stays.
Register(r, i) ==
  /\ i \in issued[r] /\ i \notin sessions[r]
  /\ \/ /\ sessions' = [sessions EXCEPT ![r] = @ \cup {i}]
        /\ issued' = [issued EXCEPT ![r] = @ \ {i}] /\ UNCHANGED budget
     \/ Fault /\ UNCHANGED <<sessions, issued>>
  /\ UNCHANGED <<nextId, thread, visit, given>>

Unregister(r, i) ==
  /\ i \in sessions[r] /\ sessions' = [sessions EXCEPT ![r] = @ \ {i}]
  /\ UNCHANGED <<nextId, thread, issued, visit, given, budget>>

\* ForEach copies the list under the lock, or visits nobody.
ForEach(r) ==
  /\ visit[r] = None
  /\ \/ visit' = [visit EXCEPT ![r] = sessions[r]] /\ UNCHANGED budget
     \/ Fault /\ UNCHANGED visit
  /\ UNCHANGED <<nextId, thread, issued, sessions, given>>

\* The visitor runs outside the lock, also on a session unregistered meanwhile.
Visits(r) ==
  /\ visit[r] # None
  /\ visit' = [visit EXCEPT ![r] = IF @ = {} THEN None ELSE @ \ {CHOOSE i \in @ : TRUE}]
  /\ UNCHANGED <<nextId, thread, issued, sessions, given, budget>>

Next ==
  \/ \E t \in Issuers : IssueIdLoads(t) \/ IssueIdExchanges(t) \/ IssueIdReserves(t)
  \/ \E r \in Registries :
       \/ ForEach(r) \/ Visits(r)
       \/ \E i \in Ids : DiscardIssuedId(r, i) \/ Register(r, i) \/ Unregister(r, i)

Spec == Init /\ [][Next]_vars

-----------------------------------------------------------------------------

TypeOK ==
  /\ nextId \in 0..MaxId /\ \A r \in Registries : issued[r] \subseteq Ids /\ sessions[r] \subseteq Ids
  /\ \A t \in Issuers : thread[t].at \in {"idle", "exchange", "reserve"}

\* RegistryIsExact.  No number is given out twice in the process, by any registry, also after the
\* last one; it is at most once reserved or registered anywhere, and nobody
\* ForEach still has to visit belongs to another registry.
RegistryIsExact ==
  /\ TypeOK
  /\ \A i \in Ids : given[i] <= 1
  /\ \A i \in Ids : Cardinality({r \in Registries : i \in issued[r]})
                      + Cardinality({r \in Registries : i \in sessions[r]}) <= given[i]
  /\ \A r, q \in Registries :
       r # q /\ visit[r] # None => visit[r] \cap (issued[q] \cup sessions[q]) = {}


-----------------------------------------------------------------------------
(* RegistryIsExact, for any number of threads, registries and numbers.     *)

\* What a registry has of its own: its reservations, its sessions, and those
\* ForEach still has to visit.
Visiting(r) == IF visit[r] = None THEN {} ELSE visit[r]
Held(r) == issued[r] \cup sessions[r] \cup Visiting(r)
Reserving(t) == thread[t].at = "reserve"

\* The types of the variables.
Types ==
  /\ nextId \in 0..MaxId /\ given \in [Ids -> Nat] /\ budget \in Nat
  /\ thread \in [Issuers -> [at : {"idle", "exchange", "reserve"}, current : 0..MaxId]]
  /\ issued \in [Registries -> SUBSET Ids] /\ sessions \in [Registries -> SUBSET Ids]
  /\ visit \in [Registries -> (SUBSET Ids) \cup {None}]
  /\ \A t \in Issuers : thread[t].at \in {"exchange", "reserve"} => thread[t].current \in Ids

\* The numbers below the counter were given out once, those from it on never.
CounterSplits == \A i \in Ids : given[i] = IF nextId # 0 /\ i >= nextId THEN 0 ELSE 1

\* A number that was given out belongs to one thread or one registry; whoever
\* has a number has one that was given out.
OneOwner ==
  /\ \A t \in Issuers : Reserving(t) => given[thread[t].current] = 1
  /\ \A r \in Registries : \A i \in Held(r) : given[i] = 1
  /\ \A t, u \in Issuers : Reserving(t) /\ Reserving(u) /\ thread[t].current = thread[u].current => t = u
  /\ \A t \in Issuers, r \in Registries : Reserving(t) => thread[t].current \notin Held(r)
  /\ \A r, q \in Registries : r # q => Held(r) \cap Held(q) = {}
  /\ \A r \in Registries : issued[r] \cap sessions[r] = {}

\* The inductive invariant of RegistryIsExact.
RegistryInvariant == Types /\ CounterSplits /\ OneOwner

LEMMA RegistryInit == ASSUME Init PROVE RegistryInvariant
<1> USE RegistryAssumption DEF Init
<1>1. Types
  <2>1. thread \in [Issuers -> [at : {"idle", "exchange", "reserve"}, current : 0..MaxId]]
    OBVIOUS
  <2>2. /\ nextId \in 0..MaxId /\ given \in [Ids -> Nat] /\ budget \in Nat
        /\ \A t \in Issuers : thread[t].at = "idle"
    BY DEF Ids
  <2>3. /\ issued \in [Registries -> SUBSET Ids] /\ sessions \in [Registries -> SUBSET Ids]
        /\ visit \in [Registries -> (SUBSET Ids) \cup {None}]
    OBVIOUS
  <2> QED
    BY <2>1, <2>2, <2>3 DEF Types
<1>2. CounterSplits
  BY DEF CounterSplits, Ids
<1>3. \A r \in Registries : Held(r) = {}
  BY DEF Held, Visiting
<1>4. OneOwner
  BY <1>3 DEF OneOwner, Reserving
<1> QED
  BY <1>1, <1>2, <1>4 DEF RegistryInvariant

\* A step that gives no number out, and leaves each thread and each registry what
\* it had or less, keeps the invariant.
LEMMA LosingKeeps ==
  ASSUME RegistryInvariant, UNCHANGED <<nextId, given>>, Types',
         \A t \in Issuers : Reserving(t)' => Reserving(t) /\ thread'[t].current = thread[t].current,
         \A r \in Registries : Held(r)' \subseteq Held(r) /\ (issued[r] \cap sessions[r])' = {}
  PROVE  RegistryInvariant'
<1>1. CounterSplits'
  BY DEF RegistryInvariant, CounterSplits
<1>2. OneOwner'
  BY DEF RegistryInvariant, OneOwner
<1> QED
  BY <1>1, <1>2 DEF RegistryInvariant

\* Every step keeps the invariant.
LEMMA RegistryStep == ASSUME RegistryInvariant, [Next]_vars PROVE RegistryInvariant'
<1> USE RegistryAssumption
<1>1. CASE UNCHANGED vars
  BY <1>1 DEF vars, RegistryInvariant, Types, CounterSplits, OneOwner, Held, Visiting, Reserving
<1>2. ASSUME NEW t \in Issuers, IssueIdLoads(t) PROVE RegistryInvariant'
  <2>1. Types'
    BY <1>2 DEF IssueIdLoads, RegistryInvariant, Types, Ids
  <2> QED
    BY <1>2, <2>1, LosingKeeps DEF IssueIdLoads, RegistryInvariant, OneOwner, Types, Held, Visiting, Reserving
<1>3. ASSUME NEW t \in Issuers, IssueIdExchanges(t) PROVE RegistryInvariant'
  <2>0. thread[t] \in [at : {"idle", "exchange", "reserve"}, current : 0..MaxId] /\ thread[t].current \in Ids
    BY <1>3 DEF IssueIdExchanges, RegistryInvariant, Types
  <2>1. CASE nextId = thread[t].current
    <3>1. nextId \in Ids /\ nextId' = After(nextId) /\ After(nextId) \in 0..MaxId /\ UNCHANGED <<issued, sessions, visit, budget>>
      BY <1>3, <2>0, <2>1 DEF IssueIdExchanges, After, Ids
    <3>2. thread' = [thread EXCEPT ![t].at = "reserve"] /\ given' = [given EXCEPT ![nextId] = @ + 1]
      BY <1>3, <2>1 DEF IssueIdExchanges
    <3>3. given[nextId] = 0 /\ given'[nextId] = 1 /\ \A i \in Ids : given[i] = 1 => given'[i] = 1
      BY <3>1, <3>2 DEF RegistryInvariant, Types, CounterSplits, Ids
    <3>4. Types'
      BY <2>0, <2>1, <3>1, <3>2 DEF RegistryInvariant, Types
    <3>5. CounterSplits'
      BY <3>1, <3>2 DEF After, RegistryInvariant, Types, CounterSplits, Ids
    <3>6. \A r \in Registries : Held(r)' = Held(r)
      BY <3>1 DEF Held, Visiting
    <3>7. \A u \in Issuers : u # t => thread'[u] = thread[u]
      BY <3>2 DEF RegistryInvariant, Types
    <3>8. thread'[t].at = "reserve" /\ thread'[t].current = nextId
      BY <2>0, <2>1, <3>2 DEF RegistryInvariant, Types
    <3>9. \A u \in Issuers : Reserving(u) => thread[u].current # nextId
      BY <3>3 DEF RegistryInvariant, OneOwner
    <3>10. \A r \in Registries : nextId \notin Held(r) /\ Held(r) \subseteq Ids
      <4>1. \A r \in Registries : Held(r) \subseteq Ids
        BY DEF RegistryInvariant, Types, Held, Visiting
      <4>2. \A r \in Registries : nextId \notin Held(r)
        BY <3>3 DEF RegistryInvariant, OneOwner
      <4> QED
        BY <4>1, <4>2
    <3>11. OneOwner'
      <4>1. \A u \in Issuers : Reserving(u)' => given'[thread'[u].current] = 1
        BY <3>3, <3>7, <3>8 DEF RegistryInvariant, OneOwner, Types, Reserving
      <4>2. \A r \in Registries : \A i \in Held(r)' : given'[i] = 1
        BY <3>3, <3>6, <3>10 DEF RegistryInvariant, OneOwner
      <4>3. \A u, v \in Issuers : Reserving(u)' /\ Reserving(v)' /\ thread'[u].current = thread'[v].current => u = v
        BY <3>7, <3>8, <3>9 DEF RegistryInvariant, OneOwner, Reserving
      <4>4. \A u \in Issuers, r \in Registries : Reserving(u)' => thread'[u].current \notin Held(r)'
        BY <3>6, <3>7, <3>8, <3>10 DEF RegistryInvariant, OneOwner, Reserving
      <4>5. \A r, q \in Registries : r # q => Held(r)' \cap Held(q)' = {}
        BY <3>6 DEF RegistryInvariant, OneOwner
      <4>6. \A r \in Registries : issued'[r] \cap sessions'[r] = {}
        BY <3>1 DEF RegistryInvariant, OneOwner
      <4> QED
        BY <4>1, <4>2, <4>3, <4>4, <4>5, <4>6 DEF OneOwner
    <3> QED
      BY <3>4, <3>5, <3>11 DEF RegistryInvariant
  <2>2. CASE nextId # thread[t].current
    <3>1. thread' = [thread EXCEPT ![t] = IF nextId = 0 THEN [at |-> "idle", current |-> 0]
                                          ELSE [at |-> "exchange", current |-> nextId]]
          /\ UNCHANGED <<nextId, given, issued, sessions, visit, budget>>
      BY <1>3, <2>2 DEF IssueIdExchanges
    <3>2. Types'
      BY <3>1 DEF RegistryInvariant, Types, Ids
    <3>3. \A r \in Registries : Held(r)' = Held(r) /\ issued'[r] \cap sessions'[r] = {}
      BY <3>1 DEF Held, Visiting, RegistryInvariant, OneOwner
    <3>4. \A u \in Issuers : Reserving(u)' => Reserving(u) /\ thread'[u].current = thread[u].current
      BY <3>1 DEF Reserving, RegistryInvariant, Types
    <3> QED
      BY <3>1, <3>2, <3>3, <3>4, LosingKeeps
  <2> QED
    BY <2>1, <2>2
<1>4. ASSUME NEW t \in Issuers, IssueIdReserves(t) PROVE RegistryInvariant'
  <2> DEFINE r == Registry[t]  i == thread[t].current
  <2>1. r \in Registries /\ Reserving(t) /\ i \in Ids /\ given[i] = 1 /\ UNCHANGED <<nextId, sessions, visit, given>>
    BY <1>4 DEF IssueIdReserves, Registries, Reserving, RegistryInvariant, Types, OneOwner
  <2>2. thread' = [thread EXCEPT ![t] = [at |-> "idle", current |-> 0]] /\ budget' \in Nat
    BY <1>4 DEF IssueIdReserves, Fault, RegistryInvariant, Types
  <2>3. ~Reserving(t)' /\ \A u \in Issuers : u # t => thread'[u] = thread[u]
    BY <2>2 DEF RegistryInvariant, Types, Reserving
  <2>4. \/ issued' = [issued EXCEPT ![r] = @ \cup {i}]
        \/ UNCHANGED issued
    BY <1>4 DEF IssueIdReserves
  <2>5. Types'
    BY <2>1, <2>2, <2>4 DEF RegistryInvariant, Types
  <2>6. CounterSplits'
    BY <2>1 DEF RegistryInvariant, CounterSplits
  <2>7. \A q \in Registries : Held(q)' \subseteq (IF q = r THEN Held(q) \cup {i} ELSE Held(q))
    BY <2>1, <2>4 DEF Held, Visiting, RegistryInvariant, Types
  <2>8. OneOwner'
    <3>1. \A q \in Registries : i \notin Held(q) /\ (issued'[q] \cap sessions'[q]) = {}
      BY <2>1, <2>4 DEF RegistryInvariant, OneOwner, Types, Held
    <3>2. \A u \in Issuers : u # t /\ Reserving(u) => thread[u].current # i
      BY <2>1 DEF RegistryInvariant, OneOwner
    <3> HIDE DEF r, i
    <3> QED
      BY <2>1, <2>3, <2>7, <3>1, <3>2 DEF RegistryInvariant, OneOwner, Reserving
  <2> QED
    BY <2>5, <2>6, <2>8 DEF RegistryInvariant
<1>5. ASSUME NEW r \in Registries, ForEach(r) \/ Visits(r) \/ \E i \in Ids : DiscardIssuedId(r, i) \/ Register(r, i) \/ Unregister(r, i)
      PROVE  RegistryInvariant'
  <2>1. UNCHANGED <<nextId, thread, given>>
    BY <1>5 DEF ForEach, Visits, DiscardIssuedId, Register, Unregister
  <2>2. Types'
    <3>1. CASE ForEach(r)
      BY <3>1 DEF ForEach, Fault, RegistryInvariant, Types
    <3>2. CASE Visits(r)
      <4> DEFINE v == IF visit[r] = {} THEN None ELSE visit[r] \ {CHOOSE i \in visit[r] : TRUE}
      <4>1. visit[r] \in SUBSET Ids
        BY <3>2 DEF Visits, RegistryInvariant, Types
      <4>2. v \in (SUBSET Ids) \cup {None} /\ visit' = [visit EXCEPT ![r] = v]
        BY <3>2, <4>1 DEF Visits
      <4> HIDE DEF v
      <4> QED
        BY <3>2, <4>2 DEF Visits, RegistryInvariant, Types
    <3>3. ASSUME NEW i \in Ids, DiscardIssuedId(r, i) \/ Register(r, i) \/ Unregister(r, i) PROVE Types'
      BY <3>3 DEF DiscardIssuedId, Register, Unregister, Fault, RegistryInvariant, Types
    <3> QED
      BY <1>5, <3>1, <3>2, <3>3
  <2>3. \A q \in Registries : Held(q)' \subseteq Held(q) /\ issued'[q] \cap sessions'[q] = {}
    <3>1. CASE ForEach(r)
      BY <3>1 DEF ForEach, Held, Visiting, RegistryInvariant, Types, OneOwner
    <3>2. CASE Visits(r)
      BY <3>2 DEF Visits, Held, Visiting, RegistryInvariant, Types, OneOwner
    <3>3. ASSUME NEW i \in Ids, DiscardIssuedId(r, i) \/ Register(r, i) \/ Unregister(r, i), NEW q \in Registries
          PROVE  Held(q)' \subseteq Held(q) /\ issued'[q] \cap sessions'[q] = {}
      BY <3>3 DEF DiscardIssuedId, Register, Unregister, Held, Visiting, RegistryInvariant, Types, OneOwner
    <3> QED
      BY <1>5, <3>1, <3>2, <3>3
  <2>4. \A t \in Issuers : Reserving(t)' => Reserving(t) /\ thread'[t].current = thread[t].current
    BY <2>1 DEF Reserving
  <2> QED
    BY <2>1, <2>2, <2>3, <2>4, LosingKeeps
<1> QED
  BY <1>1, <1>2, <1>3, <1>4, <1>5 DEF Next

\* The invariant says what RegistryIsExact does.
LEMMA RegistryInvariantImplies == ASSUME RegistryInvariant PROVE RegistryIsExact
<1>1. TypeOK
  BY DEF RegistryInvariant, Types, TypeOK
<1>2. \A i \in Ids : given[i] \in {0, 1}
  BY DEF RegistryInvariant, CounterSplits
<1>3. ASSUME NEW i \in Ids
      PROVE  Cardinality({r \in Registries : i \in issued[r]}) + Cardinality({r \in Registries : i \in sessions[r]}) <= given[i]
  <2> DEFINE A == {r \in Registries : i \in issued[r]}  B == {r \in Registries : i \in sessions[r]}
  <2>1. A \cap B = {} /\ \A r, q \in A \cup B : r = q
    BY DEF RegistryInvariant, OneOwner, Held
  <2>2. A \cup B # {} => given[i] = 1
    BY DEF RegistryInvariant, OneOwner, Held
  <2>3. (A = {} \/ \E r : A = {r}) /\ (B = {} \/ \E r : B = {r}) /\ (A = {} \/ B = {})
    <3> HIDE DEF A, B
    <3>1. A = {} \/ \E r : A = {r}
      BY <2>1
    <3>2. B = {} \/ \E r : B = {r}
      BY <2>1
    <3>3. A = {} \/ B = {}
      BY <2>1
    <3> QED
      BY <3>1, <3>2, <3>3
  <2>4. Cardinality(A) \in {0, 1} /\ Cardinality(B) \in {0, 1} /\ (Cardinality(A) = 0 \/ Cardinality(B) = 0)
    <3> HIDE DEF A, B
    <3> QED
      BY <2>3, FS_EmptySet, FS_Singleton
  <2>5. given[i] = 0 => Cardinality(A) = 0 /\ Cardinality(B) = 0
    <3>1. given[i] = 0 => A = {} /\ B = {}
      BY <2>2
    <3> HIDE DEF A, B
    <3> QED
      BY <3>1, FS_EmptySet
  <2> HIDE DEF A, B
  <2>6. Cardinality(A) + Cardinality(B) <= given[i]
    BY <1>2, <2>4, <2>5
  <2> QED
    BY <2>6 DEF A, B
<1>4. \A r, q \in Registries : r # q /\ visit[r] # None => visit[r] \cap (issued[q] \cup sessions[q]) = {}
  BY DEF RegistryInvariant, OneOwner, Held, Visiting
<1>5. \A i \in Ids : given[i] <= 1
  BY <1>2
<1> QED
  BY <1>1, <1>3, <1>4, <1>5, Zenon DEF RegistryIsExact

\* NumbersAreUnique.  However many threads and registries issue, reserve, discard,
\* register, unregister and visit at once, SessionRegistry gives no number out
\* twice, not even after the last, and no number is reserved or registered twice.
THEOREM NumbersAreUnique == Spec => []RegistryIsExact
<1>1. Init => RegistryInvariant
  BY RegistryInit
<1>2. RegistryInvariant /\ [Next]_vars => RegistryInvariant'
  BY RegistryStep
<1>3. RegistryInvariant => RegistryIsExact
  BY RegistryInvariantImplies
<1> QED
  BY <1>1, <1>2, <1>3, PTL DEF Spec
=============================================================================
