--------------------------- MODULE RequestLimiter ---------------------------
(***************************************************************************)
(* Runtime::RequestLimiter: a bounded table of token buckets.  Every call  *)
(* is one critical section.  Clocks and tokens are natural numbers; Refill *)
(* tokens arrive in each tick.                                             *)
(*                                                                         *)
(* "ideal" is a limiter with a table without bound, that forgets no key:   *)
(* it is told of every admission and is not part of the code.              *)
(***************************************************************************)
EXTENDS Integers, FiniteSetsExt, Functions, SumTheorems

CONSTANTS
  Keys, KeyBytes,            \* the keys and their lengths
  MaxKeys, MaxKeyBytes,      \* maxKeys, maxRetainedKeyBytes
  Burst, Refill, Costs,
  MaxPerKey, MaxTotal,
  IdleExpiry,
  MaxClock

\* Create refuses options without keys, tokens or permits; a request costs at
\* least one token and TryAcquire refuses one that costs more than the burst.
ASSUME RequestLimiterAssumption ==
  /\ IsFiniteSet(Keys) /\ KeyBytes \in [Keys -> Nat] /\ MaxKeys \in Nat /\ MaxKeyBytes \in Nat
  /\ Burst \in Nat \ {0} /\ Refill \in Nat \ {0} /\ Costs \subseteq 1..Burst
  /\ MaxPerKey \in Nat \ {0} /\ MaxTotal \in Nat /\ IdleExpiry \in Nat /\ MaxClock \in Nat

VARIABLES
  entries,   \* a function from the keys in the table to their RequestLimitEntry
  limiter,   \* keyBytes, active, pressureRetry, closed
  permits,   \* RequestPermits held, per key
  ideal, now

vars == <<entries, limiter, permits, ideal, now>>

Never == MaxClock + Burst + 1

Init ==
  /\ entries = [k \in {} |-> 0]
  /\ limiter = [keyBytes |-> 0, active |-> 0, retry |-> 0, closed |-> FALSE]
  /\ permits = [k \in Keys |-> 0]
  /\ ideal = [k \in Keys |-> [tokens |-> Burst, refill |-> 0]] /\ now = 0

Least(a, b) == IF a < b THEN a ELSE b

\* The bucket's tokens at this time.
Tokens(e) == Least(Burst, e.tokens + Refill * (now - e.refill))
Refilled(e) == [e EXCEPT !.tokens = Tokens(e), !.refill = now]

\* No later than the bucket is full.
MutantFullAt(e) == e.refill + Burst - e.tokens + 1
FullAt(e) == e.refill + (Burst - e.tokens) \div Refill

\* What the scan removes: an entry no permit points to, that a new one would equal.
MutantRemovable(e, pressure, closed) ==
  e.active = 0 /\ (closed \/ pressure \/ (Tokens(e) >= Burst /\ now - e.seen >= IdleExpiry))
Removable(e, pressure, closed) ==
  e.active = 0 /\ (closed \/ (Tokens(e) >= Burst /\ (pressure \/ now - e.seen >= IdleExpiry)))

\* The table and its counters after a scan; a scan under pressure notes when the
\* next one may find something.
Pruned(table, l, pressure) ==
  LET keep == {k \in DOMAIN table : ~Removable(table[k], pressure, l.closed)}
      kept == [k \in keep |-> Refilled(table[k])]
      idle == {FullAt(kept[k]) : k \in {i \in keep : kept[i].active = 0}}
  IN [entries |-> kept,
      limiter |-> [l EXCEPT !.keyBytes = @ - SumFunctionOnSet(KeyBytes, DOMAIN table \ keep),
                            !.retry = IF pressure THEN Min(idle \cup {Never}) ELSE @]]

Room(s, k) == Cardinality(DOMAIN s.entries) < MaxKeys /\ KeyBytes[k] <= MaxKeyBytes - s.limiter.keyBytes

\* The table TryAcquire looks for room in.
Scanned(k) ==
  LET s == [entries |-> entries, limiter |-> limiter]
  IN IF ~Room(s, k) /\ now >= limiter.retry THEN Pruned(entries, limiter, TRUE) ELSE s

Found(k) ==
  IF k \in DOMAIN entries THEN [entries |-> entries, limiter |-> limiter]
  ELSE LET s == Scanned(k)
       IN IF ~Room(s, k) THEN s
          ELSE [entries |-> [i \in DOMAIN s.entries \cup {k} |->
                               IF i = k THEN [tokens |-> Burst, active |-> 0, refill |-> now, seen |-> now]
                               ELSE s.entries[i]],
                limiter |-> [s.limiter EXCEPT !.keyBytes = @ + KeyBytes[k]]]

TryAcquire(k, cost) ==
  LET s == Found(k)
      e == [Refilled(s.entries[k]) EXCEPT !.seen = now]
      admitted == e.active < MaxPerKey /\ e.tokens >= cost
  IN /\ ~limiter.closed /\ limiter.active < MaxTotal
     /\ IF k \notin DOMAIN s.entries   \* KeyCapacity
        THEN entries' = s.entries /\ limiter' = s.limiter /\ UNCHANGED <<permits, ideal>>
        ELSE IF ~admitted              \* KeyConcurrency, Rate
        THEN entries' = [s.entries EXCEPT ![k] = e] /\ limiter' = s.limiter /\ UNCHANGED <<permits, ideal>>
        ELSE /\ entries' = [s.entries EXCEPT ![k] = [e EXCEPT !.tokens = @ - cost, !.active = @ + 1]]
             /\ limiter' = [s.limiter EXCEPT !.active = @ + 1]
             /\ permits' = [permits EXCEPT ![k] = @ + 1]
             /\ ideal' = [ideal EXCEPT ![k] = [tokens |-> Tokens(@) - cost, refill |-> now]]
     /\ UNCHANGED now

\* RequestPermit::Reset: an entry may have become removable.
MutantReleased == [limiter EXCEPT !.active = @ - 1]
Released == [limiter EXCEPT !.active = @ - 1, !.retry = 0]

Reset(k) ==
  LET table == [entries EXCEPT ![k].active = @ - 1, ![k].seen = now]
      s == IF limiter.closed THEN Pruned(table, Released, FALSE) ELSE [entries |-> table, limiter |-> Released]
  IN /\ permits[k] > 0 /\ permits' = [permits EXCEPT ![k] = @ - 1]
     /\ entries' = s.entries /\ limiter' = s.limiter /\ UNCHANGED <<ideal, now>>

PruneExpired ==
  LET s == Pruned(entries, limiter, FALSE)
  IN entries' = s.entries /\ limiter' = s.limiter /\ UNCHANGED <<permits, ideal, now>>

Close ==
  LET s == Pruned(entries, [limiter EXCEPT !.closed = TRUE], FALSE)
  IN /\ ~limiter.closed
     /\ entries' = s.entries /\ limiter' = s.limiter /\ UNCHANGED <<permits, ideal, now>>

Tick == now < MaxClock /\ now' = now + 1 /\ UNCHANGED <<entries, limiter, permits, ideal>>

Next ==
  \/ Tick \/ PruneExpired \/ Close
  \/ \E k \in Keys : Reset(k) \/ \E cost \in Costs : TryAcquire(k, cost)

Spec == Init /\ [][Next]_vars

-----------------------------------------------------------------------------

TypeOK ==
  /\ DOMAIN entries \subseteq Keys /\ limiter.active \in 0..MaxTotal /\ limiter.retry \in 0..Never
  /\ \A k \in DOMAIN entries : entries[k].tokens \in 0..Burst /\ entries[k].active \in 0..MaxPerKey

\* A permit's pointer leads to its entry, which counts it; the totals are the
\* sums; the table keeps its bounds; once closed it empties with the permits.
PermitsAreCounted ==
  /\ \A k \in Keys : permits[k] = IF k \in DOMAIN entries THEN entries[k].active ELSE 0
  /\ limiter.active = SumFunctionOnSet(permits, Keys)
  /\ limiter.keyBytes = SumFunctionOnSet(KeyBytes, DOMAIN entries)
  /\ Cardinality(DOMAIN entries) <= MaxKeys /\ limiter.keyBytes <= MaxKeyBytes
  /\ limiter.closed => \A k \in DOMAIN entries : entries[k].active > 0

\* Forgetting a key never lets it have more: each key has just the tokens it
\* would have in a table that forgets nobody.
ForgettingIsInvisible ==
  ~limiter.closed =>
    \A k \in Keys : Tokens(ideal[k]) = IF k \in DOMAIN entries THEN Tokens(entries[k]) ELSE Burst

\* Before pressureRetry a scan under pressure would find nothing to remove, so
\* leaving it out refuses nobody.
PressureHidesNothing ==
  now < limiter.retry => \A k \in DOMAIN entries : ~Removable(entries[k], TRUE, limiter.closed)

\* The limiter, all in all.
LimiterIsExact == TypeOK /\ PermitsAreCounted /\ ForgettingIsInvisible /\ PressureHidesNothing

-----------------------------------------------------------------------------
(* The proof that LimiterIsExact holds for any keys, sizes, rates and      *)
(* limits.  The state is described for any table, counters and permits     *)
(* held, since TryAcquire goes on with what its scan leaves.               *)

Entry == [tokens : 0..Burst, active : 0..MaxPerKey, refill : 0..now, seen : 0..now]
Counters == [keyBytes : Nat, active : 0..MaxTotal, retry : 0..Never, closed : BOOLEAN]

\* At time m the bucket of e is at most full: what pressureRetry is to say of
\* every entry without a permit, in a form that refilling leaves alone.
NotFullBefore(e, m) == e.tokens + Refill * (m - e.refill) <= Burst

Types(table, l) ==
  /\ now \in Nat /\ ideal \in [Keys -> [tokens : Int, refill : Int]]
  /\ DOMAIN table \subseteq Keys /\ (\A k \in DOMAIN table : table[k] \in Entry) /\ l \in Counters
Counts(table, l) ==
  /\ l.keyBytes = SumFunctionOnSet(KeyBytes, DOMAIN table)
  /\ Cardinality(DOMAIN table) <= MaxKeys /\ l.keyBytes <= MaxKeyBytes
Holders(table, held) ==
  held \in [Keys -> Nat] /\ \A k \in Keys : held[k] = IF k \in DOMAIN table THEN table[k].active ELSE 0
Forgets(table, l) ==
  ~l.closed => \A k \in Keys : Tokens(ideal[k]) = IF k \in DOMAIN table THEN Tokens(table[k]) ELSE Burst
Waits(table, l) ==
  now < l.retry => \A k \in DOMAIN table : table[k].active = 0 => NotFullBefore(table[k], l.retry)
Closes(table, l) == l.closed => \A k \in DOMAIN table : table[k].active > 0

\* The table is sound; Closes is apart, as it fails between a return of a permit
\* and the scan that follows.
Sound(table, l, held) ==
  Types(table, l) /\ Counts(table, l) /\ Holders(table, held) /\ Forgets(table, l) /\ Waits(table, l)

\* The inductive invariant.
LimiterInv ==
  /\ Sound(entries, limiter, permits) /\ Closes(entries, limiter)
  /\ limiter.active = SumFunctionOnSet(permits, Keys)
-----------------------------------------------------------------------------

\* A leaf is for Zenon, which has 60 seconds, unless it names another prover.
USE ZenonT(60)

\* A product over a span of time is the sum of those over its parts.
LEMMA Flow ==
  ASSUME NEW r \in Nat
  PROVE  /\ \A d \in Nat : r * d \in Nat
         /\ \A a, b, c \in Int : r * (a - b) + r * (c - a) = r * (c - b)
         /\ \A a \in Int : r * (a - a) = 0
         /\ \A a, b \in Int : r * (a - b) \in Int
         /\ \A a, b, c \in Int : a <= c => r * (a - b) <= r * (c - b)
BY SMTT(30)

\* What an entry's fields are.
LEMMA EntryFields ==
  ASSUME now \in Nat, NEW e \in Entry
  PROVE  /\ e.tokens \in Nat /\ e.tokens <= Burst /\ e.active \in Nat /\ e.active <= MaxPerKey
         /\ e.refill \in Nat /\ e.refill <= now /\ e.seen \in 0..now
BY SMTT(30), RequestLimiterAssumption DEF Entry

\* Tokens never exceed the burst nor fall with time.
LEMMA TokensFacts ==
  ASSUME now \in Nat, NEW e, e.tokens \in Int, e.refill \in Int
  PROVE  /\ Tokens(e) \in Int /\ Tokens(e) <= Burst /\ Tokens(e) <= e.tokens + Refill * (now - e.refill)
         /\ e.refill = now /\ e.tokens <= Burst => Tokens(e) = e.tokens
         /\ e \in Entry => Tokens(e) \in 0..Burst
<1>1. Burst \in Nat /\ Refill \in Nat
  BY RequestLimiterAssumption
<1>2. Refill * (now - e.refill) \in Int /\ (e.refill = now => Refill * (now - e.refill) = 0)
  BY SMTT(30), <1>1, Flow
<1>3. ASSUME e \in Entry PROVE Tokens(e) \in 0..Burst
  <2>1. e.tokens \in Nat /\ now - e.refill \in Nat
    BY SMTT(30), <1>3, EntryFields
  <2>2. Refill * (now - e.refill) \in Nat
    BY <1>1, <2>1, Flow
  <2> QED BY SMTT(30), <1>1, <2>1, <2>2 DEF Tokens, Least
<1> QED BY SMTT(30), <1>1, <1>2, <1>3 DEF Tokens, Least

\* Refill: the bucket is the same afterwards, now and for whoever waits for it.
LEMMA RefilledFacts ==
  ASSUME now \in Nat, NEW e \in Entry
  PROVE  /\ Refilled(e) \in Entry /\ Refilled(e).active = e.active /\ Refilled(e).seen = e.seen
         /\ Refilled(e).tokens = Tokens(e) /\ Refilled(e).refill = now
         /\ Tokens(Refilled(e)) = Tokens(e)
         /\ \A m \in Nat : NotFullBefore(e, m) => NotFullBefore(Refilled(e), m)
<1>1. /\ e.tokens \in Nat /\ e.refill \in Nat /\ Burst \in Nat /\ Refill \in Nat
      /\ Tokens(e) \in 0..Burst /\ Tokens(e) <= e.tokens + Refill * (now - e.refill)
  BY SMTT(30), RequestLimiterAssumption, EntryFields, TokensFacts
<1>2. /\ Refilled(e) \in Entry /\ Refilled(e).active = e.active /\ Refilled(e).seen = e.seen
      /\ Refilled(e).tokens = Tokens(e) /\ Refilled(e).refill = now
  <2> DEFINE f == [e EXCEPT !.tokens = Tokens(e)]
  <2>1. Tokens(e) \in 0..Burst /\ now \in 0..now
    BY SMTT(30), <1>1
  <2>2. f \in Entry /\ f.active = e.active /\ f.seen = e.seen /\ f.tokens = Tokens(e)
    BY <2>1 DEF Entry
  <2>3. Refilled(e) = [f EXCEPT !.refill = now]
    BY DEF Refilled, Entry
  <2> HIDE DEF f
  <2> QED BY <2>1, <2>2, <2>3 DEF Entry
<1>3. Tokens(Refilled(e)) = Tokens(e)
  BY SMTT(30), <1>1, <1>2, TokensFacts
<1>4. ASSUME NEW m \in Nat, NotFullBefore(e, m) PROVE NotFullBefore(Refilled(e), m)
  <2>1. Refill * (now - e.refill) + Refill * (m - now) = Refill * (m - e.refill)
    BY SMTT(30), <1>1, Flow
  <2>2. Refill * (now - e.refill) \in Int /\ Refill * (m - now) \in Int
    BY SMTT(30), <1>1, Flow
  <2> QED BY SMTT(30), <1>1, <1>2, <1>4, <2>1, <2>2 DEF NotFullBefore
<1> QED BY <1>2, <1>3, <1>4

\* FullAt is early enough.
LEMMA FullAtFacts ==
  ASSUME now \in Nat, NEW e \in Entry
  PROVE  FullAt(e) \in Nat /\ \A m \in Nat : m <= FullAt(e) => NotFullBefore(e, m)
<1>1. e.tokens \in Nat /\ e.refill \in Nat /\ Burst \in Nat /\ Refill \in Nat \ {0} /\ Burst - e.tokens \in Nat
  BY SMTT(30), RequestLimiterAssumption, EntryFields
<1>2. PICK q \in Nat : q = (Burst - e.tokens) \div Refill /\ Refill * q <= Burst - e.tokens
  BY SMTT(30), <1>1
<1>3. FullAt(e) = e.refill + q
  BY <1>2 DEF FullAt
<1>4. ASSUME NEW m \in Nat, m <= FullAt(e) PROVE NotFullBefore(e, m)
  <2>1. Refill * (m - e.refill) <= Refill * ((e.refill + q) - e.refill)
    BY SMTT(30), <1>1, <1>2, <1>3, <1>4, Flow
  <2>2. (e.refill + q) - e.refill = q /\ Refill * (m - e.refill) \in Int /\ Refill * q \in Int
    BY SMTT(30), <1>1, <1>2, Flow
  <2> QED BY SMTT(30), <1>1, <1>2, <2>1, <2>2 DEF NotFullBefore
<1> QED BY SMTT(30), <1>1, <1>2, <1>3, <1>4

\* A bucket that is not full before m is not full now, if now is before m.
LEMMA NotFullYet ==
  ASSUME now \in Nat, NEW e \in Entry, NEW m \in Nat, now < m, NotFullBefore(e, m)
  PROVE  Tokens(e) < Burst
<1>1. e.tokens \in Nat /\ e.refill \in Nat /\ Burst \in Nat /\ Refill \in Nat \ {0}
  BY RequestLimiterAssumption, EntryFields
<1>2. Tokens(e) \in Int /\ Tokens(e) <= e.tokens + Refill * (now - e.refill)
  BY SMTT(30), <1>1, TokensFacts
<1>3. Refill * (now - e.refill) + Refill * (m - now) = Refill * (m - e.refill)
  BY SMTT(30), <1>1, Flow
<1>4. Refill * (m - now) >= 1
  <2>1. \A r, d \in Nat \ {0} : r * d >= 1
    BY SMTT(30)
  <2> QED BY SMTT(30), <1>1, <2>1
<1>5. Refill * (now - e.refill) \in Int /\ Refill * (m - now) \in Int
  BY SMTT(30), <1>1, Flow
<1> QED BY SMTT(30), <1>1, <1>2, <1>3, <1>4, <1>5 DEF NotFullBefore

\* The least of a set of naturals.
LEMMA MinFacts ==
  ASSUME NEW S, S \subseteq Nat, S # {}
  PROVE  Min(S) \in S /\ \A x \in S : Min(S) <= x
<1> DEFINE Before == OpToRel(<, Nat)
<1>1. \E x \in S : \A y \in S : ~(<<y, x>> \in Before)
  BY NatLessThanWellFounded, WFMin
<1>2. \A x, y \in Nat : y < x => <<y, x>> \in Before
  BY DEF OpToRel
<1>3. \E x \in S : \A y \in S : x <= y
  <2> HIDE DEF Before
  <2>1. PICK x \in S : \A y \in S : ~(<<y, x>> \in Before)
    BY <1>1
  <2>2. \A y \in S : ~(y < x)
    BY <1>2, <2>1
  <2> QED BY SMTT(30), <2>2
<1> QED BY <1>3 DEF Min

\* The bytes of a table's keys.
LEMMA BytesOfKeys ==
  ASSUME NEW S, S \subseteq Keys
  PROVE  /\ IsFiniteSet(S) /\ SumFunctionOnSet(KeyBytes, S) \in Nat
         /\ \A T \in SUBSET S :
              SumFunctionOnSet(KeyBytes, S) = SumFunctionOnSet(KeyBytes, T) + SumFunctionOnSet(KeyBytes, S \ T)
         /\ \A k \in Keys \ S :
              SumFunctionOnSet(KeyBytes, S \cup {k}) = SumFunctionOnSet(KeyBytes, S) + KeyBytes[k]
<1>1. IsFiniteSet(S) /\ \A k \in Keys : KeyBytes[k] \in Nat
  BY RequestLimiterAssumption, FS_Subset
<1>2. SumFunctionOnSet(KeyBytes, S) \in Nat
  BY <1>1, SumIsNatural
<1>3. ASSUME NEW T \in SUBSET S
      PROVE  SumFunctionOnSet(KeyBytes, S) = SumFunctionOnSet(KeyBytes, T) + SumFunctionOnSet(KeyBytes, S \ T)
  <2>1. \A k \in S : KeyBytes[k] \in Int
    BY SMTT(30), <1>1
  <2> QED BY SMTT(30), <1>1, <2>1, SumSplits
<1>4. ASSUME NEW k \in Keys \ S
      PROVE  SumFunctionOnSet(KeyBytes, S \cup {k}) = SumFunctionOnSet(KeyBytes, S) + KeyBytes[k]
  <2>1. \A i \in S \cup {k} : KeyBytes[i] \in Int
    BY SMTT(30), <1>1
  <2> QED BY <1>1, <2>1, SumAdds
<1> QED BY <1>1, <1>2, <1>3, <1>4

\* Prune: a scan leaves a sound table, which once closed has only entries with
\* permits.
LEMMA PrunedIsSound ==
  ASSUME NEW table, NEW l, NEW held, Sound(table, l, held), NEW pressure \in BOOLEAN
  PROVE  LET s == Pruned(table, l, pressure) IN
           /\ Sound(s.entries, s.limiter, held) /\ Closes(s.entries, s.limiter)
           /\ DOMAIN s.entries \subseteq DOMAIN table
           /\ s.limiter.active = l.active /\ s.limiter.closed = l.closed
<1> DEFINE keep == {k \in DOMAIN table : ~Removable(table[k], pressure, l.closed)}
           kept == [k \in keep |-> Refilled(table[k])]
           idle == {FullAt(kept[k]) : k \in {i \in keep : kept[i].active = 0}}
           gone == SumFunctionOnSet(KeyBytes, DOMAIN table \ keep)
           retry == IF pressure THEN Min(idle \cup {Never}) ELSE l.retry
           counters == [l EXCEPT !.keyBytes = l.keyBytes - gone, !.retry = retry]
<1>1. /\ now \in Nat /\ DOMAIN table \subseteq Keys /\ l \in Counters
      /\ \A k \in DOMAIN table : table[k] \in Entry
  BY DEF Sound, Types
<1>2. l.keyBytes \in Nat /\ l.retry \in 0..Never /\ l.closed \in BOOLEAN /\ Never \in Nat
  BY SMTT(30), <1>1, RequestLimiterAssumption DEF Counters, Never
<1>3. /\ DOMAIN kept = keep /\ keep \subseteq DOMAIN table
      /\ \A k \in keep : kept[k] = Refilled(table[k])
      /\ \A k \in DOMAIN table : (k \in keep <=> ~Removable(table[k], pressure, l.closed))
  OBVIOUS
<1>4. \A k \in keep : kept[k] \in Entry /\ kept[k].active = table[k].active /\ Tokens(kept[k]) = Tokens(table[k])
  BY <1>1, <1>3, RefilledFacts
<1>5. retry \in 0..Never /\ (pressure => \A k \in keep : kept[k].active = 0 => retry <= FullAt(kept[k]))
  <2>1. CASE ~pressure
    BY <1>2, <2>1
  <2>2. CASE pressure
    <3>1. \A k \in keep : FullAt(kept[k]) \in Nat
      BY <1>1, <1>4, FullAtFacts
    <3>2. idle \cup {Never} \subseteq Nat /\ Never \in idle \cup {Never}
      BY <1>2, <3>1
    <3>3. Min(idle \cup {Never}) \in Nat /\ \A x \in idle \cup {Never} : Min(idle \cup {Never}) <= x
      <4> HIDE DEF idle
      <4> QED BY <3>2, MinFacts
    <3>4. retry = Min(idle \cup {Never})
      BY <2>2
    <3>5. \A k \in keep : kept[k].active = 0 => FullAt(kept[k]) \in idle \cup {Never}
      OBVIOUS
    <3> HIDE DEF idle, retry
    <3> QED BY SMTT(30), <1>2, <3>2, <3>3, <3>4, <3>5
  <2> QED BY <2>1, <2>2
<1>6. Pruned(table, l, pressure) = [entries |-> kept, limiter |-> counters]
  BY DEF Pruned
<1> HIDE DEF kept, idle, retry
<1>7. /\ l.keyBytes = SumFunctionOnSet(KeyBytes, DOMAIN table) /\ Cardinality(DOMAIN table) <= MaxKeys
      /\ l.keyBytes <= MaxKeyBytes
  BY DEF Sound, Counts
<1>8. /\ l.keyBytes - gone = SumFunctionOnSet(KeyBytes, keep) /\ l.keyBytes - gone \in Nat
      /\ l.keyBytes - gone <= MaxKeyBytes
  <2>1. gone \in Nat
    <3>1. DOMAIN table \ keep \subseteq Keys
      BY <1>1
    <3> QED BY <3>1, BytesOfKeys
  <2>2. SumFunctionOnSet(KeyBytes, keep) \in Nat
    <3>1. keep \subseteq Keys
      BY <1>1, <1>3
    <3> QED BY <3>1, BytesOfKeys
  <2>3. SumFunctionOnSet(KeyBytes, DOMAIN table) = SumFunctionOnSet(KeyBytes, keep) + gone
    BY <1>1, <1>3, BytesOfKeys
  <2> HIDE DEF gone, keep
  <2> QED BY SMTT(30), <1>2, <1>7, <2>1, <2>2, <2>3, RequestLimiterAssumption
<1> HIDE DEF gone
<1>9. /\ counters \in Counters /\ counters.keyBytes = l.keyBytes - gone /\ counters.active = l.active
      /\ counters.retry = retry /\ counters.closed = l.closed
  <2> DEFINE b == l.keyBytes - gone
             f == [l EXCEPT !.keyBytes = b]
  <2>1. b \in Nat
    BY <1>8
  <2>2. f \in Counters /\ f.keyBytes = b /\ f.active = l.active /\ f.closed = l.closed
    BY <1>1, <2>1 DEF Counters
  <2>3. counters = [f EXCEPT !.retry = retry]
    BY <1>1 DEF Counters
  <2> HIDE DEF f, counters
  <2> QED BY <1>5, <2>2, <2>3 DEF Counters
<1> HIDE DEF counters, keep
<1>10. Types(kept, counters)
  <2>1. now \in Nat /\ ideal \in [Keys -> [tokens : Int, refill : Int]]
    BY DEF Sound, Types
  <2> QED BY <1>1, <1>3, <1>4, <1>9, <2>1 DEF Types
<1>11. Counts(kept, counters)
  <2>1. Cardinality(keep) <= Cardinality(DOMAIN table) /\ Cardinality(keep) \in Nat /\ Cardinality(DOMAIN table) \in Nat
    BY <1>1, <1>3, BytesOfKeys, FS_Subset, FS_CardinalityType
  <2>2. Cardinality(keep) <= MaxKeys
    BY SMTT(30), <1>7, <2>1, RequestLimiterAssumption
  <2> QED BY <1>3, <1>8, <1>9, <2>2 DEF Counts
<1>12. Holders(kept, held)
  <2> SUFFICES ASSUME NEW k \in Keys PROVE held[k] = IF k \in DOMAIN kept THEN kept[k].active ELSE 0
    BY DEF Sound, Holders
  <2>1. held[k] = IF k \in DOMAIN table THEN table[k].active ELSE 0
    BY DEF Sound, Holders
  <2>2. k \in DOMAIN table /\ k \notin keep => table[k].active = 0
    BY <1>3 DEF Removable
  <2> QED BY <1>3, <1>4, <2>1, <2>2
<1>13. Forgets(kept, counters)
  <2> SUFFICES ASSUME ~l.closed, NEW k \in Keys
               PROVE  Tokens(ideal[k]) = IF k \in DOMAIN kept THEN Tokens(kept[k]) ELSE Burst
    BY <1>9 DEF Forgets
  <2>1. Tokens(ideal[k]) = IF k \in DOMAIN table THEN Tokens(table[k]) ELSE Burst
    BY DEF Sound, Forgets
  <2>2. ASSUME k \in DOMAIN table, k \notin keep PROVE Tokens(table[k]) = Burst
    <3>1. Tokens(table[k]) >= Burst
      BY <1>3, <2>2 DEF Removable
    <3>2. Tokens(table[k]) \in Int /\ Tokens(table[k]) <= Burst
      <4>1. table[k].tokens \in Int /\ table[k].refill \in Int
        BY SMTT(30), <1>1, <2>2, EntryFields
      <4> QED BY <1>1, <4>1, TokensFacts
    <3> QED BY SMTT(30), <3>1, <3>2, RequestLimiterAssumption
  <2> QED BY <1>3, <1>4, <2>1, <2>2
<1>14. Waits(kept, counters)
  <2> SUFFICES ASSUME now < retry, NEW k \in keep, kept[k].active = 0 PROVE NotFullBefore(kept[k], retry)
    BY <1>3, <1>9 DEF Waits
  <2>1. retry \in Nat
    BY SMTT(30), <1>2, <1>5
  <2>2. CASE pressure
    BY <1>1, <1>4, <1>5, <2>1, <2>2, FullAtFacts
  <2>3. CASE ~pressure
    <3>1. retry = l.retry
      BY <2>3 DEF retry
    <3>2. NotFullBefore(table[k], retry)
      BY <1>3, <1>4, <3>1 DEF Sound, Waits
    <3> QED BY <1>1, <1>3, <2>1, <3>2, RefilledFacts
  <2> QED BY <2>2, <2>3
<1>15. Closes(kept, counters)
  <2> SUFFICES ASSUME l.closed, NEW k \in keep PROVE kept[k].active > 0
    BY <1>3, <1>9 DEF Closes
  <2>1. kept[k].active # 0
    BY <1>2, <1>3, <1>4 DEF Removable
  <2> QED BY SMTT(30), <1>1, <1>4, <2>1, EntryFields
<1>16. Sound(kept, counters, held)
  BY <1>10, <1>11, <1>12, <1>13, <1>14 DEF Sound
<1> QED BY SMTT(30), <1>3, <1>6, <1>9, <1>15, <1>16

\* What TryAcquire has found or made: a sound table, but for the promise of
\* pressureRetry, which a new entry does not keep before its first permit.
LEMMA FoundIsSound ==
  ASSUME LimiterInv, ~limiter.closed, NEW k \in Keys
  PROVE  LET s == Found(k) IN
           /\ Types(s.entries, s.limiter) /\ Counts(s.entries, s.limiter)
           /\ Holders(s.entries, permits) /\ Forgets(s.entries, s.limiter)
           /\ ~s.limiter.closed /\ s.limiter.active = limiter.active
           /\ now < s.limiter.retry => \A i \in DOMAIN s.entries : s.entries[i].active = 0 =>
                NotFullBefore(s.entries[i], s.limiter.retry) \/ (i = k /\ Tokens(s.entries[i]) = Burst)
<1> DEFINE Good(s) ==
      /\ Types(s.entries, s.limiter) /\ Counts(s.entries, s.limiter)
      /\ Holders(s.entries, permits) /\ Forgets(s.entries, s.limiter)
      /\ ~s.limiter.closed /\ s.limiter.active = limiter.active
      /\ now < s.limiter.retry => \A i \in DOMAIN s.entries : s.entries[i].active = 0 =>
           NotFullBefore(s.entries[i], s.limiter.retry) \/ (i = k /\ Tokens(s.entries[i]) = Burst)
    here == [entries |-> entries, limiter |-> limiter]
    t == Scanned(k)
<1> SUFFICES Good(Found(k))
  OBVIOUS
<1>1. ASSUME NEW s, Sound(s.entries, s.limiter, permits), s.limiter.closed = limiter.closed,
             s.limiter.active = limiter.active
      PROVE  Good(s)
  BY <1>1 DEF Sound, Waits
<1>2. Sound(here.entries, here.limiter, permits) /\ here.limiter = limiter /\ here.entries = entries
  BY DEF LimiterInv
<1>3. /\ Sound(t.entries, t.limiter, permits) /\ t.limiter.closed = limiter.closed
      /\ t.limiter.active = limiter.active /\ DOMAIN t.entries \subseteq DOMAIN entries
  <2>1. CASE t = here
    <3> HIDE DEF here, t
    <3> QED BY <1>2, <2>1
  <2>2. CASE t = Pruned(entries, limiter, TRUE)
    <3>1. Sound(entries, limiter, permits) /\ TRUE \in BOOLEAN
      BY DEF LimiterInv
    <3>2. LET s == Pruned(entries, limiter, TRUE) IN
            /\ Sound(s.entries, s.limiter, permits) /\ Closes(s.entries, s.limiter)
            /\ DOMAIN s.entries \subseteq DOMAIN entries
            /\ s.limiter.active = limiter.active /\ s.limiter.closed = limiter.closed
      BY <3>1, PrunedIsSound
    <3> HIDE DEF t
    <3> QED BY <2>2, <3>2
  <2> QED BY <2>1, <2>2 DEF Scanned
<1>4. CASE k \in DOMAIN entries
  <2>1. Found(k) = here
    BY <1>4 DEF Found
  <2> HIDE DEF Good, here
  <2> QED BY <1>1, <1>2, <2>1
<1>5. CASE k \notin DOMAIN entries /\ ~Room(t, k)
  <2>1. Found(k) = t
    BY <1>5 DEF Found
  <2> HIDE DEF Good, t
  <2> QED BY <1>1, <1>3, <2>1
<1>6. CASE k \notin DOMAIN entries /\ Room(t, k)
  <2> DEFINE new == [tokens |-> Burst, active |-> 0, refill |-> now, seen |-> now]
             table == [i \in DOMAIN t.entries \cup {k} |-> IF i = k THEN new ELSE t.entries[i]]
             l == [t.limiter EXCEPT !.keyBytes = t.limiter.keyBytes + KeyBytes[k]]
  <2>1. Found(k).entries = table /\ Found(k).limiter = l
    BY <1>6 DEF Found
  <2> HIDE DEF t
  <2>2. /\ now \in Nat /\ t.limiter \in Counters /\ DOMAIN t.entries \subseteq Keys /\ k \notin DOMAIN t.entries
        /\ \A i \in DOMAIN t.entries : t.entries[i] \in Entry
    BY <1>3, <1>6 DEF Sound, Types
  <2>3. new \in Entry /\ new.active = 0 /\ Tokens(new) = Burst
    <3>1. Burst \in 0..Burst /\ 0 \in 0..MaxPerKey /\ now \in 0..now
      BY SMTT(30), <2>2, RequestLimiterAssumption
    <3>2. new \in Entry /\ new.active = 0 /\ new.tokens = Burst /\ new.refill = now
      BY <3>1 DEF Entry
    <3> HIDE DEF new
    <3> QED BY SMTT(30), <2>2, <3>2, TokensFacts, EntryFields
  <2>4. /\ DOMAIN table = DOMAIN t.entries \cup {k} /\ table[k] = new
        /\ \A i \in DOMAIN t.entries : table[i] = t.entries[i]
    BY <2>2
  <2> HIDE DEF table, new
  <2>5. /\ KeyBytes[k] \in Nat /\ KeyBytes[k] <= MaxKeyBytes - t.limiter.keyBytes
        /\ Cardinality(DOMAIN t.entries) < MaxKeys /\ t.limiter.keyBytes \in Nat
        /\ t.limiter.keyBytes = SumFunctionOnSet(KeyBytes, DOMAIN t.entries)
    BY <1>3, <1>6, <2>2, RequestLimiterAssumption DEF Room, Sound, Counts, Counters
  <2>6. /\ l \in Counters /\ l.keyBytes = t.limiter.keyBytes + KeyBytes[k] /\ l.retry = t.limiter.retry
        /\ l.closed = t.limiter.closed /\ l.active = t.limiter.active
    BY SMTT(30), <2>2, <2>5 DEF Counters
  <2> HIDE DEF l
  <2>7. Types(table, l)
    BY <1>3, <2>2, <2>3, <2>4, <2>6 DEF Sound, Types
  <2>8. Counts(table, l)
    <3>1. SumFunctionOnSet(KeyBytes, DOMAIN t.entries \cup {k})
            = SumFunctionOnSet(KeyBytes, DOMAIN t.entries) + KeyBytes[k]
      BY <2>2, BytesOfKeys
    <3>2. SumFunctionOnSet(KeyBytes, DOMAIN table) = SumFunctionOnSet(KeyBytes, DOMAIN t.entries) + KeyBytes[k]
      BY <2>4, <3>1
    <3>3. /\ IsFiniteSet(DOMAIN t.entries) /\ Cardinality(DOMAIN t.entries) \in Nat
          /\ Cardinality(DOMAIN t.entries \cup {k}) = Cardinality(DOMAIN t.entries) + 1
      BY <2>2, BytesOfKeys, FS_AddElement, FS_CardinalityType
    <3>4. Cardinality(DOMAIN table) = Cardinality(DOMAIN t.entries) + 1
      BY <2>4, <3>3
    <3> QED BY SMTT(30), <2>5, <2>6, <3>2, <3>3, <3>4, RequestLimiterAssumption DEF Counts
  <2>9. Holders(table, permits)
    BY <1>3, <2>2, <2>3, <2>4 DEF Sound, Holders
  <2>10. Forgets(table, l)
    BY <1>3, <2>2, <2>3, <2>4, <2>6 DEF Sound, Forgets
  <2>11. now < l.retry => \A i \in DOMAIN table : table[i].active = 0 =>
           NotFullBefore(table[i], l.retry) \/ (i = k /\ Tokens(table[i]) = Burst)
    BY <1>3, <2>3, <2>4, <2>6 DEF Sound, Waits
  <2> QED BY <1>3, <2>1, <2>6, <2>7, <2>8, <2>9, <2>10, <2>11
<1> QED BY <1>4, <1>5, <1>6

-----------------------------------------------------------------------------
(* The steps.                                                              *)

\* A step that leaves the clock alone, and one that leaves the ideal alone too.
LEMMA SoundAgain ==
  ASSUME now' = now, ideal' \in [Keys -> [tokens : Int, refill : Int]], Types(entries', limiter'),
         Counts(entries', limiter'), Holders(entries', permits'), Forgets(entries, limiter)',
         Waits(entries', limiter'), Closes(entries', limiter'), limiter'.active = SumFunctionOnSet(permits', Keys)
  PROVE  LimiterInv'
<1>1. Types(entries, limiter)'
  BY DEF Types, Entry, Counters, Never
<1>2. Counts(entries, limiter)' /\ Holders(entries, permits)' /\ Closes(entries, limiter)'
  BY DEF Counts, Holders, Closes
<1>3. Waits(entries, limiter)'
  BY DEF Waits, NotFullBefore
<1> QED BY <1>1, <1>2, <1>3 DEF LimiterInv, Sound

LEMMA SoundStep ==
  ASSUME UNCHANGED <<ideal, now>>, Sound(entries', limiter', permits'), Closes(entries', limiter'),
         limiter'.active = SumFunctionOnSet(permits', Keys)
  PROVE  LimiterInv'
<1>1. ideal' \in [Keys -> [tokens : Int, refill : Int]]
  BY DEF Sound, Types
<1>2. Forgets(entries, limiter)'
  BY DEF Sound, Forgets, Tokens
<1> QED BY <1>1, <1>2, SoundAgain DEF Sound

\* The permits of the keys, with one more or less.
LEMMA PermitsChange ==
  ASSUME NEW held \in [Keys -> Nat], NEW k \in Keys
  PROVE  /\ SumFunctionOnSet(held, Keys) \in Nat
         /\ SumFunctionOnSet([held EXCEPT ![k] = @ + 1], Keys) = SumFunctionOnSet(held, Keys) + 1
         /\ held[k] > 0 => /\ SumFunctionOnSet([held EXCEPT ![k] = @ - 1], Keys) = SumFunctionOnSet(held, Keys) - 1
                           /\ SumFunctionOnSet(held, Keys) > 0
<1>1. IsFiniteSet(Keys) /\ (\A i \in Keys : held[i] \in Nat) /\ (\A i \in Keys : held[i] \in Int)
  BY SMTT(30), RequestLimiterAssumption
<1>2. SumFunctionOnSet(held, Keys) \in Nat
  BY <1>1, SumIsNatural
<1>3. \A new \in [Keys -> Int] : (\A i \in Keys \ {k} : new[i] = held[i]) =>
        SumFunctionOnSet(new, Keys) = SumFunctionOnSet(held, Keys) - held[k] + new[k]
  <2> SUFFICES ASSUME NEW new \in [Keys -> Int], \A i \in Keys \ {k} : new[i] = held[i]
               PROVE  SumFunctionOnSet(new, Keys) = SumFunctionOnSet(held, Keys) - held[k] + new[k]
    OBVIOUS
  <2>1. \A i \in Keys : held[i] \in Int /\ new[i] \in Int
    BY <1>1
  <2>2. \A i \in Keys \ {k} : held[i] = new[i]
    OBVIOUS
  <2> QED BY SMTT(30), <1>1, <2>1, <2>2, SumChanges
<1>4. SumFunctionOnSet([held EXCEPT ![k] = @ + 1], Keys) = SumFunctionOnSet(held, Keys) + 1
  <2> DEFINE new == [held EXCEPT ![k] = @ + 1]
  <2>1. new \in [Keys -> Int] /\ new[k] = held[k] + 1 /\ \A i \in Keys \ {k} : new[i] = held[i]
    BY SMTT(30), <1>1
  <2> HIDE DEF new
  <2>2. SumFunctionOnSet(new, Keys) = SumFunctionOnSet(held, Keys) + 1
    BY SMTT(30), <1>1, <1>2, <1>3, <2>1
  <2> QED BY <2>2 DEF new
<1>5. ASSUME held[k] > 0
      PROVE  /\ SumFunctionOnSet([held EXCEPT ![k] = @ - 1], Keys) = SumFunctionOnSet(held, Keys) - 1
             /\ SumFunctionOnSet(held, Keys) > 0
  <2> DEFINE new == [held EXCEPT ![k] = @ - 1]
  <2>1. new \in [Keys -> Int] /\ new[k] = held[k] - 1 /\ \A i \in Keys \ {k} : new[i] = held[i]
    BY SMTT(30), <1>1
  <2>2. \A i \in Keys : new[i] \in Nat
    BY SMTT(30), <1>1, <1>5
  <2> HIDE DEF new
  <2>3. SumFunctionOnSet(new, Keys) = SumFunctionOnSet(held, Keys) - 1
    BY SMTT(30), <1>1, <1>2, <1>3, <2>1
  <2>4. SumFunctionOnSet(new, Keys) \in Nat
    BY <1>1, <2>2, SumIsNatural
  <2>5. SumFunctionOnSet(held, Keys) > 0
    BY SMTT(30), <1>2, <2>3, <2>4
  <2> QED BY <2>3, <2>5 DEF new
<1> QED BY <1>2, <1>4, <1>5

\* PruneExpired and Close scan the table.
LEMMA ScanStep ==
  ASSUME LimiterInv, PruneExpired \/ Close
  PROVE  LimiterInv'
<1> PICK l : /\ l = limiter \/ l = [limiter EXCEPT !.closed = TRUE]
             /\ entries' = Pruned(entries, l, FALSE).entries /\ limiter' = Pruned(entries, l, FALSE).limiter
             /\ UNCHANGED <<permits, ideal, now>>
  BY DEF PruneExpired, Close
<1>1. limiter \in Counters
  BY DEF LimiterInv, Sound, Types
<1>2. /\ l \in Counters /\ l.keyBytes = limiter.keyBytes /\ l.active = limiter.active /\ l.retry = limiter.retry
      /\ ~l.closed => ~limiter.closed
  BY <1>1 DEF Counters
<1>3. Sound(entries, l, permits)
  BY <1>2 DEF LimiterInv, Sound, Types, Counts, Forgets, Waits
<1>4. LET s == Pruned(entries, l, FALSE) IN
        /\ Sound(s.entries, s.limiter, permits) /\ Closes(s.entries, s.limiter)
        /\ DOMAIN s.entries \subseteq DOMAIN entries
        /\ s.limiter.active = l.active /\ s.limiter.closed = l.closed
  BY <1>3, PrunedIsSound
<1>5. Sound(entries', limiter', permits') /\ Closes(entries', limiter') /\ limiter'.active = limiter.active
  BY <1>2, <1>4
<1>6. limiter'.active = SumFunctionOnSet(permits', Keys)
  BY <1>5 DEF LimiterInv
<1> QED BY <1>5, <1>6, SoundStep

\* Reset gives one permit back; after Close it scans.
LEMMA ResetStep ==
  ASSUME LimiterInv, NEW k \in Keys, Reset(k)
  PROVE  LimiterInv'
<1> DEFINE table == [entries EXCEPT ![k].active = @ - 1, ![k].seen = now]
           held == [permits EXCEPT ![k] = @ - 1]
           s == IF limiter.closed THEN Pruned(table, Released, FALSE) ELSE [entries |-> table, limiter |-> Released]
<1>1. /\ permits[k] > 0 /\ permits' = held /\ entries' = s.entries /\ limiter' = s.limiter
      /\ UNCHANGED <<ideal, now>>
  BY DEF Reset
<1>2. /\ limiter \in Counters /\ now \in Nat /\ DOMAIN entries \subseteq Keys /\ permits \in [Keys -> Nat]
      /\ \A i \in DOMAIN entries : entries[i] \in Entry
      /\ \A i \in Keys : permits[i] = IF i \in DOMAIN entries THEN entries[i].active ELSE 0
  BY DEF LimiterInv, Sound, Types, Holders
<1>3. k \in DOMAIN entries /\ permits[k] = entries[k].active /\ entries[k] \in Entry
  BY SMTT(30), <1>1, <1>2
<1>4. /\ SumFunctionOnSet(held, Keys) = SumFunctionOnSet(permits, Keys) - 1
      /\ limiter.active = SumFunctionOnSet(permits, Keys) /\ limiter.active > 0
  BY <1>1, <1>2, PermitsChange DEF LimiterInv
<1>5. /\ held \in [Keys -> Nat] /\ held[k] = permits[k] - 1 /\ \A i \in Keys \ {k} : held[i] = permits[i]
  BY SMTT(30), <1>1, <1>2
<1>6. /\ DOMAIN table = DOMAIN entries /\ \A i \in DOMAIN entries \ {k} : table[i] = entries[i]
      /\ table[k] \in Entry /\ table[k].active = entries[k].active - 1
      /\ table[k].tokens = entries[k].tokens /\ table[k].refill = entries[k].refill
  <2> DEFINE f == [entries[k] EXCEPT !.active = entries[k].active - 1]
             e == [f EXCEPT !.seen = now]
  <2>1. DOMAIN table = DOMAIN entries /\ (\A i \in DOMAIN entries \ {k} : table[i] = entries[i]) /\ table[k] = e
    BY <1>3 DEF Entry
  <2>2. entries[k].active - 1 \in 0..MaxPerKey /\ now \in 0..now
    BY SMTT(30), <1>1, <1>2, <1>3, EntryFields, RequestLimiterAssumption
  <2>3. /\ f \in Entry /\ f.active = entries[k].active - 1 /\ f.tokens = entries[k].tokens
        /\ f.refill = entries[k].refill
    BY <1>3, <2>2 DEF Entry
  <2>4. e \in Entry /\ e.active = f.active /\ e.tokens = f.tokens /\ e.refill = f.refill
    <3> HIDE DEF f
    <3> QED BY <2>2, <2>3 DEF Entry
  <2> HIDE DEF f, e, table
  <2> QED BY <2>1, <2>3, <2>4
<1>7. /\ Released \in Counters /\ Released.active = limiter.active - 1 /\ Released.retry = 0
      /\ Released.keyBytes = limiter.keyBytes /\ Released.closed = limiter.closed
  <2> DEFINE f == [limiter EXCEPT !.active = limiter.active - 1]
  <2>1. limiter.active - 1 \in 0..MaxTotal /\ 0 \in 0..Never
    BY SMTT(30), <1>2, <1>4, RequestLimiterAssumption DEF Counters, Never
  <2>2. f \in Counters /\ f.active = limiter.active - 1 /\ f.keyBytes = limiter.keyBytes /\ f.closed = limiter.closed
    BY <1>2, <2>1 DEF Counters
  <2>3. Released = [f EXCEPT !.retry = 0]
    BY <1>2 DEF Released, Counters
  <2> HIDE DEF f
  <2> QED BY <2>1, <2>2, <2>3 DEF Counters
<1> HIDE DEF table, held
<1>8. Sound(table, Released, held)
  <2>1. Types(table, Released)
    BY <1>2, <1>3, <1>6, <1>7 DEF LimiterInv, Sound, Types
  <2>2. Counts(table, Released)
    BY <1>6, <1>7 DEF LimiterInv, Sound, Counts
  <2>3. Holders(table, held)
    BY <1>2, <1>3, <1>5, <1>6 DEF Holders
  <2>4. Forgets(table, Released)
    <3>1. \A i \in DOMAIN entries : Tokens(table[i]) = Tokens(entries[i])
      BY <1>3, <1>6 DEF Tokens
    <3> QED BY <1>6, <1>7, <3>1 DEF LimiterInv, Sound, Forgets
  <2>5. Waits(table, Released)
    BY SMTT(30), <1>2, <1>7 DEF Waits
  <2> QED BY <2>1, <2>2, <2>3, <2>4, <2>5 DEF Sound
<1>9. Sound(s.entries, s.limiter, held) /\ Closes(s.entries, s.limiter) /\ s.limiter.active = Released.active
  <2>1. CASE limiter.closed
    <3>1. LET t == Pruned(table, Released, FALSE) IN
            /\ Sound(t.entries, t.limiter, held) /\ Closes(t.entries, t.limiter)
            /\ DOMAIN t.entries \subseteq DOMAIN table
            /\ t.limiter.active = Released.active /\ t.limiter.closed = Released.closed
      BY <1>8, PrunedIsSound
    <3> QED BY <2>1, <3>1
  <2>2. CASE ~limiter.closed
    BY <1>7, <1>8, <2>2 DEF Closes
  <2> QED BY <2>1, <2>2
<1> HIDE DEF s
<1>10. limiter'.active = SumFunctionOnSet(permits', Keys)
  BY <1>1, <1>4, <1>7, <1>9
<1>11. Sound(entries', limiter', permits') /\ Closes(entries', limiter')
  BY <1>1, <1>9
<1> QED BY <1>1, <1>10, <1>11, SoundStep

\* Time passes.
LEMMA TickStep ==
  ASSUME LimiterInv, Tick
  PROVE  LimiterInv'
<1>1. now' = now + 1 /\ UNCHANGED <<entries, limiter, permits, ideal>>
  BY DEF Tick
<1>2. now \in Nat /\ limiter \in Counters /\ \A k \in DOMAIN entries : entries[k] \in Entry
  BY DEF LimiterInv, Sound, Types
<1>3. Types(entries, limiter)'
  <2>1. Entry \subseteq Entry'
    BY SMTT(30), <1>1, <1>2 DEF Entry
  <2>2. limiter' \in Counters' /\ now' \in Nat
    BY SMTT(30), <1>1, <1>2 DEF Counters, Never
  <2>3. \A k \in DOMAIN entries' : entries'[k] \in Entry'
    BY <1>1, <1>2, <2>1
  <2> QED BY <1>1, <2>2, <2>3 DEF LimiterInv, Sound, Types
<1>4. Counts(entries, limiter)' /\ Holders(entries, permits)' /\ Closes(entries, limiter)'
  BY <1>1 DEF LimiterInv, Sound, Counts, Holders, Closes
<1>5. Waits(entries, limiter)'
  <2>1. limiter.retry \in Nat
    BY SMTT(30), <1>2, RequestLimiterAssumption DEF Counters, Never
  <2>2. now' < limiter.retry => now < limiter.retry
    BY SMTT(30), <1>1, <1>2, <2>1
  <2> QED BY <1>1, <2>2 DEF LimiterInv, Sound, Waits, NotFullBefore
<1>6. Forgets(entries, limiter)'
  <2> DEFINE Later(t) == Least(Burst, t + Refill)
  <2>1. \A e : e.tokens \in Int /\ e.refill \in Int =>
          Least(Burst, e.tokens + Refill * (now' - e.refill)) = Later(Tokens(e))
    <3> SUFFICES ASSUME NEW e, e.tokens \in Int, e.refill \in Int
                 PROVE  Least(Burst, e.tokens + Refill * (now' - e.refill)) = Later(Tokens(e))
      OBVIOUS
    <3>1. Refill * (now' - e.refill) = Refill * (now - e.refill) + Refill /\ Refill * (now - e.refill) \in Int
      BY SMTT(30), <1>1, <1>2, RequestLimiterAssumption
    <3> QED BY SMTT(30), <3>1, RequestLimiterAssumption DEF Tokens, Least
  <2>2. \A k \in Keys : ideal[k].tokens \in Int /\ ideal[k].refill \in Int
    BY DEF LimiterInv, Sound, Types
  <2>3. \A k \in DOMAIN entries : entries[k].tokens \in Int /\ entries[k].refill \in Int
    BY SMTT(30), <1>2, EntryFields
  <2>4. Later(Burst) = Burst
    BY SMTT(30), RequestLimiterAssumption DEF Least
  <2> HIDE DEF Later
  <2>5. \A k \in Keys : Tokens(ideal[k])' = Later(Tokens(ideal[k]))
    BY <1>1, <2>1, <2>2 DEF Tokens
  <2>6. \A k \in DOMAIN entries : Tokens(entries[k])' = Later(Tokens(entries[k]))
    BY <1>1, <2>1, <2>3 DEF Tokens
  <2> QED BY <1>1, <2>4, <2>5, <2>6 DEF LimiterInv, Sound, Forgets
<1> QED BY <1>1, <1>3, <1>4, <1>5, <1>6 DEF LimiterInv, Sound

\* TryAcquire: refused for want of room, refused by the entry, or admitted.
LEMMA AcquireStep ==
  ASSUME LimiterInv, NEW k \in Keys, NEW cost \in Costs, TryAcquire(k, cost)
  PROVE  LimiterInv'
<1> DEFINE s == Found(k)
           T == s.entries
           L == s.limiter
           r == Refilled(T[k])
           e == [r EXCEPT !.seen = now]
           admitted == e.active < MaxPerKey /\ e.tokens >= cost
<1>1. /\ ~limiter.closed /\ limiter.active < MaxTotal /\ now' = now
      /\ IF k \notin DOMAIN T THEN entries' = T /\ limiter' = L /\ UNCHANGED <<permits, ideal>>
         ELSE IF ~admitted
         THEN entries' = [T EXCEPT ![k] = e] /\ limiter' = L /\ UNCHANGED <<permits, ideal>>
         ELSE /\ entries' = [T EXCEPT ![k] = [e EXCEPT !.tokens = @ - cost, !.active = @ + 1]]
              /\ limiter' = [L EXCEPT !.active = @ + 1]
              /\ permits' = [permits EXCEPT ![k] = @ + 1]
              /\ ideal' = [ideal EXCEPT ![k] = [tokens |-> Tokens(@) - cost, refill |-> now]]
  BY DEF TryAcquire
<1>2. /\ Types(T, L) /\ Counts(T, L) /\ Holders(T, permits) /\ Forgets(T, L)
      /\ ~L.closed /\ L.active = limiter.active
      /\ now < L.retry => \A i \in DOMAIN T : T[i].active = 0 =>
           NotFullBefore(T[i], L.retry) \/ (i = k /\ Tokens(T[i]) = Burst)
  <2>1. LET f == Found(k) IN
           /\ Types(f.entries, f.limiter) /\ Counts(f.entries, f.limiter)
           /\ Holders(f.entries, permits) /\ Forgets(f.entries, f.limiter)
           /\ ~f.limiter.closed /\ f.limiter.active = limiter.active
           /\ now < f.limiter.retry => \A i \in DOMAIN f.entries : f.entries[i].active = 0 =>
                NotFullBefore(f.entries[i], f.limiter.retry) \/ (i = k /\ Tokens(f.entries[i]) = Burst)
    BY <1>1, FoundIsSound
  <2> QED BY <2>1
<1> HIDE DEF s
<1>3. /\ now \in Nat /\ L \in Counters /\ DOMAIN T \subseteq Keys /\ (\A i \in DOMAIN T : T[i] \in Entry)
      /\ ideal \in [Keys -> [tokens : Int, refill : Int]] /\ permits \in [Keys -> Nat]
      /\ limiter.active = SumFunctionOnSet(permits, Keys) /\ L.retry \in Nat
      /\ Burst \in Nat /\ Refill \in Nat /\ MaxPerKey \in Nat \ {0} /\ cost \in Nat \ {0} /\ cost <= Burst
  BY SMTT(30), <1>2, RequestLimiterAssumption DEF Types, Holders, LimiterInv, Counters, Never
<1>4. CASE k \notin DOMAIN T
  <2>1. entries' = T /\ limiter' = L /\ UNCHANGED <<permits, ideal>>
    BY <1>1, <1>4
  <2>2. Waits(T, L)
    BY <1>2, <1>4 DEF Waits
  <2> QED BY <1>1, <1>2, <1>3, <2>1, <2>2, SoundStep DEF Sound, Closes
<1>5. ASSUME k \in DOMAIN T
      PROVE  /\ e \in Entry /\ e.active = T[k].active /\ e.tokens = Tokens(T[k]) /\ e.refill = now
             /\ Tokens(e) = Tokens(T[k]) /\ e.tokens \in 0..Burst /\ e.active \in Nat
             /\ \A m \in Nat : NotFullBefore(T[k], m) => NotFullBefore(e, m)
  <2>1. /\ r \in Entry /\ r.active = T[k].active /\ r.tokens = Tokens(T[k]) /\ r.refill = now
        /\ Tokens(r) = Tokens(T[k]) /\ \A m \in Nat : NotFullBefore(T[k], m) => NotFullBefore(r, m)
    BY <1>3, <1>5, RefilledFacts
  <2> HIDE DEF r
  <2>2. e \in Entry /\ e.active = r.active /\ e.tokens = r.tokens /\ e.refill = r.refill
    BY <1>3, <2>1 DEF Entry
  <2>3. e.tokens \in 0..Burst /\ e.active \in Nat
    BY SMTT(30), <2>2, <1>3 DEF Entry
  <2>4. Tokens(e) = Tokens(r) /\ \A m \in Nat : NotFullBefore(r, m) => NotFullBefore(e, m)
    BY <2>2 DEF Tokens, NotFullBefore
  <2> HIDE DEF e
  <2> QED BY <2>1, <2>2, <2>3, <2>4
<1> HIDE DEF e, r
<1>6. CASE k \in DOMAIN T /\ ~admitted
  <2> DEFINE U == [T EXCEPT ![k] = e]
  <2>1. entries' = U /\ limiter' = L /\ UNCHANGED <<permits, ideal>>
    BY <1>1, <1>6
  <2>2. DOMAIN U = DOMAIN T /\ U[k] = e /\ \A i \in DOMAIN T \ {k} : U[i] = T[i]
    BY <1>6
  <2> HIDE DEF U
  <2>3. Types(U, L) /\ Counts(U, L) /\ Holders(U, permits)
    BY <1>2, <1>5, <1>6, <2>2 DEF Types, Counts, Holders
  <2>4. Forgets(U, L)
    <3>1. \A i \in DOMAIN T : Tokens(U[i]) = Tokens(T[i])
      BY <1>5, <1>6, <2>2
    <3> QED BY <1>2, <2>2, <3>1 DEF Forgets
  <2>5. Waits(U, L)
    <3>1. e.active = 0 => Tokens(T[k]) # Burst
      BY SMTT(30), <1>3, <1>5, <1>6
    <3> QED BY <1>2, <1>3, <1>5, <1>6, <2>2, <3>1 DEF Waits
  <2> QED BY <1>1, <1>2, <1>3, <2>1, <2>3, <2>4, <2>5, SoundStep DEF Sound, Closes
<1>7. CASE k \in DOMAIN T /\ admitted
  <2> DEFINE c == [e EXCEPT !.tokens = @ - cost, !.active = @ + 1]
             U == [T EXCEPT ![k] = c]
             M == [L EXCEPT !.active = @ + 1]
             held == [permits EXCEPT ![k] = @ + 1]
             p == [tokens |-> Tokens(ideal[k]) - cost, refill |-> now]
  <2>1. entries' = U /\ limiter' = M /\ permits' = held /\ ideal' = [ideal EXCEPT ![k] = p]
    BY <1>1, <1>3, <1>7
  <2>2. /\ c \in Entry /\ c.tokens = e.tokens - cost /\ c.active = e.active + 1 /\ c.refill = now
    <3> DEFINE f == [e EXCEPT !.tokens = e.tokens - cost]
    <3>1. e.tokens - cost \in 0..Burst /\ e.active + 1 \in 0..MaxPerKey
      BY SMTT(30), <1>3, <1>5, <1>7
    <3>2. f \in Entry /\ f.tokens = e.tokens - cost /\ f.active = e.active /\ f.refill = now
      BY <1>5, <1>7, <3>1 DEF Entry
    <3>3. c = [f EXCEPT !.active = e.active + 1]
      BY <1>5, <1>7 DEF Entry
    <3> HIDE DEF f, c
    <3> QED BY <3>1, <3>2, <3>3 DEF Entry
  <2>3. /\ M \in Counters /\ M.active = limiter.active + 1 /\ M.keyBytes = L.keyBytes /\ M.closed = L.closed
        /\ M.retry = L.retry
    <3>1. L.active + 1 \in 0..MaxTotal
      BY SMTT(30), <1>1, <1>2, <1>3, RequestLimiterAssumption DEF Counters
    <3> QED BY <1>2, <1>3, <3>1 DEF Counters
  <2>4. /\ held \in [Keys -> Nat] /\ held[k] = permits[k] + 1 /\ \A i \in Keys \ {k} : held[i] = permits[i]
    BY SMTT(30), <1>3
  <2>5. SumFunctionOnSet(held, Keys) = SumFunctionOnSet(permits, Keys) + 1
    BY <1>3, PermitsChange
  <2> HIDE DEF c, M, held
  <2>6. DOMAIN U = DOMAIN T /\ U[k] = c /\ \A i \in DOMAIN T \ {k} : U[i] = T[i]
    BY <1>7
  <2> HIDE DEF U
  <2>7. Tokens(ideal[k]) = Tokens(T[k]) /\ Tokens(T[k]) \in Int
    BY SMTT(30), <1>2, <1>5, <1>7 DEF Forgets
  <2>8. ideal' \in [Keys -> [tokens : Int, refill : Int]]
    BY SMTT(30), <1>3, <2>1, <2>7
  <2>9. Types(U, M) /\ Counts(U, M) /\ Holders(U, held)
    BY SMTT(30), <1>2, <1>5, <1>7, <2>2, <2>3, <2>4, <2>6 DEF Types, Counts, Holders
  <2>10. Waits(U, M)
    BY SMTT(30), <1>2, <1>3, <1>5, <1>7, <2>2, <2>3, <2>6 DEF Waits
  <2>11. Forgets(entries, limiter)'
    <3>1. \A i \in Keys \ {k} : ideal'[i] = ideal[i]
      BY <1>3, <2>1
    <3>2. ideal'[k].tokens = c.tokens /\ ideal'[k].refill = c.refill
      BY <1>3, <1>5, <1>7, <2>1, <2>2, <2>7
    <3>3. Tokens(ideal[k])' = Tokens(entries[k])'
      BY <2>1, <2>6, <3>2 DEF Tokens
    <3>4. \A i \in Keys \ {k} : /\ Tokens(ideal[i])' = Tokens(ideal[i])
                                /\ i \in DOMAIN T => Tokens(entries[i])' = Tokens(T[i])
      BY <1>1, <2>1, <2>6, <3>1 DEF Tokens
    <3> QED BY <1>2, <1>7, <2>1, <2>6, <3>3, <3>4 DEF Forgets
  <2>12. limiter'.active = SumFunctionOnSet(permits', Keys)
    BY <1>3, <2>1, <2>3, <2>5
  <2>13. Closes(U, M)
    BY <1>2, <2>3 DEF Closes
  <2> QED BY <1>1, <2>1, <2>8, <2>9, <2>10, <2>11, <2>12, <2>13, SoundAgain
<1> QED BY <1>4, <1>6, <1>7

\* The empty table.
LEMMA LimiterInit ==
  ASSUME Init
  PROVE  LimiterInv
<1>1. DOMAIN entries = {}
  BY DEF Init
<1>2. SumFunctionOnSet(KeyBytes, DOMAIN entries) = 0 /\ Cardinality(DOMAIN entries) = 0
  BY <1>1, SumOfNone, FS_EmptySet
<1>3. SumFunctionOnSet(permits, Keys) = 0
  <2>1. \A k \in Keys : permits[k] = 0
    BY DEF Init
  <2> QED BY <2>1, RequestLimiterAssumption, SumOfZeros
<1>4. limiter \in Counters
  BY SMTT(30), RequestLimiterAssumption DEF Init, Counters, Never
<1>5. \A k \in Keys : Tokens(ideal[k]) = Burst
  BY SMTT(30), RequestLimiterAssumption DEF Init, Tokens, Least
<1>6. Types(entries, limiter)
  BY SMTT(30), <1>1, <1>4, RequestLimiterAssumption DEF Init, Types
<1>7. Counts(entries, limiter) /\ Holders(entries, permits)
  BY SMTT(30), <1>1, <1>2, RequestLimiterAssumption DEF Init, Counts, Holders
<1>8. Forgets(entries, limiter) /\ Waits(entries, limiter) /\ Closes(entries, limiter)
  BY <1>1, <1>5 DEF Forgets, Waits, Closes
<1> QED BY <1>3, <1>6, <1>7, <1>8 DEF Init, LimiterInv, Sound

\* The inductive invariant says what a caller relies on.
LEMMA LimiterInvIsEnough ==
  ASSUME LimiterInv
  PROVE  LimiterIsExact
<1>1. now \in Nat /\ limiter \in Counters /\ \A k \in DOMAIN entries : entries[k] \in Entry
  BY DEF LimiterInv, Sound, Types
<1>2. TypeOK
  BY <1>1 DEF LimiterInv, Sound, Types, TypeOK, Counters, Entry
<1>3. PermitsAreCounted
  BY DEF LimiterInv, Sound, Counts, Holders, Closes, PermitsAreCounted
<1>4. ForgettingIsInvisible
  BY DEF LimiterInv, Sound, Forgets, ForgettingIsInvisible
<1>5. PressureHidesNothing
  <2>1. SUFFICES ASSUME now < limiter.retry, NEW k \in DOMAIN entries, entries[k].active = 0
                 PROVE  ~limiter.closed /\ ~(Tokens(entries[k]) >= Burst)
    BY DEF PressureHidesNothing, Removable
  <2>2. ~limiter.closed
    BY SMTT(30), <1>1, <2>1 DEF LimiterInv, Closes
  <2>3. limiter.retry \in Nat /\ NotFullBefore(entries[k], limiter.retry)
    BY SMTT(30), <1>1, <2>1, RequestLimiterAssumption DEF LimiterInv, Sound, Waits, Counters, Never
  <2>4. Tokens(entries[k]) < Burst /\ Tokens(entries[k]) \in 0..Burst
    BY SMTT(30), <1>1, <2>1, <2>3, NotFullYet, TokensFacts, EntryFields
  <2> QED BY SMTT(30), <2>2, <2>4, RequestLimiterAssumption
<1> QED BY <1>2, <1>3, <1>4, <1>5 DEF LimiterIsExact

\* RequestLimiter, for any keys, lengths, rates and limits: permits and key bytes
\* are counted exactly within their bounds, an entry that Prune or TryAcquire
\* drops never gives its key a token it would not have had, and the scan that
\* pressureRetry leaves out would have found nothing.
THEOREM LimiterForgetsSafely == Spec => []LimiterIsExact
<1>1. LimiterInv /\ [Next]_vars => LimiterInv'
  <2> SUFFICES ASSUME LimiterInv, [Next]_vars
               PROVE  LimiterInv'
    OBVIOUS
  <2>1. CASE Tick
    BY <2>1, TickStep
  <2>2. CASE PruneExpired \/ Close
    BY <2>2, ScanStep
  <2>3. ASSUME NEW k \in Keys, Reset(k) PROVE LimiterInv'
    BY <2>3, ResetStep
  <2>4. ASSUME NEW k \in Keys, NEW cost \in Costs, TryAcquire(k, cost) PROVE LimiterInv'
    BY <2>4, AcquireStep
  <2>5. CASE UNCHANGED vars
    BY <2>5 DEF vars, LimiterInv, Sound, Types, Counts, Holders, Forgets, Waits, Closes, Entry, Counters,
                NotFullBefore, Tokens, Never
  <2> QED BY <2>1, <2>2, <2>3, <2>4, <2>5 DEF Next
<1> QED BY <1>1, LimiterInit, LimiterInvIsEnough, PTL DEF Spec

=============================================================================
