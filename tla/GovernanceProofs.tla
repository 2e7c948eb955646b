-------------------------- MODULE GovernanceProofs --------------------------
(* Proofs for the governed parts of the control plane: the process's cache,  *)
(* the rate limiter, the catalogue of tools, the product's knowledge, the    *)
(* client accounts, and backup and readiness.  They share no state.          *)
EXTENDS SharedCache, RateLimiter, ToolGovernance, KnowledgeStore, ClientAccounts,
        Operations, FiniteSetTheorems, SequenceTheorems, TLAPS

-----------------------------------------------------------------------------
(* The cache.  The second look is what makes the backend one: whoever is past  *)
(* the first look finds the instance of another there, so every thread holds   *)
(* the instance or nothing.                                                    *)
UserRow == [at : {"out", "resolve", "locked", "get"}, backend : {Unbuilt} \cup Nat, now : Nat]

CacheInv ==
    /\ second \in Nat /\ made \in Nat /\ entry \in {Unbuilt} \cup Nat
    /\ instance \in {Unbuilt} \cup Nat
    /\ user \in [Users -> UserRow]
    /\ \A u \in Users : user[u].backend \in {Unbuilt, instance} /\ user[u].now <= second
    /\ ~lost /\ ~served

LEMMA CacheInitInv == CacheInit => CacheInv
  BY CacheAssumption DEF CacheInit, CacheInv, UserRow, Outside, Absence

\* A thread's step that leaves the backend of the process as it is.
LEMMA UserStep ==
    ASSUME CacheInv, NEW u \in Users, NEW r \in UserRow, Do(u, r),
           r.backend \in {Unbuilt, instance}, r.now <= second,
           UNCHANGED <<second, instance, made>>, ~lost', ~served', entry' \in {Unbuilt} \cup Nat
    PROVE  CacheInv'
  BY DEF CacheInv, Do

LEMMA CacheNextInv == ASSUME CacheInv, [CacheNext]_cacheVars PROVE CacheInv'
<1> USE CacheAssumption
<1>1. CASE UNCHANGED cacheVars \/ SecondPasses
  BY <1>1 DEF CacheInv, cacheVars, SecondPasses, UserRow
<1>2. ASSUME NEW u \in Users,
             \/ GetCache(u) \/ LockResolver(u) \/ BeginGet(u) \/ FinishGet(u) \/ CacheDelete(u)
             \/ \E ttl \in TTLs : CacheSet(u, ttl)
      PROVE  CacheInv'
  <2>1. user[u] \in UserRow /\ user[u].backend \in {Unbuilt, instance} /\ user[u].now <= second
        /\ second \in Nat /\ instance \in {Unbuilt} \cup Nat /\ entry \in {Unbuilt} \cup Nat
    BY DEF CacheInv
  <2>2. CASE GetCache(u)
    BY <2>1, <2>2, UserStep DEF GetCache, UserRow, CacheInv
  <2>3. CASE LockResolver(u)
    BY <2>1, <2>3, UserStep DEF LockResolver, UserRow, CacheInv
  <2>4. CASE BeginGet(u)
    <3> DEFINE row == [user[u] EXCEPT !.at = "get", !.now = second]
    <3>1. row \in UserRow /\ row.backend = user[u].backend /\ row.now = second
      BY <2>1 DEF UserRow
    <3>2. ~lost' /\ ~served'
      BY <2>4 DEF BeginGet, CacheInv
    <3>3. Do(u, row) /\ UNCHANGED <<second, instance, made, entry>>
      BY <2>4 DEF BeginGet
    <3> HIDE DEF row
    <3> QED
      BY <2>1, <3>1, <3>2, <3>3, UserStep
  <2>5. CASE FinishGet(u)
    <3> DEFINE row == [user[u] EXCEPT !.at = "out", !.now = 0]
    <3>1. row \in UserRow /\ row.backend = user[u].backend /\ row.now = 0 /\ user[u].now \in Nat
      BY <2>1 DEF UserRow
    <3>2. Expired(user[u].now) => entry \in Nat /\ entry < second
      BY <2>1, <3>1 DEF Expired, Absence
    <3>3. entry' \in {Unbuilt} \cup Nat
      BY <2>1, <2>5 DEF FinishGet, Absence
    <3>4. ~lost'
      <4>1. lost' = (lost \/ (Expired(user[u].now) /\ entry >= second))
        BY <2>5 DEF FinishGet
      <4>2. ~ (Expired(user[u].now) /\ entry >= second)
        BY <2>1, <3>2
      <4> QED
        BY <4>1, <4>2 DEF CacheInv
    <3>5. ~served'
      BY <2>5 DEF FinishGet, CacheInv, Expired
    <3>6. Do(u, row) /\ UNCHANGED <<second, instance, made>>
      BY <2>5 DEF FinishGet
    <3> HIDE DEF row
    <3> QED
      BY <2>1, <3>1, <3>3, <3>4, <3>5, <3>6, UserStep
  <2>6. CASE CacheDelete(u) \/ \E ttl \in TTLs : CacheSet(u, ttl)
    BY <2>1, <2>6 DEF CacheDelete, CacheSet, CacheInv, Absence
  <2> QED
    BY <1>2, <2>2, <2>3, <2>4, <2>5, <2>6
<1>3. ASSUME NEW u \in Users, Resolve(u) PROVE CacheInv'
  <2>1. CASE instance # Unbuilt
    BY <1>3, <2>1 DEF Resolve, CacheInv, Do, Outside, UserRow
  <2>2. CASE instance = Unbuilt
    BY <1>3, <2>2 DEF Resolve, CacheInv, Do, Outside, UserRow
  <2> QED
    BY <2>1, <2>2
<1> QED
  BY <1>1, <1>2, <1>3 DEF CacheNext

\* For any threads and lifetimes: every thread is given the same backend, and an
\* entry is neither evicted before its time nor served after it.
THEOREM CacheHoldsAlways == CacheSpec => []CacheHolds
<1>1. CacheInv => CacheHolds
  BY DEF CacheInv, CacheHolds, OneBackend, ExpiryIsExact
<1> QED
  BY <1>1, CacheInitInv, CacheNextInv, PTL DEF CacheSpec

-----------------------------------------------------------------------------
(* The rate limiter.  A window opens at least a window's length after the one  *)
(* before it, in the time its opener read.  So of a stretch of that length at  *)
(* most the rest of one window and, for every opener that waited, a window     *)
(* more is admitted before a window opens inside the stretch, and after that   *)
(* no other does until the stretch is over.                                    *)
Counted == {i \in DOMAIN admitted : i > Len(admitted) - slot.count}

\* The bound on the n requests admitted in the stretch from t, while it lasts
\* and afterwards: p is what the windows opened late allow.
SpreadIs(t, n, start, count, now, p) ==
    /\ n <= p + 2 * Limit - 1
    /\ now < t + Window =>
        /\ start < t => n <= p + (IF count = 0 THEN 0 ELSE count - 1)
        /\ start >= t => n <= p + Limit - 1 + count
Spread(t) == SpreadIs(t, Cardinality(Within(t)), slot.start, slot.count, moment, Limit * stalled)

SlotInv ==
    /\ moment \in Nat /\ stalled \in Nat /\ ~unfair
    /\ read \in [Arrivals -> Int] /\ \A a \in Arrivals : read[a] >= -1 /\ read[a] <= moment
    /\ slot \in [start : Int, count : Nat]
    /\ slot = NoWindow \/ (slot.start >= 0 /\ slot.start <= moment /\ slot.count \in 1..Limit)
    /\ admitted \in Seq(Nat) /\ \A i \in DOMAIN admitted : admitted[i] <= moment
    /\ slot = NoWindow => admitted = <<>>
    /\ slot.count <= Len(admitted) /\ \A i \in Counted : admitted[i] >= slot.start

LimiterInv == SlotInv /\ \A t \in Nat : Spread(t)

LEMMA SlotFacts ==
    ASSUME SlotInv
    PROVE  /\ Len(admitted) \in Nat /\ DOMAIN admitted = 1..Len(admitted)
           /\ \A i \in DOMAIN admitted : admitted[i] \in Nat
  BY DEF SlotInv

\* What was admitted within a stretch is a finite set, and one more admission
\* makes it larger by one if it is inside and by none if it is not.
LEMMA WithinFacts ==
    ASSUME SlotInv, NEW t \in Nat
    PROVE  IsFiniteSet(Within(t)) /\ Cardinality(Within(t)) \in Nat
<1>1. Within(t) \subseteq 1..Len(admitted)
  BY SlotFacts DEF Within
<1>2. IsFiniteSet(1..Len(admitted))
  BY SlotFacts, FS_Interval
<1> QED
  BY <1>1, <1>2, FS_Subset, FS_CardinalityType

LEMMA WithinGrows ==
    ASSUME SlotInv, NEW t \in Nat, admitted' = Append(admitted, moment)
    PROVE  /\ Cardinality(Within(t)') <= Cardinality(Within(t)) + 1
           /\ Cardinality(Within(t)') \in Nat
           /\ moment \notin t..(t + Window - 1) => Within(t)' = Within(t)
<1>1. moment \in Nat /\ admitted \in Seq(Nat)
  BY DEF SlotInv
<1>2. /\ DOMAIN admitted' = DOMAIN admitted \cup {Len(admitted) + 1}
      /\ admitted'[Len(admitted) + 1] = moment
      /\ \A i \in DOMAIN admitted : admitted'[i] = admitted[i]
  BY <1>1, SlotFacts
<1>3. Within(t)' \subseteq Within(t) \cup {Len(admitted) + 1}
  BY <1>2 DEF Within
<1>4. IsFiniteSet(Within(t)) /\ Cardinality(Within(t)) \in Nat
  BY WithinFacts
<1>5. /\ IsFiniteSet(Within(t) \cup {Len(admitted) + 1})
      /\ Cardinality(Within(t) \cup {Len(admitted) + 1}) <= Cardinality(Within(t)) + 1
  <2> DEFINE W == Within(t)
             x == Len(admitted) + 1
  <2>1. IsFiniteSet(W \cup {x})
        /\ Cardinality(W \cup {x}) = IF x \in W THEN Cardinality(W) ELSE Cardinality(W) + 1
    BY <1>4, FS_AddElement
  <2> HIDE DEF W, x
  <2>2. Cardinality(W) \in Nat
    BY <1>4 DEF W
  <2>3. IsFiniteSet(W \cup {x}) /\ Cardinality(W \cup {x}) <= Cardinality(W) + 1
    BY <2>1, <2>2
  <2> QED
    BY <2>3 DEF W, x
<1>6. Cardinality(Within(t)') <= Cardinality(Within(t) \cup {Len(admitted) + 1})
      /\ Cardinality(Within(t)') \in Nat
      /\ Cardinality(Within(t) \cup {Len(admitted) + 1}) \in Nat
  BY <1>3, <1>5, FS_Subset, FS_CardinalityType
<1>7. Cardinality(Within(t)') <= Cardinality(Within(t)) + 1
  BY <1>4, <1>5, <1>6
<1>8. moment \notin t..(t + Window - 1) => Within(t)' = Within(t)
  BY <1>2, SlotFacts DEF Within
<1> QED
  BY <1>6, <1>7, <1>8

\* Nothing is admitted in a stretch that has not begun.
LEMMA WithinLater ==
    ASSUME SlotInv, NEW t \in Nat, moment < t
    PROVE  Cardinality(Within(t)) = 0
<1>1. Within(t) = {}
  BY LimiterAssumption DEF SlotInv, Within
<1> QED
  BY <1>1, FS_EmptySet

LEMMA WithinNone ==
    ASSUME NEW t \in Nat, admitted = <<>>
    PROVE  Cardinality(Within(t)) = 0
<1>1. Within(t) = {}
  BY DEF Within
<1> QED
  BY <1>1, FS_EmptySet

LEMMA LimiterInitInv == LimiterInit => LimiterInv
<1> SUFFICES ASSUME LimiterInit PROVE LimiterInv
  OBVIOUS
<1>1. SlotInv
  BY LimiterAssumption DEF LimiterInit, SlotInv, NoWindow, Counted
<1>2. ASSUME NEW t \in Nat PROVE Spread(t)
  <2>1. Cardinality(Within(t)) = 0
    BY WithinNone DEF LimiterInit
  <2> QED
    BY <2>1, LimiterAssumption DEF LimiterInit, Spread, SpreadIs, NoWindow
<1> QED
  BY <1>1, <1>2 DEF LimiterInv

\* A refusal is fair: the window that is full was filled less than a window's
\* length before the time the request read.
LEMMA FullIsRecent ==
    ASSUME SlotInv, NEW now \in Int, ~Over(now), Full(slot)
    PROVE  ~ (Cardinality({i \in DOMAIN admitted : admitted[i] > now - Window}) < Limit)
<1> DEFINE recent == {i \in DOMAIN admitted : admitted[i] > now - Window}
           first == Len(admitted) - slot.count + 1
<1>1. /\ slot.start \in Int /\ slot.count \in Nat /\ slot.count >= Limit
      /\ now - Window < slot.start /\ slot.count <= Len(admitted)
  BY LimiterAssumption DEF SlotInv, Over, Full
<1>2. first..Len(admitted) \subseteq recent
  <2> SUFFICES ASSUME NEW i \in first..Len(admitted) PROVE i \in recent
    OBVIOUS
  <2>1. i \in DOMAIN admitted /\ i > Len(admitted) - slot.count
    BY <1>1, SlotFacts
  <2>2. admitted[i] \in Nat /\ admitted[i] >= slot.start
    BY <2>1, SlotFacts DEF SlotInv, Counted
  <2>3. admitted[i] > now - Window
    BY <1>1, <2>2, LimiterAssumption
  <2> QED
    BY <2>1, <2>3
<1>3. recent \subseteq 1..Len(admitted) /\ IsFiniteSet(1..Len(admitted))
  BY SlotFacts, FS_Interval
<1>4. IsFiniteSet(recent)
  BY <1>3, FS_Subset
<1>5. Cardinality(first..Len(admitted)) = slot.count
  <2>1. first \in Int /\ Len(admitted) \in Int /\ first <= Len(admitted)
        /\ Len(admitted) - first + 1 = slot.count
    BY <1>1, SlotFacts, LimiterAssumption
  <2> HIDE DEF first
  <2> QED
    BY <2>1, FS_Interval
<1>6. Cardinality(first..Len(admitted)) <= Cardinality(recent) /\ Cardinality(recent) \in Nat
  BY <1>2, <1>4, FS_Subset, FS_CardinalityType
<1> QED
  BY <1>1, <1>5, <1>6, LimiterAssumption

\* What the critical section does, in one place.
LEMMA CheckStep ==
    ASSUME SlotInv, NEW a \in Arrivals, Check(a)
    PROVE  \E now \in Int :
             /\ now >= 0 /\ now <= moment /\ moment' = moment
             /\ read' = [read EXCEPT ![a] = -1]
             /\ \/ /\ Over(now) /\ slot' = [start |-> now, count |-> 1]
                   /\ admitted' = Append(admitted, moment) /\ ~unfair'
                   /\ stalled' = IF now < moment THEN stalled + 1 ELSE stalled
                \/ /\ ~Over(now) /\ slot.count < Limit
                   /\ slot' = [slot EXCEPT !.count = @ + 1]
                   /\ admitted' = Append(admitted, moment) /\ ~unfair' /\ stalled' = stalled
                \/ /\ ~Over(now) /\ UNCHANGED <<slot, admitted, stalled>> /\ ~unfair'
<1> DEFINE now == read[a]
           admits == Over(now) \/ ~Full(slot)
           recent == {i \in DOMAIN admitted : admitted[i] > now - Window}
<1>1. now \in Int /\ now >= 0 /\ now <= moment
  BY DEF SlotInv, Check
<1>2. /\ slot' = IF Over(now) THEN [start |-> now, count |-> 1]
                 ELSE IF admits THEN [slot EXCEPT !.count = @ + 1] ELSE slot
      /\ admitted' = IF admits THEN Append(admitted, moment) ELSE admitted
      /\ stalled' = IF Over(now) /\ now < moment THEN stalled + 1 ELSE stalled
      /\ unfair' = (unfair \/ (~admits /\ Cardinality(recent) < Limit))
      /\ read' = [read EXCEPT ![a] = -1] /\ moment' = moment
  BY DEF Check
<1>3. ~Full(slot) => slot.count < Limit
  BY LimiterAssumption DEF Full, SlotInv
<1>4. ~admits => ~ (Cardinality(recent) < Limit)
  BY <1>1, FullIsRecent
<1>5. ~unfair'
  BY <1>2, <1>4 DEF SlotInv
<1> HIDE DEF now, recent
<1> QED
  BY <1>1, <1>2, <1>3, <1>5

LEMMA CheckSlot == ASSUME SlotInv, NEW a \in Arrivals, Check(a) PROVE SlotInv'
<1> PICK now \in Int :
      /\ now >= 0 /\ now <= moment /\ moment' = moment
      /\ read' = [read EXCEPT ![a] = -1]
      /\ \/ /\ Over(now) /\ slot' = [start |-> now, count |-> 1]
            /\ admitted' = Append(admitted, moment) /\ ~unfair'
            /\ stalled' = IF now < moment THEN stalled + 1 ELSE stalled
         \/ /\ ~Over(now) /\ slot.count < Limit
            /\ slot' = [slot EXCEPT !.count = @ + 1]
            /\ admitted' = Append(admitted, moment) /\ ~unfair' /\ stalled' = stalled
         \/ /\ ~Over(now) /\ UNCHANGED <<slot, admitted, stalled>> /\ ~unfair'
  BY CheckStep
<1>1. /\ moment \in Nat /\ moment' = moment /\ stalled' \in Nat /\ ~unfair'
      /\ read' \in [Arrivals -> Int] /\ \A b \in Arrivals : read'[b] >= -1 /\ read'[b] <= moment
  BY DEF SlotInv
<1>2. CASE UNCHANGED <<slot, admitted>>
  BY <1>1, <1>2 DEF SlotInv, Counted, NoWindow
<1>3. CASE admitted' = Append(admitted, moment)
  <2>1. /\ admitted' \in Seq(Nat) /\ Len(admitted') = Len(admitted) + 1 /\ Len(admitted) \in Nat
        /\ DOMAIN admitted' = DOMAIN admitted \cup {Len(admitted) + 1}
        /\ DOMAIN admitted = 1..Len(admitted)
        /\ admitted'[Len(admitted) + 1] = moment
        /\ \A i \in DOMAIN admitted : admitted'[i] = admitted[i]
    BY SMTT(40), <1>3 DEF SlotInv
  <2>2. \A i \in DOMAIN admitted' : admitted'[i] <= moment
    <3>1. \A i \in DOMAIN admitted : admitted[i] <= moment
      BY DEF SlotInv
    <3>2. moment <= moment
      BY <1>1
    <3> QED
      BY <2>1, <3>1, <3>2
  <2>3. CASE Over(now) /\ slot' = [start |-> now, count |-> 1]
    <3>1. slot' \in [start : Int, count : Nat] /\ slot'.start = now /\ slot'.count = 1
      BY <2>3
    <3>2. slot' # NoWindow
      BY <3>1 DEF NoWindow
    <3>3. 1 \in 1..Limit /\ 1 <= Len(admitted')
      BY <2>1, LimiterAssumption
    <3>4. \A i \in DOMAIN admitted' : i > Len(admitted') - 1 => admitted'[i] >= now
      BY <1>1, <2>1
    <3> QED
      BY <1>1, <2>1, <2>2, <3>1, <3>2, <3>3, <3>4 DEF SlotInv, Counted
  <2>4. CASE ~Over(now) /\ slot.count < Limit /\ slot' = [slot EXCEPT !.count = @ + 1]
    <3>1. /\ slot.start \in Int /\ slot.count \in Nat /\ slot.start >= 0 /\ slot.start <= moment
          /\ slot.count \in 1..Limit /\ slot.count <= Len(admitted)
          /\ \A i \in DOMAIN admitted : i > Len(admitted) - slot.count => admitted[i] >= slot.start
      BY <2>4 DEF SlotInv, Over, Counted
    <3>2. /\ slot' \in [start : Int, count : Nat]
          /\ slot'.start = slot.start /\ slot'.count = slot.count + 1
      <4>1. slot \in [start : Int, count : Nat]
        BY DEF SlotInv
      <4> QED
        BY <2>4, <4>1
    <3>3. slot' # NoWindow
      BY <3>1, <3>2 DEF NoWindow
    <3>4. slot'.count \in 1..Limit /\ slot'.count <= Len(admitted')
      BY SMTT(40), <2>1, <2>4, <3>1, <3>2, LimiterAssumption
    <3>5. ASSUME NEW i \in DOMAIN admitted', i > Len(admitted') - slot'.count
          PROVE  admitted'[i] >= slot'.start
      <4>1. CASE i = Len(admitted) + 1
        BY <1>1, <2>1, <3>1, <3>2, <4>1
      <4>2. CASE i \in DOMAIN admitted
        <5>1. i > Len(admitted) - slot.count
          BY SMTT(40), <2>1, <3>1, <3>2, <3>5, <4>2
        <5> QED
          BY <2>1, <3>1, <3>2, <4>2, <5>1
      <4> QED
        BY <2>1, <4>1, <4>2
    <3> QED
      BY <1>1, <2>1, <2>2, <3>1, <3>2, <3>3, <3>4, <3>5 DEF SlotInv, Counted
  <2> QED
    BY <1>3, <2>1, <2>3, <2>4, <1>2
<1> QED
  BY <1>2, <1>3

\* The products with the limit, which the solver is given as they are needed.
LEMMA LimitTimes ==
    /\ stalled \in Nat => Limit * stalled \in Nat /\ Limit * (stalled + 1) = Limit * stalled + Limit
    /\ \A n \in Nat : n <= Limit * stalled + 2 * Limit - 1 /\ stalled \in Nat
                         => n < Limit * (2 + stalled)
<1>1. Limit \in Nat /\ Limit >= 1
  BY LimiterAssumption
<1>2. ASSUME stalled \in Nat
      PROVE  /\ Limit * stalled \in Nat /\ Limit * (stalled + 1) = Limit * stalled + Limit
             /\ Limit * (2 + stalled) = Limit * stalled + 2 * Limit
  BY <1>1, <1>2
<1> QED
  BY <1>1, <1>2

LEMMA SpreadAdmits ==
    ASSUME NEW t \in Nat, NEW n \in Nat, NEW m \in Nat, NEW start \in Int, NEW count \in Nat,
           NEW now \in Nat, NEW p \in Nat,
           SpreadIs(t, n, start, count, now, p), m <= n + 1, count >= 1, count < Limit,
           now < t + Window
    PROVE  SpreadIs(t, m, start, count + 1, now, p)
  BY LimiterAssumption DEF SpreadIs

\* The window before has begun before the stretch.
LEMMA SpreadOpens ==
    ASSUME NEW t \in Nat, NEW n \in Nat, NEW m \in Nat, NEW start \in Int, NEW count \in Nat,
           NEW now \in Nat, NEW seen \in Nat, NEW p \in Nat, NEW q \in Nat,
           SpreadIs(t, n, start, count, now, p), m <= n + 1, count <= Limit,
           count = 0 => n = 0, count # 0 => seen - start >= Window, seen <= now,
           q = IF seen < now THEN p + Limit ELSE p, now >= t, now < t + Window
    PROVE  SpreadIs(t, m, seen, 1, now, q)
<1>1. Limit \in Nat /\ Limit >= 1 /\ Window \in Nat
  BY LimiterAssumption
<1>2. n <= p + Limit - 1
  BY <1>1 DEF SpreadIs
<1>3. CASE seen < now
  BY <1>1, <1>2, <1>3 DEF SpreadIs
<1>4. CASE seen >= now
  BY <1>1, <1>2, <1>4 DEF SpreadIs
<1> QED
  BY <1>3, <1>4

\* A request outside the stretch.
LEMMA SpreadAway ==
    ASSUME NEW t \in Nat, NEW n \in Nat, NEW start \in Int, NEW count \in Nat,
           NEW begun \in Int, NEW counted \in Nat,
           NEW now \in Nat, NEW p \in Nat, NEW q \in Nat, q >= p,
           SpreadIs(t, n, start, count, now, p),
           begun <= now, counted >= 1, now < t => n = 0, now < t \/ now >= t + Window
    PROVE  SpreadIs(t, n, begun, counted, now, q)
  BY LimiterAssumption DEF SpreadIs

LEMMA CheckSpread ==
    ASSUME LimiterInv, NEW a \in Arrivals, Check(a), NEW t \in Nat
    PROVE  Spread(t)'
<1> DEFINE n == Cardinality(Within(t))
           p == Limit * stalled
           m == Cardinality(Within(t)')
           q == Limit * stalled'
<1>1. SlotInv /\ SlotInv' /\ n \in Nat
  BY CheckSlot, WithinFacts DEF LimiterInv
<1>2. /\ stalled \in Nat /\ stalled' \in Nat /\ moment \in Nat
      /\ p \in Nat /\ Limit * (stalled + 1) = p + Limit
  BY <1>1, LimitTimes DEF SlotInv
<1>3. SpreadIs(t, n, slot.start, slot.count, moment, p)
  BY DEF LimiterInv, Spread
<1>4. Spread(t)' <=> SpreadIs(t, m, slot'.start, slot'.count, moment', q)
  BY DEF Spread, SpreadIs
<1>5. /\ slot.start \in Int /\ slot.count \in Nat /\ slot.count <= Limit
      /\ slot.count = 0 => slot = NoWindow /\ n = 0
      /\ slot.count # 0 => slot # NoWindow /\ slot.start <= moment
  <2>1. slot \in [start : Int, count : Nat] /\ (slot = NoWindow => admitted = <<>>)
        /\ (slot = NoWindow \/ (slot.start >= 0 /\ slot.start <= moment /\ slot.count \in 1..Limit))
    BY <1>1 DEF SlotInv
  <2>2. slot = NoWindow => n = 0 /\ slot.count = 0
    BY <2>1, WithinNone DEF NoWindow
  <2>3. slot.start \in Int /\ slot.count \in Nat
    BY <2>1
  <2> HIDE DEF n
  <2> QED
    BY ONLY <2>1, <2>2, <2>3, LimiterAssumption
<1>6. PICK now \in Int :
      /\ now >= 0 /\ now <= moment /\ moment' = moment
      /\ \/ /\ Over(now) /\ slot' = [start |-> now, count |-> 1]
            /\ admitted' = Append(admitted, moment)
            /\ stalled' = IF now < moment THEN stalled + 1 ELSE stalled
         \/ /\ ~Over(now) /\ slot.count < Limit
            /\ slot' = [slot EXCEPT !.count = @ + 1]
            /\ admitted' = Append(admitted, moment) /\ stalled' = stalled
         \/ ~Over(now) /\ UNCHANGED <<slot, admitted, stalled>>
  BY <1>1, CheckStep
<1>7. CASE UNCHANGED <<slot, admitted, stalled>>
  <2>1. m = n /\ q = p /\ moment' = moment
    BY <1>6, <1>7 DEF Within
  <2> QED
    BY <1>3, <1>4, <1>7, <2>1
<1>8. ASSUME admitted' = Append(admitted, moment)
      PROVE  /\ m \in Nat /\ m <= n + 1
             /\ (moment < t \/ moment >= t + Window) => m = n
             /\ moment < t => n = 0
  <2>1. moment \notin t..(t + Window - 1) <=> (moment < t \/ moment >= t + Window)
    BY <1>2, LimiterAssumption
  <2> QED
    BY <1>1, <1>8, <2>1, WithinGrows, WithinLater
<1> HIDE DEF n, p, m, q
<1>9. ASSUME ~Over(now), slot.count < Limit, slot' = [slot EXCEPT !.count = @ + 1],
             admitted' = Append(admitted, moment), stalled' = stalled
      PROVE  Spread(t)'
  <2>1. slot.count >= 1
    BY ONLY <1>5, <1>9 DEF Over
  <2>2. slot'.start = slot.start /\ slot'.count = slot.count + 1
    <3>1. slot \in [start : Int, count : Nat]
      BY ONLY <1>1 DEF SlotInv
    <3> QED
      BY ONLY <1>9, <3>1
  <2>3. q = p /\ moment' = moment
    BY <1>6, <1>9 DEF q, p
  <2>4. m \in Nat /\ m <= n + 1 /\ n \in Nat
    BY ONLY <1>1, <1>8, <1>9
  <2>5. slot.count < Limit
    BY ONLY <1>9
  <2>6. CASE moment < t + Window
    <3>1. SpreadIs(t, m, slot.start, slot.count + 1, moment, p)
      BY ONLY t \in Nat, <1>2, <1>3, <1>5, <2>1, <2>4, <2>5, <2>6, SpreadAdmits
    <3> QED
      BY ONLY <1>4, <2>2, <2>3, <3>1
  <2>7. CASE moment >= t + Window
    <3>1. m = n
      BY ONLY <1>8, <1>9, <2>7
    <3>2. SpreadIs(t, m, slot.start, slot.count + 1, moment, p)
      BY ONLY <1>3, <2>7, <3>1, t \in Nat, <1>2, LimiterAssumption DEF SpreadIs
    <3> QED
      BY ONLY <1>4, <2>2, <2>3, <3>2
  <2> QED
    BY <1>2, <2>6, <2>7, LimiterAssumption
<1>10. ASSUME Over(now), slot' = [start |-> now, count |-> 1],
              admitted' = Append(admitted, moment),
              stalled' = IF now < moment THEN stalled + 1 ELSE stalled
       PROVE  Spread(t)'
  <2>1. now \in Nat /\ now <= moment /\ moment' = moment
    BY <1>6
  <2>2. slot'.start = now /\ slot'.count = 1
    BY ONLY <1>10
  <2>3. q \in Nat /\ q = IF now < moment THEN p + Limit ELSE p
    <3>1. q \in Nat
      <4>1. \A i, j \in Nat : i * j \in Nat
        OBVIOUS
      <4>2. Limit \in Nat /\ stalled' \in Nat
        BY <1>2, LimiterAssumption
      <4> QED
        BY ONLY <4>1, <4>2 DEF q
    <3>2. CASE now < moment
      BY ONLY <1>2, <1>10, <3>1, <3>2 DEF q
    <3>3. CASE ~ (now < moment)
      BY ONLY <1>2, <1>10, <3>1, <3>3 DEF q, p
    <3> QED
      BY ONLY <3>1, <3>2, <3>3
  <2>4. m \in Nat /\ m <= n + 1 /\ n \in Nat
    BY ONLY <1>1, <1>8, <1>10
  <2>5. slot.count # 0 => now - slot.start >= Window
    BY ONLY <1>5, <1>10 DEF Over
  <2>6. SpreadIs(t, m, now, 1, moment, q)
    <3>1. CASE moment >= t /\ moment < t + Window
      BY ONLY t \in Nat, <1>2, <1>3, <1>5, <2>1, <2>3, <2>4, <2>5, <3>1, SpreadOpens
    <3>2. CASE moment < t \/ moment >= t + Window
      <4>1. m = n /\ (moment < t => n = 0)
        BY ONLY <1>8, <1>10, <3>2
      <4>2. q >= p
        BY ONLY <1>2, <2>3, LimiterAssumption
      <4>3. SpreadIs(t, n, now, 1, moment, q)
        <5>1. now \in Int /\ 1 \in Nat /\ 1 >= 1 /\ q \in Nat
          BY ONLY <2>1, <2>3
        <5>2. t \in Nat /\ moment \in Nat /\ p \in Nat /\ n \in Nat /\ now <= moment
              /\ slot.start \in Int /\ slot.count \in Nat
          BY <1>1, <1>2, <1>5, <2>1
        <5> QED
          BY ONLY <1>3, <3>2, <4>1, <4>2, <5>1, <5>2, SpreadAway
      <4> QED
        BY ONLY <4>1, <4>3
    <3> QED
      BY <1>2, <3>1, <3>2, LimiterAssumption
  <2> QED
    BY ONLY <1>4, <2>1, <2>2, <2>6
<1> QED
  BY <1>6, <1>7, <1>9, <1>10

LEMMA LimiterNextInv == ASSUME LimiterInv, [LimiterNext]_limiterVars PROVE LimiterInv'
<1> USE LimiterAssumption
<1>0. SlotInv
  BY DEF LimiterInv
<1>1. CASE UNCHANGED limiterVars
  <2>1. SlotInv'
    BY <1>0, <1>1 DEF limiterVars, SlotInv, Counted, NoWindow
  <2>2. ASSUME NEW t \in Nat PROVE Spread(t)'
    BY <1>1 DEF limiterVars, LimiterInv, Spread, SpreadIs, Within
  <2> QED
    BY <2>1, <2>2 DEF LimiterInv
<1>2. CASE LimiterTick
  <2>1. SlotInv'
    <3>1. moment' \in Nat /\ moment' > moment /\ moment \in Nat
      BY <1>0, <1>2 DEF LimiterTick, SlotInv
    <3>2. UNCHANGED <<slot, read, admitted, stalled, unfair>>
      BY <1>2 DEF LimiterTick
    <3>3. \A i \in DOMAIN admitted : admitted[i] \in Nat
      BY <1>0, SlotFacts
    <3> QED
      BY <1>0, <3>1, <3>2, <3>3 DEF SlotInv, Counted, NoWindow
  <2>2. ASSUME NEW t \in Nat PROVE Spread(t)'
    <3>1. /\ UNCHANGED <<slot, stalled, admitted>> /\ moment' = moment + 1 /\ moment \in Nat
          /\ Within(t)' = Within(t) /\ Spread(t)
      BY <1>0, <1>2 DEF LimiterTick, SlotInv, LimiterInv, Within
    <3> QED
      BY <3>1 DEF Spread, SpreadIs
  <2> QED
    BY <2>1, <2>2 DEF LimiterInv
<1>3. ASSUME NEW a \in Arrivals, ReadTime(a) PROVE LimiterInv'
  <2>1. SlotInv'
    BY <1>0, <1>3 DEF ReadTime, SlotInv, Counted, NoWindow
  <2>2. ASSUME NEW t \in Nat PROVE Spread(t)'
    BY <1>3 DEF ReadTime, LimiterInv, Spread, SpreadIs, Within
  <2> QED
    BY <2>1, <2>2 DEF LimiterInv
<1>4. ASSUME NEW a \in Arrivals, Check(a) PROVE LimiterInv'
  BY <1>0, <1>4, CheckSlot, CheckSpread DEF LimiterInv
<1> QED
  BY <1>1, <1>2, <1>3, <1>4 DEF LimiterNext

\* For any number of threads, limit and window: in any stretch of a window's
\* length less than twice the limit is admitted, and a limit more for every
\* window a thread that waited opened; nobody is refused but by a full window.
THEOREM LimitHoldsAlways == LimiterSpec => []LimitHolds
<1>1. ASSUME LimiterInv PROVE LimitHolds
  <2>1. SlotInv /\ stalled \in Nat
    BY <1>1 DEF LimiterInv, SlotInv
  <2>2. ASSUME NEW t \in 0..MaxMoment PROVE Cardinality(Within(t)) < Limit * (2 + stalled)
    <3>1. t \in Nat
      BY LimiterAssumption
    <3>2. Cardinality(Within(t)) <= Limit * stalled + 2 * Limit - 1
      BY <1>1, <3>1 DEF LimiterInv, Spread, SpreadIs
    <3> QED
      BY <2>1, <3>1, <3>2, WithinFacts, LimitTimes
  <2> QED
    BY <2>1, <2>2 DEF LimitHolds, BurstBounded, RefusedOnlyWhenFull, SlotInv
<1> QED
  BY <1>1, LimiterInitInv, LimiterNextInv, PTL DEF LimiterSpec

-----------------------------------------------------------------------------
(* The catalogue of tools.  What has to be carried between the judgement of a  *)
(* request and its commit: the gates the tool has passed by then are passed    *)
(* for good, so a transition that was judged when they were stays right; that  *)
(* nothing else is in transit if the tool is not contested; and that what was  *)
(* asked of its status still holds if no commit came in between.               *)
Officer == [at : {"free", "transit", "bind", "unbind", "ticket"},
            tool : CatalogTools \cup {Absent}, agent : BoundAgents \cup {Absent},
            product : Products \cup {Absent}, to : ToolStatus \cup {"none"},
            authority : Proposers \cup {"none"}, binding : (1..MaxBindings) \cup {Absent}]

BindingRow == [id : 1..MaxBindings, tool : CatalogTools, agent : BoundAgents,
               product : Products, credential : [product : Products, key : {0, 1}]]

\* The gates a tool has behind it in a status.
GatesOf(status) ==
    IF status = "REVIEWED" THEN {"REVIEWED"}
    ELSE IF status \in {"APPROVED", "ENABLED", "DISABLED"} THEN {"REVIEWED", "APPROVED"} ELSE {}

OfficerInv(q) ==
    LET o == officers[q] IN
    /\ o.at = "transit" =>
        /\ o.tool \in CatalogTools /\ o.to \in ToolStatus /\ catalog[o.tool] # Absent
        /\ GatesOf(o.to) \ {o.to} \subseteq granted[o.tool]
        /\ o.to \in {"REVIEWED", "APPROVED"} => o.authority \in Proper(o.to)
        /\ o.tool \notin contested => catalog[o.tool] # "REVOKED"
    /\ o.at \in {"bind", "ticket"} =>
        o.tool \in CatalogTools /\ o.agent \in BoundAgents /\ o.product = AgentHome[o.agent]
    /\ o.at = "bind" /\ q \notin overhauled => catalog[o.tool] \in Bindable
    /\ o.at = "ticket" /\ q \notin overhauled => catalog[o.tool] = "ENABLED"

CatalogInv ==
    /\ catalog \in [CatalogTools -> ToolStatus \cup {Absent}]
    /\ owner \in [CatalogTools -> Products \cup {Absent}]
    /\ granted \in [CatalogTools -> SUBSET {"REVIEWED", "APPROVED"}]
    /\ contested \subseteq CatalogTools /\ overhauled \subseteq Officers
    /\ \A t \in CatalogTools : GatesOf(catalog[t]) \subseteq granted[t]

BindingsInv ==
    /\ bindings \subseteq BindingRow /\ bound \in 0..MaxBindings
    /\ vaultKey \in {0, 1} /\ tickets \subseteq 1..MaxBindings
    /\ \A b \in bindings : /\ b.product = AgentHome[b.agent] /\ b.credential.product = b.product
                           /\ vaultKey = 0 => b.credential.key = 0
    /\ \A b, c \in bindings : b.tool = c.tool /\ b.agent = c.agent => b = c

GovInv ==
    /\ CatalogInv /\ BindingsInv
    /\ officers \in [Officers -> Officer] /\ \A q \in Officers : OfficerInv(q)
    /\ \A q, r \in Officers :
          /\ officers[q].at = "transit" /\ officers[r].at = "transit"
          /\ officers[q].tool = officers[r].tool /\ officers[q].tool \notin contested
          => q = r

-----------------------------------------------------------------------------
USE GovernanceAssumption, NoRowAssumption

LEMMA RuleFacts ==
    ASSUME NEW from \in ToolStatus, NEW to \in ToolStatus, NEW authority \in Rules(from, to)
    PROVE  /\ GatesOf(to) \ {to} \subseteq GatesOf(from)
           /\ to \in {"REVIEWED", "APPROVED"} => authority \in Proper(to)
           /\ from # "REVOKED"
  BY DEF Rules, ToolStatus, GatesOf, Proper, Reviewers, Governors

LEMMA AvailableIsOfficer == Available \in Officer /\ Available.at = "free"
  BY DEF Available, Officer

LEMMA OfficerFacts ==
    ASSUME GovInv, NEW q \in Officers
    PROVE  officers[q] \in Officer /\ OfficerInv(q)
  BY DEF GovInv

LEMMA OfficerAfter ==
    ASSUME GovInv, NEW q \in Officers, NEW r \in Officer, Assume(q, r)
    PROVE  /\ officers' \in [Officers -> Officer]
           /\ \A p \in Officers : officers'[p] = IF p = q THEN r ELSE officers[p]
  BY DEF GovInv, Assume

LEMMA GovInitInv == GovInit => GovInv
<1> SUFFICES ASSUME GovInit PROVE GovInv
  OBVIOUS
<1>1. CatalogInv
  BY DEF GovInit, CatalogInv, GatesOf, ToolStatus
<1>2. BindingsInv
  BY DEF GovInit, BindingsInv
<1>3. officers \in [Officers -> Officer] /\ \A q \in Officers : officers[q] = Available
  BY AvailableIsOfficer DEF GovInit
<1> QED
  BY <1>1, <1>2, <1>3, AvailableIsOfficer DEF GovInv, OfficerInv

\* A step of one request that leaves the catalogue as it is and judges no transition.
LEMMA QuietStep ==
    ASSUME GovInv, NEW q \in Officers, NEW r \in Officer, Assume(q, r), BindingsInv',
           UNCHANGED <<catalog, owner, granted, contested>>,
           overhauled' \subseteq overhauled, overhauled \ {q} \subseteq overhauled',
           r.at # "transit",
           r.at \in {"bind", "ticket"} =>
               /\ r.tool \in CatalogTools /\ r.agent \in BoundAgents /\ r.product = AgentHome[r.agent]
               /\ r.at = "bind" => catalog[r.tool] \in Bindable
               /\ r.at = "ticket" => catalog[r.tool] = "ENABLED"
    PROVE  GovInv'
<1>1. /\ officers' \in [Officers -> Officer]
      /\ \A p \in Officers : officers'[p] = IF p = q THEN r ELSE officers[p]
  BY OfficerAfter
<1>2. CatalogInv'
  BY DEF GovInv, CatalogInv, GatesOf
<1>3. ASSUME NEW p \in Officers PROVE OfficerInv(p)'
  <2>1. CASE p = q
    BY <1>1, <2>1 DEF OfficerInv
  <2>2. CASE p # q
    <3>1. OfficerInv(p) /\ officers'[p] = officers[p] /\ (p \in overhauled' <=> p \in overhauled)
      BY <1>1, <2>2, OfficerFacts
    <3> QED
      BY <3>1 DEF OfficerInv
  <2> QED
    BY <2>1, <2>2
<1>4. \A p, o \in Officers :
         /\ officers'[p].at = "transit" /\ officers'[o].at = "transit"
         /\ officers'[p].tool = officers'[o].tool /\ officers'[p].tool \notin contested'
         => p = o
  BY <1>1 DEF GovInv
<1> QED
  BY <1>1, <1>2, <1>3, <1>4 DEF GovInv

LEMMA BindingsKept ==
    ASSUME GovInv, UNCHANGED <<bound, vaultKey>>, bindings' \subseteq bindings,
           tickets' \subseteq tickets \cup {b.id : b \in bindings}
    PROVE  BindingsInv'
<1>1. BindingsInv
  BY DEF GovInv
<1>2. \A b \in bindings : b.id \in 1..MaxBindings
  BY <1>1 DEF BindingsInv, BindingRow
<1> QED
  BY <1>1, <1>2 DEF BindingsInv

LEMMA RegisterToolInv ==
    ASSUME GovInv, NEW t \in CatalogTools, NEW p \in Products \cup {Absent}, RegisterTool(t, p)
    PROVE  GovInv'
<1>1. CatalogInv'
  BY DEF GovInv, CatalogInv, RegisterTool, GatesOf, ToolStatus
<1>2. BindingsInv'
  BY BindingsKept DEF RegisterTool
<1>3. ASSUME NEW q \in Officers PROVE OfficerInv(q)'
  <2>1. OfficerInv(q) /\ officers' = officers
    BY OfficerFacts DEF RegisterTool
  <2>2. /\ catalog[t] = Absent /\ catalog'[t] = "DISCOVERED" /\ Absent \notin Bindable
        /\ \A x \in CatalogTools : x # t => catalog'[x] = catalog[x]
        /\ UNCHANGED <<granted, contested, overhauled>> /\ Absent \notin {"DISCOVERED", "ENABLED"}
    BY DEF RegisterTool, GovInv, CatalogInv, Bindable, ToolStatus
  <2> QED
    BY <2>1, <2>2 DEF OfficerInv
<1> QED
  BY <1>1, <1>2, <1>3 DEF GovInv, RegisterTool

LEMMA JudgeTransitionInv ==
    ASSUME GovInv, NEW q \in Officers, NEW t \in CatalogTools, NEW to \in ToolStatus,
           NEW authority \in Proposers, JudgeTransition(q, t, to, authority)
    PROVE  GovInv'
<1> DEFINE r == [Available EXCEPT !.at = "transit", !.tool = t, !.to = to, !.authority = authority]
<1>1. /\ r \in Officer /\ r.at = "transit" /\ r.tool = t /\ r.to = to /\ r.authority = authority
  BY AvailableIsOfficer DEF Officer
<1>2. Assume(q, r) /\ UNCHANGED <<catalog, owner, bindings, bound, vaultKey, tickets, granted, overhauled>>
  BY DEF JudgeTransition
<1> HIDE DEF r
<1>3. /\ officers' \in [Officers -> Officer]
      /\ \A p \in Officers : officers'[p] = IF p = q THEN r ELSE officers[p]
  BY <1>1, <1>2, OfficerAfter
<1>4. /\ catalog[t] \in ToolStatus /\ authority \in Rules(catalog[t], to)
      /\ contested' = IF Transiting(t) # {} THEN contested \cup {t} ELSE contested
      /\ contested \subseteq contested'
  BY DEF JudgeTransition, GovInv, CatalogInv
<1>5. CatalogInv'
  BY <1>2, <1>4 DEF GovInv, CatalogInv
<1>6. BindingsInv'
  BY <1>2, BindingsKept
<1>7. ASSUME NEW p \in Officers PROVE OfficerInv(p)'
  <2>1. CASE p = q
    <3>1. GatesOf(catalog[t]) \subseteq granted[t]
      BY DEF GovInv, CatalogInv
    <3> QED
      BY <1>1, <1>2, <1>3, <1>4, <2>1, <3>1, RuleFacts DEF OfficerInv, GovInv, CatalogInv
  <2>2. CASE p # q
    <3>1. OfficerInv(p) /\ officers'[p] = officers[p]
      BY <1>3, <2>2, OfficerFacts
    <3> QED
      BY <1>2, <1>4, <3>1 DEF OfficerInv
  <2> QED
    BY <2>1, <2>2
<1>8. ASSUME NEW p \in Officers, NEW o \in Officers,
             officers'[p].at = "transit", officers'[o].at = "transit",
             officers'[p].tool = officers'[o].tool, officers'[p].tool \notin contested'
      PROVE  p = o
  <2>1. CASE officers'[p].tool = t
    <3>1. Transiting(t) = {}
      BY <1>4, <1>8, <2>1
    <3> QED
      BY <1>3, <1>8, <2>1, <3>1 DEF Transiting
  <2>2. CASE officers'[p].tool # t
    BY <1>1, <1>3, <1>4, <1>8, <2>2 DEF GovInv
  <2> QED
    BY <2>1, <2>2
<1> QED
  BY <1>3, <1>5, <1>6, <1>7, <1>8 DEF GovInv

LEMMA CommitTransitionInv == ASSUME GovInv, NEW q \in Officers, CommitTransition(q) PROVE GovInv'
<1> DEFINE t == officers[q].tool
           to == officers[q].to
<1>1. /\ officers[q].at = "transit" /\ t \in CatalogTools /\ to \in ToolStatus
      /\ GatesOf(to) \ {to} \subseteq granted[t]
      /\ to \in {"REVIEWED", "APPROVED"} => officers[q].authority \in Proper(to)
  BY OfficerFacts DEF CommitTransition, OfficerInv
<1>2. /\ catalog' = [catalog EXCEPT ![t] = to]
      /\ granted' = IF to \in {"REVIEWED", "APPROVED"} /\ officers[q].authority \in Proper(to)
                    THEN [granted EXCEPT ![t] = @ \cup {to}] ELSE granted
      /\ overhauled' = (overhauled \ {q}) \cup
                       {r \in Officers : officers[r].at \in {"bind", "ticket"} /\ officers[r].tool = t}
      /\ Assume(q, Available)
      /\ UNCHANGED <<owner, bindings, bound, vaultKey, tickets, contested>>
  BY DEF CommitTransition
<1> HIDE DEF t, to
<1>3. /\ officers' \in [Officers -> Officer]
      /\ \A p \in Officers : officers'[p] = IF p = q THEN Available ELSE officers[p]
  BY <1>2, OfficerAfter, AvailableIsOfficer
<1>4. /\ granted' \in [CatalogTools -> SUBSET {"REVIEWED", "APPROVED"}]
      /\ \A x \in CatalogTools : granted[x] \subseteq granted'[x]
      /\ to \in {"REVIEWED", "APPROVED"} => to \in granted'[t]
  BY <1>1, <1>2 DEF GovInv, CatalogInv
<1>5. /\ catalog' \in [CatalogTools -> ToolStatus \cup {Absent}] /\ catalog'[t] = to
      /\ \A x \in CatalogTools : x # t => catalog'[x] = catalog[x]
  BY <1>1, <1>2 DEF GovInv, CatalogInv
<1>6. CatalogInv'
  <2>1. \A x \in CatalogTools : GatesOf(catalog'[x]) \subseteq granted'[x]
    <3> SUFFICES ASSUME NEW x \in CatalogTools PROVE GatesOf(catalog'[x]) \subseteq granted'[x]
      OBVIOUS
    <3>1. CASE x = t
      <4>1. to \in GatesOf(to) => to \in {"REVIEWED", "APPROVED"}
        BY DEF GatesOf
      <4> QED
        BY <1>1, <1>4, <1>5, <3>1, <4>1
    <3>2. CASE x # t
      BY <1>4, <1>5, <3>2 DEF GovInv, CatalogInv
    <3> QED
      BY <3>1, <3>2
  <2> QED
    BY <1>2, <1>4, <1>5, <2>1 DEF GovInv, CatalogInv
<1>7. BindingsInv'
  BY <1>2, BindingsKept
<1>8. ASSUME NEW p \in Officers PROVE OfficerInv(p)'
  <2>1. CASE p = q
    BY <1>3, <2>1, AvailableIsOfficer DEF OfficerInv
  <2>2. CASE p # q
    <3>1. OfficerInv(p) /\ officers'[p] = officers[p]
      BY <1>3, <2>2, OfficerFacts
    <3>2. officers[p].at = "transit" /\ officers[p].tool \notin contested => officers[p].tool # t
      BY <1>1, <2>2 DEF GovInv, t
    <3>3. p \notin overhauled' /\ officers[p].at \in {"bind", "ticket"}
            => p \notin overhauled /\ officers[p].tool # t
      BY <1>2, <2>2
    <3>4. to # Absent /\ Absent \notin ToolStatus
      BY <1>1
    <3> QED
      BY <1>2, <1>4, <1>5, <3>1, <3>2, <3>3, <3>4 DEF OfficerInv
  <2> QED
    BY <2>1, <2>2
<1>9. \A p, o \in Officers :
         /\ officers'[p].at = "transit" /\ officers'[o].at = "transit"
         /\ officers'[p].tool = officers'[o].tool /\ officers'[p].tool \notin contested'
         => p = o
  BY <1>2, <1>3, AvailableIsOfficer DEF GovInv
<1> QED
  BY <1>3, <1>6, <1>7, <1>8, <1>9 DEF GovInv

LEMMA BeginAssignInv ==
    ASSUME GovInv, NEW q \in Officers, NEW a \in BoundAgents, NEW p \in Products,
           NEW t \in CatalogTools, AssignTool(q, a, p, t) \/ EvaluateAccess(q, a, p, t)
    PROVE  GovInv'
<1>1. /\ AgentHome[a] = p /\ UNCHANGED <<catalog, owner, bindings, bound, vaultKey, tickets, granted, contested>>
      /\ overhauled' = overhauled \ {q}
  <2>1. EvaluateAccess(q, a, p, t) => AgentHome[a] = p
    BY DEF EvaluateAccess, GovInv, BindingsInv
  <2> QED
    BY <2>1 DEF AssignTool, BeginAssign, EvaluateAccess
<1>2. BindingsInv'
  BY <1>1, BindingsKept
<1>3. ASSUME NEW at \in {"bind", "ticket"},
             Assume(q, [Available EXCEPT !.at = at, !.tool = t, !.agent = a, !.product = p]),
             at = "bind" => catalog[t] \in Bindable, at = "ticket" => catalog[t] = "ENABLED"
      PROVE  GovInv'
  <2> DEFINE r == [Available EXCEPT !.at = at, !.tool = t, !.agent = a, !.product = p]
  <2>1. r \in Officer /\ r.at = at /\ r.tool = t /\ r.agent = a /\ r.product = p
    BY AvailableIsOfficer DEF Officer
  <2>2. Assume(q, r)
    BY <1>3
  <2> HIDE DEF r
  <2> QED
    BY <1>1, <1>2, <1>3, <2>1, <2>2, QuietStep
<1> QED
  BY <1>3 DEF AssignTool, BeginAssign, EvaluateAccess

LEMMA BindInv == ASSUME GovInv, NEW q \in Officers, Bind(q) PROVE GovInv'
<1> DEFINE o == officers[q]
           new == [id |-> bound + 1, tool |-> o.tool, agent |-> o.agent,
                   product |-> o.product, credential |-> Seal(q)]
<1>1. /\ o.tool \in CatalogTools /\ o.agent \in BoundAgents /\ o.product = AgentHome[o.agent]
      /\ o.product \in Products
  BY OfficerFacts DEF Bind, OfficerInv
<1>2. BindingsInv /\ vaultKey \in {0, 1} /\ bound + 1 \in 1..MaxBindings
  BY DEF GovInv, BindingsInv, Bind
<1>3. Seal(q) \in [product : Products, key : {0, 1}] /\ Seal(q).product = o.product /\ Seal(q).key = vaultKey
  BY <1>1, <1>2 DEF Seal
<1>4. /\ new \in BindingRow /\ new.tool = o.tool /\ new.agent = o.agent /\ new.product = o.product
      /\ new.credential = Seal(q)
  BY <1>1, <1>2, <1>3 DEF BindingRow
<1>5. /\ \A b \in bindings : <<b.tool, b.agent, b.product>> # <<o.tool, o.agent, o.product>>
      /\ bindings' = bindings \cup {new} /\ bound' = bound + 1 /\ Assume(q, Available)
      /\ UNCHANGED <<catalog, owner, vaultKey, tickets, granted, contested, overhauled>>
  BY DEF Bind
<1> HIDE DEF new, o
<1>6. BindingsInv'
  <2>1. \A b \in bindings : b.product = AgentHome[b.agent]
    BY <1>2 DEF BindingsInv
  <2>2. \A b \in bindings : ~ (b.tool = new.tool /\ b.agent = new.agent)
    BY <1>1, <1>4, <1>5, <2>1
  <2>3. \A b, c \in bindings' : b.tool = c.tool /\ b.agent = c.agent => b = c
    BY <1>2, <1>5, <2>2 DEF BindingsInv
  <2>4. \A b \in bindings' : /\ b.product = AgentHome[b.agent] /\ b.credential.product = b.product
                             /\ vaultKey' = 0 => b.credential.key = 0
    BY <1>1, <1>2, <1>3, <1>4, <1>5 DEF BindingsInv
  <2> QED
    BY <1>2, <1>4, <1>5, <2>3, <2>4 DEF BindingsInv
<1> QED
  BY <1>5, <1>6, QuietStep, AvailableIsOfficer

LEMMA OtherRequestsInv ==
    ASSUME GovInv, NEW q \in Officers,
           \/ \E b \in bindings : RevokeBinding(q, b)
           \/ Unbind(q) \/ IssueTicket(q) \/ Forsake(q)
    PROVE  GovInv'
<1>1. CASE Unbind(q) \/ IssueTicket(q) \/ Forsake(q)
  <2>1. /\ Assume(q, Available) /\ UNCHANGED <<catalog, owner, bound, vaultKey, granted, contested, overhauled>>
        /\ bindings' \subseteq bindings /\ tickets' \subseteq tickets \cup {b.id : b \in bindings}
    BY <1>1 DEF Unbind, IssueTicket, Forsake
  <2> QED
    BY <2>1, BindingsKept, QuietStep, AvailableIsOfficer
<1>2. ASSUME NEW b \in bindings, RevokeBinding(q, b) PROVE GovInv'
  <2> DEFINE r == [Available EXCEPT !.at = "unbind", !.binding = b.id]
  <2>1. b.id \in 1..MaxBindings
    BY DEF GovInv, BindingsInv, BindingRow
  <2>2. r \in Officer /\ r.at = "unbind"
    BY <2>1, AvailableIsOfficer DEF Officer
  <2>3. Assume(q, r) /\ UNCHANGED <<catalog, owner, bindings, bound, vaultKey, tickets, granted, contested, overhauled>>
    BY <1>2 DEF RevokeBinding
  <2> HIDE DEF r
  <2> QED
    BY <2>2, <2>3, BindingsKept, QuietStep
<1> QED
  BY <1>1, <1>2

LEMMA StillInv ==
    ASSUME GovInv, ReplaceKey \/ UNCHANGED govVars
    PROVE  GovInv'
<1>1. /\ UNCHANGED <<catalog, owner, bindings, bound, tickets, officers, granted, contested, overhauled>>
      /\ vaultKey' \in {0, 1} /\ (vaultKey' = 0 => vaultKey = 0)
  BY DEF ReplaceKey, govVars, GovInv, BindingsInv
<1>2. CatalogInv' /\ BindingsInv'
  BY <1>1 DEF GovInv, CatalogInv, BindingsInv
<1>3. \A q \in Officers : OfficerInv(q)'
  BY <1>1 DEF GovInv, OfficerInv
<1> QED
  BY <1>1, <1>2, <1>3 DEF GovInv

LEMMA GovNextInv == ASSUME GovInv, [GovNext]_govVars PROVE GovInv'
<1>1. ASSUME NEW q \in Officers, NEW t \in CatalogTools,
             \/ \E to \in ToolStatus, authority \in Proposers : JudgeTransition(q, t, to, authority)
             \/ \E a \in BoundAgents, p \in Products : AssignTool(q, a, p, t) \/ EvaluateAccess(q, a, p, t)
      PROVE  GovInv'
  BY <1>1, JudgeTransitionInv, BeginAssignInv
<1>2. ASSUME NEW q \in Officers,
             \/ CommitTransition(q) \/ Bind(q) \/ Unbind(q) \/ IssueTicket(q) \/ Forsake(q)
             \/ \E b \in bindings : RevokeBinding(q, b)
      PROVE  GovInv'
  BY <1>2, CommitTransitionInv, BindInv, OtherRequestsInv
<1>3. ASSUME NEW t \in CatalogTools, NEW p \in Products \cup {Absent}, RegisterTool(t, p) PROVE GovInv'
  BY <1>3, RegisterToolInv
<1> QED
  BY <1>1, <1>2, <1>3, StillInv DEF GovNext

\* A commit is what changes the status of a tool, and of one that is revoked
\* there is none unless two transitions of it overlapped.
LEMMA RevokedStays ==
    ASSUME GovInv, [GovNext]_govVars, NEW t \in CatalogTools \ contested, catalog[t] = "REVOKED"
    PROVE  catalog'[t] = "REVOKED"
<1>1. CASE UNCHANGED catalog
  BY <1>1
<1>2. ASSUME NEW x \in CatalogTools, NEW p \in Products \cup {Absent}, RegisterTool(x, p)
      PROVE  catalog'[t] = "REVOKED"
  BY <1>2 DEF RegisterTool, ToolStatus, GovInv, CatalogInv
<1>3. ASSUME NEW q \in Officers, CommitTransition(q) PROVE catalog'[t] = "REVOKED"
  <2>1. officers[q].tool # t
    BY <1>3, OfficerFacts DEF CommitTransition, OfficerInv
  <2> QED
    BY <1>3, <2>1 DEF CommitTransition, GovInv, CatalogInv
<1> QED
  BY ZenonT(60), <1>1, <1>2, <1>3 DEF GovNext, govVars, JudgeTransition, AssignTool, BeginAssign, EvaluateAccess,
     RevokeBinding, Bind, Unbind, IssueTicket, Forsake, ReplaceKey

LEMMA ToolsAreTyped == GovInv => GovTypeOK /\ EnabledWasGoverned /\ CredentialsOpen
<1> SUFFICES ASSUME GovInv PROVE GovTypeOK /\ EnabledWasGoverned /\ CredentialsOpen
  OBVIOUS
<1>1. \A q \in Officers : officers[q].to \in ToolStatus \cup {"none"}
  BY OfficerFacts DEF Officer
<1>2. GovTypeOK
  BY <1>1 DEF GovInv, CatalogInv, BindingsInv, BindingRow, GovTypeOK
<1>3. EnabledWasGoverned
  BY DEF GovInv, CatalogInv, GatesOf, EnabledWasGoverned
<1>4. CredentialsOpen
  BY DEF GovInv, BindingsInv, CredentialsOpen
<1> QED
  BY <1>2, <1>3, <1>4

\* For any requests, tools, agents and products, however the requests overlap:
\* an enabled tool was reviewed and approved by those who may, and it is bound
\* and ticketed in the status that was asked for unless it changed behind the
\* request; REVOKED is final unless transitions overlapped.
THEOREM ToolsAreGovernedAlways == GovSpec => ToolsAreGoverned
<1>1. ASSUME GovInv, [GovNext]_govVars
      PROVE  [\A t \in CatalogTools \ contested : catalog[t] = "REVOKED" => catalog'[t] = "REVOKED"]_govVars
  BY <1>1, RevokedStays
<1>2. ASSUME GovInv
      PROVE  /\ \A q \in Officers \ overhauled : Bind(q) => catalog[officers[q].tool] \in Bindable
             /\ \A q \in Officers \ overhauled : IssueTicket(q) => catalog[officers[q].tool] = "ENABLED"
  BY <1>2, OfficerFacts DEF Bind, IssueTicket, OfficerInv
<1> QED
  BY <1>1, <1>2, ToolsAreTyped, GovInitInv, GovNextInv, PTL
     DEF GovSpec, ToolsAreGoverned, RevokedIsFinal, BoundWhileBindable, TicketsDrain

-----------------------------------------------------------------------------
(* The product's knowledge.  What a skill's status says of its reviews, and    *)
(* what holds between a curator's judgement and commit when nobody else is at  *)
(* the same skill: the rule still applies to the status the skill has.         *)
SkillRow == [agent : SkillAgents \cup {Nobodys}, status : SkillStatus]
CuratorRow == [at : {"free", "skill", "memory"}, skill : Nat, to : SkillStatus \cup {"none"}, hour : Nat]
MemoryRow == [by : {"none", "creator", "updater"}, updated : Nat]

\* The gates a skill has passed in a status.
Passed(status) ==
    IF status = "VALIDATED" THEN {"VALIDATED"}
    ELSE IF status \in {"APPROVED", "DEPLOYED"} THEN Gates ELSE {}

SkillsInv ==
    /\ skills \in Seq(SkillRow) /\ reviewed \in Seq(SUBSET Gates) /\ Len(reviewed) = Len(skills)
    /\ \A i \in DOMAIN skills \ crossed : Passed(skills[i].status) \subseteq reviewed[i]
    /\ NamedOnce

CuratorInv(k) ==
    LET c == curators[k] IN
    /\ c.skill \in 0..Len(skills) /\ (c.at # "skill" => c.skill = 0)
    /\ c.at = "skill" =>
        /\ c.skill # 0 /\ c.to \in SkillStatus
        /\ c.skill \notin crossed => SkillRules(skills[c.skill].status, c.to) # {}
    /\ c.at = "memory" => memory # NoMemory /\ c.hour <= hour /\ (outrun \/ c.hour >= latest)

MemoryInv ==
    /\ hour \in Nat /\ latest \in Nat /\ latest <= hour /\ memory \in MemoryRow
    /\ outrun \in BOOLEAN /\ SummaryIsCurrent

KnowledgeInv ==
    /\ SkillsInv /\ MemoryInv
    /\ curators \in [Curators -> CuratorRow] /\ \A k \in Curators : CuratorInv(k)
    /\ \A k, c \in Curators :
          /\ curators[k].at = "skill" /\ curators[c].at = "skill"
          /\ curators[k].skill = curators[c].skill /\ curators[k].skill \notin crossed
          => k = c
    /\ \A k, c \in Curators :
          ~outrun /\ curators[k].at = "memory" /\ curators[c].at = "memory" => k = c

-----------------------------------------------------------------------------
USE KnowledgeAssumption

LEMMA SkillRuleFacts ==
    ASSUME NEW from \in SkillStatus, NEW to \in SkillStatus, SkillRules(from, to) # {}
    PROVE  /\ Passed(to) \subseteq Passed(from) \cup ({to} \cap Gates)
           /\ Passed("DRAFT") = {}
  BY DEF SkillRules, SkillStatus, Passed, Gates

LEMMA ReadingIsCurator == /\ Reading \in CuratorRow /\ Reading.at = "free" /\ Reading.skill = 0
  BY DEF Reading, CuratorRow

LEMMA CuratorFacts ==
    ASSUME KnowledgeInv, NEW k \in Curators
    PROVE  curators[k] \in CuratorRow /\ CuratorInv(k)
  BY DEF KnowledgeInv

LEMMA CuratorsAfter ==
    ASSUME KnowledgeInv, NEW k \in Curators, NEW r \in CuratorRow, Turn(k, r)
    PROVE  /\ curators' \in [Curators -> CuratorRow]
           /\ \A c \in Curators : curators'[c] = IF c = k THEN r ELSE curators[c]
  BY DEF KnowledgeInv, Turn

LEMMA SkillFacts ==
    ASSUME KnowledgeInv
    PROVE  /\ Len(skills) \in Nat /\ DOMAIN skills = 1..Len(skills) /\ DOMAIN reviewed = 1..Len(skills)
           /\ \A i \in DOMAIN skills : skills[i] \in SkillRow /\ reviewed[i] \in SUBSET Gates
  BY DEF KnowledgeInv, SkillsInv

LEMMA KnowledgeInitInv == KnowledgeInit => KnowledgeInv
<1> SUFFICES ASSUME KnowledgeInit PROVE KnowledgeInv
  OBVIOUS
<1>1. SkillsInv
  BY DEF KnowledgeInit, SkillsInv, NamedOnce
<1>2. MemoryInv
  <2>1. NoMemory \in MemoryRow /\ NoMemory.updated = 0
    BY DEF NoMemory, MemoryRow
  <2> QED
    <3>1. memory = NoMemory /\ hour = 0 /\ latest = 0 /\ outrun = FALSE
      BY DEF KnowledgeInit
    <3>2. SummaryIsCurrent
      BY <2>1, <3>1 DEF SummaryIsCurrent, LastUpdated
    <3>3. hour \in Nat /\ latest \in Nat /\ latest <= hour
      BY <3>1
    <3> QED
      BY <2>1, <3>1, <3>2, <3>3, Zenon DEF MemoryInv
<1>3. curators \in [Curators -> CuratorRow] /\ \A k \in Curators : curators[k] = Reading
  BY ReadingIsCurator DEF KnowledgeInit
<1>4. 0 \in 0..Len(skills)
  BY DEF KnowledgeInit
<1> QED
  BY <1>1, <1>2, <1>3, <1>4, ReadingIsCurator DEF KnowledgeInv, CuratorInv

\* A step of a curator, or of nobody, that touches neither the skills nor the
\* memory: one that ends what the curator was doing, or is no step at all.
LEMMA LeaveStep ==
    ASSUME KnowledgeInv, UNCHANGED <<skills, memory, reviewed, crossed, latest, outrun>>,
           hour' \in Nat, hour' >= hour,
           \/ UNCHANGED curators
           \/ \E k \in Curators : Turn(k, Reading)
    PROVE  KnowledgeInv'
<1>1. SkillsInv'
  BY DEF KnowledgeInv, SkillsInv, NamedOnce
<1>2. MemoryInv'
  BY DEF KnowledgeInv, MemoryInv, SummaryIsCurrent, LastUpdated
<1>3. /\ curators' \in [Curators -> CuratorRow]
      /\ \A c \in Curators : curators'[c] = curators[c] \/ curators'[c] = Reading
  BY CuratorsAfter, ReadingIsCurator DEF KnowledgeInv
<1>4. ASSUME NEW c \in Curators PROVE CuratorInv(c)'
  <2>1. hour \in Nat /\ Len(skills) \in Nat /\ curators[c] \in CuratorRow /\ CuratorInv(c)
    BY SkillFacts, CuratorFacts DEF KnowledgeInv, MemoryInv
  <2>2. CASE curators'[c] = Reading
    BY <2>1, <2>2, ReadingIsCurator DEF CuratorInv
  <2>3. CASE curators'[c] = curators[c]
    <3>1. curators[c].hour \in Nat
      BY <2>1 DEF CuratorRow
    <3>2. curators[c].hour <= hour => curators[c].hour <= hour'
      BY <2>1, <3>1
    <3> QED
      BY <2>1, <2>3, <3>2 DEF CuratorInv, NoMemory
  <2> QED
    BY <1>3, <2>2, <2>3
<1> QED
  BY <1>1, <1>2, <1>3, <1>4, ReadingIsCurator DEF KnowledgeInv

LEMMA CreateSkillInv ==
    ASSUME KnowledgeInv, NEW a \in SkillAgents \cup {Nobodys}, CreateSkill(a)
    PROVE  KnowledgeInv'
<1> DEFINE row == [agent |-> a, status |-> "DRAFT"]
           n == Len(skills) + 1
<1>1. row \in SkillRow /\ row.agent = a /\ row.status = "DRAFT"
  BY DEF SkillRow, SkillStatus
<1>2. /\ skills' = Append(skills, row) /\ reviewed' = Append(reviewed, {}) /\ ~NameTaken(a)
      /\ UNCHANGED <<memory, hour, curators, crossed, latest, outrun>>
  BY DEF CreateSkill
<1> HIDE DEF row
<1>3. skills \in Seq(SkillRow) /\ reviewed \in Seq(SUBSET Gates) /\ Len(reviewed) = Len(skills)
      /\ Len(skills) \in Nat /\ DOMAIN skills = 1..Len(skills) /\ DOMAIN reviewed = 1..Len(skills)
  BY SkillFacts DEF KnowledgeInv, SkillsInv
<1>4. /\ skills' \in Seq(SkillRow) /\ Len(skills') = n /\ DOMAIN skills' = 1..n
      /\ skills'[n] = row /\ \A i \in DOMAIN skills : skills'[i] = skills[i]
  BY <1>1, <1>2, <1>3
<1>5. /\ reviewed' \in Seq(SUBSET Gates) /\ Len(reviewed') = n
      /\ reviewed'[n] = {} /\ \A i \in DOMAIN skills : reviewed'[i] = reviewed[i]
  BY <1>2, <1>3
<1>6. \A i \in DOMAIN skills' : i = n \/ i \in DOMAIN skills
  BY <1>3, <1>4
<1>7. SkillsInv'
  <2>1. NamedOnce'
    <3> SUFFICES ASSUME NEW i \in DOMAIN skills', NEW j \in DOMAIN skills',
                        skills'[i].agent = skills'[j].agent, i # j
                 PROVE  skills'[i].agent = Nobodys
      BY DEF NamedOnce
    <3>1. CASE i = n \/ j = n
      BY <1>1, <1>2, <1>4, <1>6, <3>1 DEF NameTaken
    <3>2. CASE i # n /\ j # n
      BY <1>4, <1>6, <3>2 DEF KnowledgeInv, SkillsInv, NamedOnce
    <3> QED
      BY <3>1, <3>2
  <2>2. \A i \in DOMAIN skills' \ crossed' : Passed(skills'[i].status) \subseteq reviewed'[i]
    <3>1. Passed("DRAFT") = {}
      BY DEF Passed
    <3> QED
      BY <1>1, <1>2, <1>4, <1>5, <1>6, <3>1 DEF KnowledgeInv, SkillsInv
  <2> QED
    BY <1>4, <1>5, <2>1, <2>2 DEF SkillsInv
<1>8. ASSUME NEW k \in Curators PROVE CuratorInv(k)'
  <2>1. CuratorInv(k)
    BY CuratorFacts
  <2>2. /\ curators[k].skill \in 0..n
        /\ curators[k].at = "skill" => curators[k].skill \in DOMAIN skills
    BY <1>3, <2>1 DEF CuratorInv
  <2> QED
    BY <1>2, <1>4, <2>1, <2>2 DEF CuratorInv, NoMemory
<1>9. MemoryInv'
  BY <1>2 DEF KnowledgeInv, MemoryInv, SummaryIsCurrent, LastUpdated
<1> QED
  BY <1>2, <1>7, <1>8, <1>9 DEF KnowledgeInv

LEMMA ValidateTransitionInv ==
    ASSUME KnowledgeInv, NEW k \in Curators, NEW i \in DOMAIN skills, NEW to \in SkillStatus,
           NEW authority \in Submitters, ValidateTransition(k, i, to, authority)
    PROVE  KnowledgeInv'
<1> DEFINE r == [Reading EXCEPT !.at = "skill", !.skill = i, !.to = to]
<1>1. i \in Nat /\ i # 0 /\ i \in 0..Len(skills)
  BY SkillFacts
<1>2. r \in CuratorRow /\ r.at = "skill" /\ r.skill = i /\ r.to = to
  BY <1>1, ReadingIsCurator DEF CuratorRow
<1>3. /\ Turn(k, r) /\ SkillRules(skills[i].status, to) # {}
      /\ crossed' = IF \E c \in Curators : curators[c].skill = i THEN crossed \cup {i} ELSE crossed
      /\ UNCHANGED <<skills, memory, hour, reviewed, latest, outrun>>
  BY DEF ValidateTransition
<1> HIDE DEF r
<1>4. /\ curators' \in [Curators -> CuratorRow]
      /\ \A c \in Curators : curators'[c] = IF c = k THEN r ELSE curators[c]
  BY <1>2, <1>3, CuratorsAfter
<1>5. SkillsInv'
  BY <1>3 DEF KnowledgeInv, SkillsInv, NamedOnce
<1>6. MemoryInv'
  BY <1>3 DEF KnowledgeInv, MemoryInv, SummaryIsCurrent, LastUpdated
<1>7. ASSUME NEW c \in Curators PROVE CuratorInv(c)'
  <2>1. CASE c = k
    BY <1>1, <1>2, <1>3, <1>4, <2>1 DEF CuratorInv
  <2>2. CASE c # k
    <3>1. CuratorInv(c) /\ curators'[c] = curators[c] /\ crossed \subseteq crossed'
      BY <1>3, <1>4, <2>2, CuratorFacts
    <3> QED
      BY <1>3, <3>1 DEF CuratorInv, NoMemory
  <2> QED
    BY <2>1, <2>2
<1>8. ASSUME NEW c \in Curators, NEW d \in Curators,
             curators'[c].at = "skill", curators'[d].at = "skill",
             curators'[c].skill = curators'[d].skill, curators'[c].skill \notin crossed'
      PROVE  c = d
  <2>1. CASE curators'[c].skill = i
    <3>1. \A e \in Curators : curators[e].skill # i
      BY <1>3, <1>8, <2>1
    <3> QED
      BY <1>4, <1>8, <2>1, <3>1
  <2>2. CASE curators'[c].skill # i
    BY <1>2, <1>3, <1>4, <1>8, <2>2 DEF KnowledgeInv
  <2> QED
    BY <2>1, <2>2
<1>9. \A c, d \in Curators :
         ~outrun' /\ curators'[c].at = "memory" /\ curators'[d].at = "memory" => c = d
  BY <1>2, <1>3, <1>4 DEF KnowledgeInv
<1> QED
  BY <1>4, <1>5, <1>6, <1>7, <1>8, <1>9 DEF KnowledgeInv

LEMMA WriteStatusInv == ASSUME KnowledgeInv, NEW k \in Curators, WriteStatus(k) PROVE KnowledgeInv'
<1> DEFINE i == curators[k].skill
           to == curators[k].to
           row == [skills[i] EXCEPT !.status = to]
           gates == IF to = "DRAFT" THEN {} ELSE reviewed[i] \cup ({to} \cap Gates)
<1>1. /\ curators[k].at = "skill" /\ i \in DOMAIN skills /\ to \in SkillStatus
      /\ i \notin crossed => SkillRules(skills[i].status, to) # {}
  BY CuratorFacts, SkillFacts DEF WriteStatus, CuratorInv
<1>2. /\ skills[i] \in SkillRow /\ row \in SkillRow /\ row.agent = skills[i].agent /\ row.status = to
      /\ reviewed[i] \in SUBSET Gates /\ gates \in SUBSET Gates
  BY <1>1, SkillFacts DEF SkillRow
<1>3. /\ skills' = [skills EXCEPT ![i] = row] /\ reviewed' = [reviewed EXCEPT ![i] = gates]
      /\ Turn(k, Reading) /\ UNCHANGED <<memory, hour, crossed, latest, outrun>>
  BY DEF WriteStatus
<1>4. i \notin crossed => Passed(to) \subseteq gates
  <2>1. i \notin crossed => Passed(skills[i].status) \subseteq reviewed[i]
    BY <1>1 DEF KnowledgeInv, SkillsInv
  <2>2. skills[i].status \in SkillStatus
    BY <1>2 DEF SkillRow
  <2> QED
    BY <1>1, <2>1, <2>2, SkillRuleFacts
<1> HIDE DEF row, gates, to
<1>5. /\ skills' \in Seq(SkillRow) /\ DOMAIN skills' = DOMAIN skills /\ Len(skills') = Len(skills)
      /\ skills'[i] = row /\ \A j \in DOMAIN skills : j # i => skills'[j] = skills[j]
  BY <1>1, <1>2, <1>3, SkillFacts DEF KnowledgeInv, SkillsInv
<1>6. /\ reviewed' \in Seq(SUBSET Gates) /\ Len(reviewed') = Len(skills)
      /\ reviewed'[i] = gates /\ \A j \in DOMAIN skills : j # i => reviewed'[j] = reviewed[j]
  BY <1>1, <1>2, <1>3, SkillFacts DEF KnowledgeInv, SkillsInv
<1>7. /\ curators' \in [Curators -> CuratorRow]
      /\ \A c \in Curators : curators'[c] = IF c = k THEN Reading ELSE curators[c]
  BY <1>3, ReadingIsCurator, CuratorsAfter
<1>8. SkillsInv'
  <2>1. \A j \in DOMAIN skills' \ crossed' : Passed(skills'[j].status) \subseteq reviewed'[j]
    BY <1>2, <1>3, <1>4, <1>5, <1>6 DEF KnowledgeInv, SkillsInv
  <2>2. \A j \in DOMAIN skills' : skills'[j].agent = skills[j].agent
    BY <1>2, <1>5
  <2>3. NamedOnce'
    BY <1>5, <2>2 DEF KnowledgeInv, SkillsInv, NamedOnce
  <2> QED
    BY <1>5, <1>6, <2>1, <2>3 DEF SkillsInv
<1>9. MemoryInv'
  BY <1>3 DEF KnowledgeInv, MemoryInv, SummaryIsCurrent, LastUpdated
<1>10. ASSUME NEW c \in Curators PROVE CuratorInv(c)'
  <2>1. CASE c = k
    BY <1>5, <1>7, <2>1, SkillFacts, ReadingIsCurator DEF CuratorInv
  <2>2. CASE c # k
    <3>1. CuratorInv(c) /\ curators'[c] = curators[c]
      BY <1>7, <2>2, CuratorFacts
    <3>2. /\ curators[c].at = "skill" /\ curators[c].skill \notin crossed => curators[c].skill # i
      BY <1>1, <2>2 DEF KnowledgeInv
    <3>3. curators[c].at = "skill" => curators[c].skill \in DOMAIN skills
      BY <3>1, SkillFacts DEF CuratorInv
    <3> QED
      BY <1>3, <1>5, <3>1, <3>2, <3>3 DEF CuratorInv, NoMemory
  <2> QED
    BY <2>1, <2>2
<1> QED
  BY <1>3, <1>7, <1>8, <1>9, <1>10, ReadingIsCurator DEF KnowledgeInv

\* A step on the memory leaves the skills and who is at them as they are.
LEMMA MemoryStep ==
    ASSUME KnowledgeInv, MemoryInv', UNCHANGED <<skills, reviewed, crossed>>,
           curators' \in [Curators -> CuratorRow],
           \A c \in Curators : /\ curators'[c] = curators[c] \/ curators'[c].at # "skill"
                               /\ curators'[c].at # "skill" => curators'[c].skill = 0,
           \A c \in Curators : curators'[c].at = "memory" =>
               memory' # NoMemory /\ curators'[c].hour <= hour' /\ (outrun' \/ curators'[c].hour >= latest'),
           \A c, d \in Curators :
               ~outrun' /\ curators'[c].at = "memory" /\ curators'[d].at = "memory" => c = d
    PROVE  KnowledgeInv'
<1>1. SkillsInv'
  BY DEF KnowledgeInv, SkillsInv, NamedOnce
<1>2. ASSUME NEW c \in Curators PROVE CuratorInv(c)'
  <2>1. CuratorInv(c) /\ Len(skills) \in Nat
    BY CuratorFacts, SkillFacts
  <2>2. CASE curators'[c].at = "skill"
    <3>1. curators'[c] = curators[c]
      BY <2>2
    <3> QED
      BY <2>1, <2>2, <3>1 DEF CuratorInv
  <2>3. CASE curators'[c].at # "skill"
    <3>1. curators'[c].skill = 0 /\ 0 \in 0..Len(skills)
      BY <2>1, <2>3
    <3> QED
      BY <2>3, <3>1 DEF CuratorInv, NoMemory
  <2> QED
    BY <2>2, <2>3
<1>3. \A c, d \in Curators :
          /\ curators'[c].at = "skill" /\ curators'[d].at = "skill"
          /\ curators'[c].skill = curators'[d].skill /\ curators'[c].skill \notin crossed'
          => c = d
  BY DEF KnowledgeInv
<1> QED
  BY <1>1, <1>2, <1>3 DEF KnowledgeInv

LEMMA MemoryFacts ==
    ASSUME KnowledgeInv
    PROVE  /\ hour \in Nat /\ latest \in Nat /\ latest <= hour /\ memory \in MemoryRow
           /\ outrun \in BOOLEAN /\ (outrun \/ memory.updated = latest)
  BY DEF KnowledgeInv, MemoryInv, SummaryIsCurrent, LastUpdated

LEMMA CreateContextInv == ASSUME KnowledgeInv, CreateContext PROVE KnowledgeInv'
<1> DEFINE new == [by |-> "creator", updated |-> hour]
<1>1. new \in MemoryRow /\ new.updated = hour /\ new # NoMemory
  BY MemoryFacts DEF MemoryRow, NoMemory
<1>2. /\ memory = NoMemory /\ memory' = new /\ latest' = hour
      /\ UNCHANGED <<skills, hour, curators, reviewed, crossed, outrun>>
  BY DEF CreateContext
<1> HIDE DEF new
<1>3. MemoryInv'
  BY <1>1, <1>2, MemoryFacts DEF MemoryInv, SummaryIsCurrent, LastUpdated
<1>4. \A c \in Curators : curators[c].at # "memory" /\ (curators[c].at # "skill" => curators[c].skill = 0)
  BY <1>2, CuratorFacts DEF CuratorInv
<1> QED
  BY <1>2, <1>3, <1>4, MemoryStep DEF KnowledgeInv

LEMMA LoadContextInv == ASSUME KnowledgeInv, NEW k \in Curators, LoadContext(k) PROVE KnowledgeInv'
<1> DEFINE r == [Reading EXCEPT !.at = "memory", !.hour = hour]
<1>1. r \in CuratorRow /\ r.at = "memory" /\ r.skill = 0 /\ r.hour = hour
  BY ReadingIsCurator, MemoryFacts DEF CuratorRow
<1>2. /\ Turn(k, r) /\ memory # NoMemory /\ UNCHANGED <<skills, memory, hour, reviewed, crossed, latest>>
      /\ outrun' = (outrun \/ \E c \in Curators : curators[c].at = "memory")
  BY DEF LoadContext
<1> HIDE DEF r
<1>3. /\ curators' \in [Curators -> CuratorRow]
      /\ \A c \in Curators : curators'[c] = IF c = k THEN r ELSE curators[c]
  BY <1>1, <1>2, CuratorsAfter
<1>4. outrun' \in BOOLEAN /\ (outrun => outrun')
      /\ (~outrun' => \A c \in Curators : curators[c].at # "memory")
  BY <1>2, MemoryFacts
<1>5. MemoryInv'
  BY <1>2, <1>4, MemoryFacts DEF MemoryInv, SummaryIsCurrent, LastUpdated
<1>6. ASSUME NEW c \in Curators
      PROVE  /\ curators'[c] = curators[c] \/ curators'[c].at # "skill"
             /\ curators'[c].at # "skill" => curators'[c].skill = 0
             /\ curators'[c].at = "memory" =>
                  memory' # NoMemory /\ curators'[c].hour <= hour' /\ (outrun' \/ curators'[c].hour >= latest')
  <2>1. CASE c = k
    BY <1>1, <1>2, <1>3, <2>1, MemoryFacts
  <2>2. CASE c # k
    <3>1. curators'[c] = curators[c] /\ CuratorInv(c)
      BY <1>3, <2>2, CuratorFacts
    <3> QED
      BY <1>2, <1>4, <3>1 DEF CuratorInv
  <2> QED
    BY <2>1, <2>2
<1>7. \A c, d \in Curators :
         ~outrun' /\ curators'[c].at = "memory" /\ curators'[d].at = "memory" => c = d
  BY <1>3, <1>4
<1> QED
  BY <1>2, <1>3, <1>5, <1>6, <1>7, MemoryStep

LEMMA WriteNarrativeInv == ASSUME KnowledgeInv, NEW k \in Curators, WriteNarrative(k) PROVE KnowledgeInv'
<1> DEFINE at == curators[k].hour
           new == [by |-> "updater", updated |-> at]
<1>1. /\ at \in Nat /\ at <= hour /\ (outrun \/ at >= latest)
  BY CuratorFacts DEF WriteNarrative, CuratorInv, CuratorRow
<1>2. new \in MemoryRow /\ new.updated = at /\ new # NoMemory
  BY <1>1 DEF MemoryRow, NoMemory
<1>3. /\ curators[k].at = "memory" /\ memory' = new /\ Turn(k, Reading)
      /\ latest' = IF at > latest THEN at ELSE latest
      /\ UNCHANGED <<skills, hour, reviewed, crossed, outrun>>
  BY DEF WriteNarrative
<1> HIDE DEF at, new
<1>4. /\ curators' \in [Curators -> CuratorRow]
      /\ \A c \in Curators : curators'[c] = IF c = k THEN Reading ELSE curators[c]
  BY <1>3, ReadingIsCurator, CuratorsAfter
<1>5. latest' \in Nat /\ latest' <= hour /\ (outrun \/ latest' = at)
  BY <1>1, <1>3, MemoryFacts
<1>6. MemoryInv'
  BY <1>2, <1>3, <1>5, MemoryFacts DEF MemoryInv, SummaryIsCurrent, LastUpdated
<1>7. ASSUME NEW c \in Curators
      PROVE  /\ curators'[c] = curators[c] \/ curators'[c].at # "skill"
             /\ curators'[c].at # "skill" => curators'[c].skill = 0
             /\ curators'[c].at = "memory" =>
                  /\ memory' # NoMemory /\ curators'[c].hour <= hour' /\ c # k
                  /\ outrun /\ curators'[c] = curators[c]
  <2>1. CASE c = k
    BY <1>4, <2>1, ReadingIsCurator
  <2>2. CASE c # k
    <3>1. curators'[c] = curators[c] /\ CuratorInv(c)
      BY <1>4, <2>2, CuratorFacts
    <3>2. curators[c].at = "memory" => outrun
      BY <1>3, <2>2 DEF KnowledgeInv
    <3> QED
      BY <1>2, <1>3, <2>2, <3>1, <3>2 DEF CuratorInv
  <2> QED
    BY <2>1, <2>2
<1> QED
  BY <1>3, <1>4, <1>6, <1>7, MemoryStep

LEMMA KnowledgeNextInv ==
    ASSUME KnowledgeInv, [SkillSteps \/ RecordSteps]_knowledgeVars
    PROVE  KnowledgeInv'
<1>1. ASSUME \/ UNCHANGED knowledgeVars \/ HourPasses
             \/ \E k \in Curators : Drop(k)
             \/ \E v \in Versions : CreatePlaybook(v) \/ UpdateSteps(v)
      PROVE  KnowledgeInv'
  <2>1. hour' \in Nat /\ hour' >= hour
    BY <1>1, MemoryFacts DEF knowledgeVars, HourPasses, Drop, CreatePlaybook, UpdateSteps
  <2>2. /\ UNCHANGED <<skills, memory, reviewed, crossed, latest, outrun>>
        /\ UNCHANGED curators \/ \E k \in Curators : Turn(k, Reading)
    BY <1>1 DEF knowledgeVars, HourPasses, Drop, CreatePlaybook, UpdateSteps
  <2> QED
    BY <2>1, <2>2, LeaveStep
<1>2. ASSUME NEW k \in Curators,
             \/ WriteStatus(k) \/ LoadContext(k) \/ WriteNarrative(k)
             \/ \E i \in DOMAIN skills, to \in SkillStatus, authority \in Submitters :
                   ValidateTransition(k, i, to, authority)
      PROVE  KnowledgeInv'
  BY <1>2, WriteStatusInv, LoadContextInv, WriteNarrativeInv, ValidateTransitionInv
<1> QED
  BY <1>1, <1>2, CreateSkillInv, CreateContextInv DEF SkillSteps, RecordSteps

\* For any curators, agents and skills: a deployed skill passed its validation
\* and its approval since it was last a draft, and a summary is as recent as the
\* latest update, unless two requests overlapped; an agent has one skill of a name.
THEOREM KnowledgeIsSoundAlways == KnowledgeSpec => []KnowledgeIsSound
<1>1. ASSUME KnowledgeInv PROVE KnowledgeIsSound
  <2>1. ASSUME NEW i \in DOMAIN skills \ crossed, skills[i].status = "DEPLOYED"
        PROVE  reviewed[i] = Gates
    <3>1. Passed("DEPLOYED") = Gates
      BY DEF Passed
    <3> QED
      BY ZenonT(60), <1>1, <2>1, <3>1, SkillFacts DEF KnowledgeInv, SkillsInv
  <2> QED
    BY <1>1, <2>1 DEF KnowledgeIsSound, DeployedWasReviewed, KnowledgeInv, SkillsInv, MemoryInv
<1> QED
  BY <1>1, KnowledgeInitInv, KnowledgeNextInv, PTL DEF KnowledgeSpec

-----------------------------------------------------------------------------
(* The client accounts.  Between a sign-in and its commit the account it was   *)
(* judged for is its own unless another is linking it; between the two halves  *)
(* of a cancellation Stripe has been told.                                     *)
DeskRow == [at : {"free", "link", "create", "stripe", "cancel"}, account : Emails \cup {NoOwner},
            identity : Identities \cup {NoOwner}, sub : Subs \cup {NoOwner}]

DeskInv(d) ==
    LET k == desk[d] IN
    /\ k.at \in {"link", "create"} => k.account \in Emails /\ k.identity \in Identities
    /\ k.at \notin {"link", "create"} => k.account = NoOwner
    /\ k.at = "link" =>
        /\ Registered(k.account)
        /\ k.account \notin relinked => accounts[k.account].google = NoOwner
    /\ k.at \in {"stripe", "cancel"} => k.sub \in Subs /\ subs[k.sub] # "none"
    /\ k.at = "cancel" => stripe[k.sub] # "active" \/ k.sub \in drifted

ClientsInv ==
    /\ accounts \in [Emails -> Account \cup {NoOwner}]
    /\ subs \in [Subs -> {"none", "active", "cancelled"}]
    /\ stripe \in [Subs -> {"none", "active", "cancelled"}]
    /\ directives \in [Subs -> {"none", "pending", "completed"}]
    /\ desk \in [Desks -> DeskRow] /\ \A d \in Desks : DeskInv(d)
    /\ \A d, o \in Desks :
          desk[d].account = desk[o].account /\ desk[d].account \notin relinked \cup {NoOwner} => d = o
    /\ BillingFollowsStatus

-----------------------------------------------------------------------------
USE ClientsAssumption, NoAccountAssumption

LEMMA VacantIsDesk ==
    /\ Vacant \in DeskRow /\ Vacant.at = "free" /\ Vacant.account = NoOwner
  BY DEF Vacant, DeskRow

LEMMA DeskFacts ==
    ASSUME ClientsInv, NEW d \in Desks
    PROVE  desk[d] \in DeskRow /\ DeskInv(d)
  BY DEF ClientsInv

LEMMA DesksAfter ==
    ASSUME ClientsInv, NEW d \in Desks, NEW r \in DeskRow, Serve(d, r)
    PROVE  /\ desk' \in [Desks -> DeskRow]
           /\ \A o \in Desks : desk'[o] = IF o = d THEN r ELSE desk[o]
  BY DEF ClientsInv, Serve

LEMMA ClientsInitInv == ClientsInit => ClientsInv
<1> SUFFICES ASSUME ClientsInit PROVE ClientsInv
  OBVIOUS
<1>1. desk \in [Desks -> DeskRow] /\ \A d \in Desks : desk[d] = Vacant
  BY VacantIsDesk DEF ClientsInit
<1>2. \A d \in Desks : DeskInv(d)
  BY <1>1, VacantIsDesk DEF DeskInv
<1>3. BillingFollowsStatus
  BY DEF ClientsInit, BillingFollowsStatus
<1> QED
  BY <1>1, <1>2, <1>3, VacantIsDesk DEF ClientsInit, ClientsInv

\* What a step on the accounts has to keep: nobody is cancelling because of it.
LEMMA AccountStep ==
    ASSUME ClientsInv, UNCHANGED <<subs, stripe, directives, drifted, interrupted>>,
           relinked \subseteq relinked', accounts' \in [Emails -> Account \cup {NoOwner}],
           desk' \in [Desks -> DeskRow], \A d \in Desks : DeskInv(d)',
           \A d \in Desks : desk'[d] = desk[d] \/ (desk[d].at # "cancel" /\ desk'[d].at # "cancel"),
           \A d, o \in Desks :
              desk'[d].account = desk'[o].account /\ desk'[d].account \notin relinked' \cup {NoOwner} => d = o
    PROVE  ClientsInv'
<1>1. BillingFollowsStatus'
  <2> SUFFICES ASSUME NEW s \in Subs
               PROVE  /\ subs[s] = "cancelled" /\ stripe[s] = "active" => s \in drifted
                      /\ stripe[s] = "cancelled" /\ subs[s] = "active" => Cancelling(s)' \/ s \in interrupted
    BY DEF BillingFollowsStatus
  <2>1. Cancelling(s) => Cancelling(s)'
    BY DEF Cancelling
  <2> QED
    BY <2>1 DEF ClientsInv, BillingFollowsStatus
<1> QED
  BY <1>1 DEF ClientsInv

LEMMA RegisterClientInv ==
    ASSUME ClientsInv, NEW e \in Emails, RegisterClient(e)
    PROVE  ClientsInv'
<1> DEFINE row == [password |-> TRUE, google |-> NoOwner]
<1>a. row \in Account
  BY DEF Account
<1>2. /\ accounts' = [accounts EXCEPT ![e] = row] /\ accounts[e] = NoOwner
      /\ UNCHANGED <<subs, stripe, directives, desk, relinked, drifted, interrupted>>
  BY DEF RegisterClient, Registered
<1> HIDE DEF row
<1>1. row \in Account /\ row # NoOwner
  BY ONLY <1>a, NoAccountAssumption
<1>3. ASSUME NEW d \in Desks PROVE DeskInv(d)'
  <2>1. DeskInv(d) /\ (desk[d].at = "link" => desk[d].account # e)
    BY <1>2, DeskFacts DEF DeskInv, Registered
  <2> QED
    BY <1>2, <2>1 DEF DeskInv, Registered, ClientsInv
<1> QED
  BY <1>1, <1>2, <1>3, AccountStep DEF ClientsInv

LEMMA GoogleSignInInv ==
    ASSUME ClientsInv, NEW d \in Desks, NEW g \in Identities, NEW e \in Emails, GoogleSignIn(d, g, e)
    PROVE  ClientsInv'
<1> DEFINE at == IF Registered(e) THEN "link" ELSE "create"
           r == [Vacant EXCEPT !.at = at, !.account = e, !.identity = g]
<1>1. r \in DeskRow /\ r.at = at /\ r.account = e /\ r.identity = g
  BY VacantIsDesk DEF DeskRow
<1>2. /\ Serve(d, r) /\ desk[d] = Vacant /\ (Registered(e) => accounts[e].google = NoOwner)
      /\ relinked' = IF \E o \in Desks : desk[o].account = e THEN relinked \cup {e} ELSE relinked
      /\ UNCHANGED <<accounts, subs, stripe, directives, drifted, interrupted>>
  BY DEF GoogleSignIn
<1> HIDE DEF r
<1>3. /\ desk' \in [Desks -> DeskRow]
      /\ \A o \in Desks : desk'[o] = IF o = d THEN r ELSE desk[o]
  BY <1>1, <1>2, DesksAfter
<1>4. ASSUME NEW o \in Desks PROVE DeskInv(o)'
  <2>1. CASE o = d
    BY <1>1, <1>2, <1>3, <2>1 DEF DeskInv, Registered
  <2>2. CASE o # d
    <3>1. DeskInv(o) /\ desk'[o] = desk[o] /\ relinked \subseteq relinked'
      BY <1>2, <1>3, <2>2, DeskFacts
    <3> QED
      BY <1>2, <3>1 DEF DeskInv, Registered
  <2> QED
    BY <2>1, <2>2
<1>5. \A o, p \in Desks :
         desk'[o].account = desk'[p].account /\ desk'[o].account \notin relinked' \cup {NoOwner} => o = p
  BY <1>1, <1>2, <1>3 DEF ClientsInv
<1>6. \A o \in Desks : desk'[o] = desk[o] \/ (desk[o].at # "cancel" /\ desk'[o].at # "cancel")
  BY <1>1, <1>2, <1>3, VacantIsDesk
<1> QED
  BY <1>2, <1>3, <1>4, <1>5, <1>6, AccountStep DEF ClientsInv

\* The new row of an account that was the committing request's.
LEMMA CommitLinkInv ==
    ASSUME ClientsInv, NEW d \in Desks, CreateLinked(d) \/ LinkAccount(d)
    PROVE  ClientsInv'
<1> DEFINE e == desk[d].account
           g == desk[d].identity
<1>1. /\ e \in Emails /\ g \in Identities /\ desk[d].at \in {"create", "link"}
      /\ Serve(d, Vacant) /\ UNCHANGED <<subs, stripe, directives, relinked, drifted, interrupted>>
  BY DeskFacts DEF CreateLinked, LinkAccount, DeskInv
<1>2. PICK row \in Account : accounts' = [accounts EXCEPT ![e] = row] /\ row # NoOwner
  <2>1. CASE CreateLinked(d)
    <3>1. [password |-> FALSE, google |-> g] \in Account
      BY <1>1 DEF Account
    <3> QED
      BY <2>1, <3>1 DEF CreateLinked
  <2>2. CASE LinkAccount(d)
    <3>1. accounts[e] \in Account
      BY <2>2, <1>1, DeskFacts DEF LinkAccount, DeskInv, Registered, ClientsInv
    <3>2. [accounts[e] EXCEPT !.google = g] \in Account
      BY <1>1, <3>1 DEF Account
    <3>3. accounts' = [accounts EXCEPT ![e] = [accounts[e] EXCEPT !.google = g]]
      BY <2>2 DEF LinkAccount
    <3> QED
      BY <3>2, <3>3
  <2> QED
    BY <2>1, <2>2
<1> HIDE DEF g
<1>3. /\ desk' \in [Desks -> DeskRow]
      /\ \A o \in Desks : desk'[o] = IF o = d THEN Vacant ELSE desk[o]
  BY <1>1, VacantIsDesk, DesksAfter
<1>4. /\ accounts' \in [Emails -> Account \cup {NoOwner}] /\ accounts'[e] # NoOwner
      /\ \A x \in Emails : x # e => accounts'[x] = accounts[x]
  BY <1>1, <1>2 DEF ClientsInv
<1>5. ASSUME NEW o \in Desks PROVE DeskInv(o)'
  <2>1. CASE o = d
    BY <1>3, <2>1, VacantIsDesk DEF DeskInv
  <2>2. CASE o # d
    <3>1. DeskInv(o) /\ desk'[o] = desk[o]
      BY <1>3, <2>2, DeskFacts
    <3>2. desk[o].account = e => e \in relinked
      BY <1>1, <2>2 DEF ClientsInv
    <3>3. CASE desk[o].account = e
      BY <1>1, <1>4, <3>1, <3>2, <3>3 DEF DeskInv, Registered
    <3>4. CASE desk[o].account # e
      BY <1>1, <1>4, <3>1, <3>4 DEF DeskInv, Registered
    <3> QED
      BY <3>3, <3>4
  <2> QED
    BY <2>1, <2>2
<1>6. \A o, p \in Desks :
         desk'[o].account = desk'[p].account /\ desk'[o].account \notin relinked' \cup {NoOwner} => o = p
  BY <1>1, <1>3, VacantIsDesk DEF ClientsInv
<1>7. \A o \in Desks : desk'[o] = desk[o] \/ (desk[o].at # "cancel" /\ desk'[o].at # "cancel")
  BY <1>1, <1>3, VacantIsDesk
<1> QED
  BY <1>1, <1>3, <1>4, <1>5, <1>6, <1>7, AccountStep

-----------------------------------------------------------------------------
\* What a step on the subscriptions has to keep.
LEMMA BillingStep ==
    ASSUME ClientsInv, UNCHANGED <<accounts, relinked>>,
           subs' \in [Subs -> {"none", "active", "cancelled"}],
           stripe' \in [Subs -> {"none", "active", "cancelled"}],
           directives' \in [Subs -> {"none", "pending", "completed"}],
           desk' \in [Desks -> DeskRow], \A d \in Desks : DeskInv(d)',
           \A d \in Desks : desk'[d].account \in {desk[d].account, NoOwner},
           BillingFollowsStatus'
    PROVE  ClientsInv'
<1>1. \A d, o \in Desks :
         desk'[d].account = desk'[o].account /\ desk'[d].account \notin relinked \cup {NoOwner} => d = o
  BY DEF ClientsInv
<1> QED
  BY <1>1 DEF ClientsInv

LEMMA CreateSubscriptionInv ==
    ASSUME ClientsInv, NEW s \in Subs, CreateSubscription(s)
    PROVE  ClientsInv'
<1> PICK paid \in {"none", "active"} : stripe' = [stripe EXCEPT ![s] = paid]
  BY DEF CreateSubscription
<1>1. /\ subs[s] = "none" /\ subs' = [subs EXCEPT ![s] = "active"]
      /\ UNCHANGED <<accounts, directives, desk, relinked, drifted, interrupted>>
  BY DEF CreateSubscription
<1>2. /\ subs' \in [Subs -> {"none", "active", "cancelled"}]
      /\ stripe' \in [Subs -> {"none", "active", "cancelled"}]
      /\ subs'[s] = "active" /\ stripe'[s] = paid
      /\ \A x \in Subs : x # s => subs'[x] = subs[x] /\ stripe'[x] = stripe[x]
  BY <1>1 DEF ClientsInv
<1>3. ASSUME NEW d \in Desks PROVE DeskInv(d)'
  <2>1. DeskInv(d) /\ (desk[d].at \in {"stripe", "cancel"} => desk[d].sub \in Subs /\ desk[d].sub # s)
    BY <1>1, DeskFacts DEF DeskInv
  <2> QED
    BY <1>1, <1>2, <2>1 DEF DeskInv, Registered
<1>4. BillingFollowsStatus'
  BY <1>1, <1>2 DEF ClientsInv, BillingFollowsStatus, Cancelling
<1> QED
  BY <1>1, <1>2, <1>3, <1>4, BillingStep DEF ClientsInv

LEMMA DirectiveInv ==
    ASSUME ClientsInv, \/ UNCHANGED clientVars
                       \/ \E s \in Subs : AddDirective(s) \/ UpdateDirectiveResponse(s)
    PROVE  ClientsInv'
<1>1. /\ UNCHANGED <<accounts, subs, stripe, desk, relinked, drifted, interrupted>>
      /\ directives' \in [Subs -> {"none", "pending", "completed"}]
  BY DEF clientVars, AddDirective, UpdateDirectiveResponse, ClientsInv
<1>2. \A d \in Desks : DeskInv(d)'
  BY <1>1, DeskFacts DEF DeskInv, Registered
<1>3. BillingFollowsStatus'
  BY <1>1 DEF ClientsInv, BillingFollowsStatus, Cancelling
<1> QED
  BY <1>1, <1>2, <1>3, BillingStep DEF ClientsInv

LEMMA BeginCancelInv ==
    ASSUME ClientsInv, NEW d \in Desks, NEW s \in Subs, BeginCancel(d, s)
    PROVE  ClientsInv'
<1> DEFINE at == IF stripe[s] = "none" THEN "cancel" ELSE "stripe"
           r == [Vacant EXCEPT !.at = at, !.sub = s]
<1>1. r \in DeskRow /\ r.at = at /\ r.sub = s /\ r.account = NoOwner
  BY VacantIsDesk DEF DeskRow
<1>2. /\ Serve(d, r) /\ desk[d] = Vacant /\ subs[s] = "active"
      /\ UNCHANGED <<accounts, subs, stripe, directives, relinked, drifted, interrupted>>
  BY DEF BeginCancel
<1> HIDE DEF r
<1>3. /\ desk' \in [Desks -> DeskRow]
      /\ \A o \in Desks : desk'[o] = IF o = d THEN r ELSE desk[o]
  BY <1>1, <1>2, DesksAfter
<1>4. ASSUME NEW o \in Desks PROVE DeskInv(o)'
  BY <1>1, <1>2, <1>3, DeskFacts DEF DeskInv, Registered
<1>5. \A s2 \in Subs : Cancelling(s2) => Cancelling(s2)'
  BY <1>2, <1>3, VacantIsDesk DEF Cancelling
<1>6. BillingFollowsStatus'
  BY <1>2, <1>5 DEF ClientsInv, BillingFollowsStatus
<1> QED
  BY <1>1, <1>2, <1>3, <1>4, <1>6, BillingStep DEF ClientsInv

LEMMA CancelAtStripeInv == ASSUME ClientsInv, NEW d \in Desks, CancelAtStripe(d) PROVE ClientsInv'
<1> DEFINE s == desk[d].sub
           r == [desk[d] EXCEPT !.at = "cancel"]
<1>1. /\ desk[d] \in DeskRow /\ desk[d].at = "stripe" /\ s \in Subs /\ subs[s] # "none"
      /\ desk[d].account = NoOwner
  BY DeskFacts DEF CancelAtStripe, DeskInv
<1>2. r \in DeskRow /\ r.at = "cancel" /\ r.sub = s /\ r.account = NoOwner
  BY <1>1 DEF DeskRow
<1>3. /\ Serve(d, r) /\ UNCHANGED <<accounts, subs, directives, relinked, interrupted>>
      /\ \/ stripe' = [stripe EXCEPT ![s] = "cancelled"] /\ UNCHANGED drifted
         \/ drifted' = drifted \cup {s} /\ UNCHANGED stripe
  BY DEF CancelAtStripe
<1> HIDE DEF r, s
<1>4. /\ desk' \in [Desks -> DeskRow]
      /\ \A o \in Desks : desk'[o] = IF o = d THEN r ELSE desk[o]
  BY <1>2, <1>3, DesksAfter
<1>5. /\ stripe' \in [Subs -> {"none", "active", "cancelled"}] /\ drifted \subseteq drifted'
      /\ stripe'[s] # "active" \/ s \in drifted'
      /\ \A x \in Subs : stripe'[x] = stripe[x] \/ (x = s /\ stripe'[x] = "cancelled")
  BY <1>1, <1>3 DEF ClientsInv
<1>6. ASSUME NEW o \in Desks PROVE DeskInv(o)'
  <2>1. DeskInv(o)
    BY DeskFacts
  <2>2. CASE o = d
    BY <1>1, <1>2, <1>3, <1>4, <1>5, <2>2 DEF DeskInv
  <2>3. CASE o # d
    BY <1>3, <1>4, <1>5, <2>1, <2>3 DEF DeskInv, Registered
  <2> QED
    BY <2>2, <2>3
<1>7. \A x \in Subs : Cancelling(x) \/ x = s => Cancelling(x)'
  BY <1>1, <1>2, <1>4 DEF Cancelling
<1>8. BillingFollowsStatus'
  BY <1>3, <1>5, <1>7 DEF ClientsInv, BillingFollowsStatus
<1> QED
  BY <1>2, <1>3, <1>4, <1>5, <1>6, <1>8, BillingStep DEF ClientsInv

LEMMA CancelHereInv == ASSUME ClientsInv, NEW d \in Desks, CancelHere(d) PROVE ClientsInv'
<1> DEFINE s == desk[d].sub
<1>1. /\ desk[d].at = "cancel" /\ s \in Subs /\ (stripe[s] # "active" \/ s \in drifted)
      /\ desk[d].account = NoOwner
  BY DeskFacts DEF CancelHere, DeskInv
<1>2. /\ subs' = [subs EXCEPT ![s] = "cancelled"] /\ Serve(d, Vacant)
      /\ UNCHANGED <<accounts, stripe, directives, relinked, drifted, interrupted>>
  BY DEF CancelHere
<1> HIDE DEF s
<1>3. /\ desk' \in [Desks -> DeskRow]
      /\ \A o \in Desks : desk'[o] = IF o = d THEN Vacant ELSE desk[o]
  BY <1>2, VacantIsDesk, DesksAfter
<1>4. /\ subs' \in [Subs -> {"none", "active", "cancelled"}] /\ subs'[s] = "cancelled"
      /\ \A x \in Subs : x # s => subs'[x] = subs[x]
  BY <1>1, <1>2 DEF ClientsInv
<1>5. ASSUME NEW o \in Desks PROVE DeskInv(o)'
  <2>1. DeskInv(o)
    BY DeskFacts
  <2>2. CASE o = d
    BY <1>3, <2>2, VacantIsDesk DEF DeskInv
  <2>3. CASE o # d
    BY <1>2, <1>3, <1>4, <2>1, <2>3 DEF DeskInv, Registered
  <2> QED
    BY <2>2, <2>3
<1>6. \A x \in Subs : Cancelling(x) => Cancelling(x)' \/ x = s
  BY <1>3 DEF Cancelling, s
<1>7. BillingFollowsStatus'
  BY <1>1, <1>2, <1>4, <1>6 DEF ClientsInv, BillingFollowsStatus
<1> QED
  BY <1>1, <1>2, <1>3, <1>4, <1>5, <1>7, BillingStep, VacantIsDesk DEF ClientsInv

LEMMA HangupInv == ASSUME ClientsInv, NEW d \in Desks, Hangup(d) PROVE ClientsInv'
<1>1. /\ Serve(d, Vacant) /\ UNCHANGED <<accounts, subs, stripe, directives, relinked, drifted>>
      /\ interrupted' = IF desk[d].at = "cancel" THEN interrupted \cup {desk[d].sub} ELSE interrupted
  BY DEF Hangup
<1>2. /\ desk' \in [Desks -> DeskRow]
      /\ \A o \in Desks : desk'[o] = IF o = d THEN Vacant ELSE desk[o]
  BY <1>1, VacantIsDesk, DesksAfter
<1>3. \A o \in Desks : DeskInv(o)'
  BY <1>1, <1>2, VacantIsDesk, DeskFacts DEF DeskInv, Registered
<1>4. \A x \in Subs : Cancelling(x) => Cancelling(x)' \/ x \in interrupted'
  BY <1>1, <1>2 DEF Cancelling
<1>5. BillingFollowsStatus'
  BY <1>1, <1>4 DEF ClientsInv, BillingFollowsStatus
<1> QED
  BY <1>1, <1>2, <1>3, <1>5, BillingStep, VacantIsDesk DEF ClientsInv

LEMMA ClientsNextInv ==
    ASSUME ClientsInv, [AccountSteps \/ SubscriptionSteps]_clientVars
    PROVE  ClientsInv'
<1>1. ASSUME NEW d \in Desks,
             \/ CreateLinked(d) \/ LinkAccount(d) \/ Hangup(d) \/ CancelAtStripe(d) \/ CancelHere(d)
             \/ \E g \in Identities, e \in Emails : GoogleSignIn(d, g, e)
             \/ \E s \in Subs : BeginCancel(d, s)
      PROVE  ClientsInv'
  BY <1>1, CommitLinkInv, HangupInv, CancelAtStripeInv, CancelHereInv, GoogleSignInInv, BeginCancelInv
<1> QED
  BY <1>1, RegisterClientInv, CreateSubscriptionInv, DirectiveInv DEF AccountSteps, SubscriptionSteps

LEMMA LinkStays ==
    ASSUME ClientsInv, [AccountSteps \/ SubscriptionSteps]_clientVars, NEW e \in Emails, Registered(e)
    PROVE  /\ accounts[e].password => accounts'[e].password
           /\ accounts[e].google # NoOwner /\ e \notin relinked
                => accounts'[e].google = accounts[e].google
<1>1. CASE accounts' = accounts
  BY <1>1
<1>2. ASSUME NEW x \in Emails, RegisterClient(x)
      PROVE  accounts'[e] = accounts[e]
  BY <1>2 DEF RegisterClient, Registered, ClientsInv
<1>3. ASSUME NEW d \in Desks, CreateLinked(d)
      PROVE  accounts'[e] = accounts[e]
  BY <1>3 DEF CreateLinked, Registered, ClientsInv
<1>4. ASSUME NEW d \in Desks, LinkAccount(d)
      PROVE  /\ accounts[e].password => accounts'[e].password
             /\ accounts[e].google # NoOwner /\ e \notin relinked
                  => accounts'[e].google = accounts[e].google
  <2> DEFINE row == [accounts[e] EXCEPT !.google = desk[d].identity]
  <2>1. accounts[e] \in Account
    BY DEF Registered, ClientsInv
  <2>2. accounts' = [accounts EXCEPT ![desk[d].account].google = desk[d].identity]
    BY <1>4 DEF LinkAccount
  <2>3. CASE desk[d].account = e
    <3>1. accounts'[e] = row
      BY <2>2, <2>3 DEF ClientsInv
    <3>2. row.password = accounts[e].password
      BY <2>1 DEF Account
    <3>3. e \notin relinked => accounts[e].google = NoOwner
      BY <1>4, <2>3, DeskFacts DEF LinkAccount, DeskInv
    <3> QED
      BY <3>1, <3>2, <3>3
  <2>4. CASE desk[d].account # e
    <3>1. accounts'[e] = accounts[e]
      BY <2>2, <2>4 DEF ClientsInv
    <3> QED
      BY <3>1
  <2> QED
    BY <2>3, <2>4
<1> QED
  BY <1>1, <1>2, <1>3, <1>4 DEF AccountSteps, SubscriptionSteps, clientVars, GoogleSignIn, Hangup,
     CreateSubscription, AddDirective, UpdateDirectiveResponse, BeginCancel, CancelAtStripe, CancelHere

\* For any requests, accounts, identities and subscriptions: an account keeps its
\* identity and its password unless two identities were linking it at once, and
\* billing follows the status of the subscription unless Stripe refused or the
\* request stopped half-way.
THEOREM ClientsAreKeptAlways == ClientsSpec => ClientsAreKept
<1>1. ASSUME ClientsInv, [AccountSteps \/ SubscriptionSteps]_clientVars
      PROVE  [\A e \in Emails : Registered(e) =>
                /\ accounts[e].password => accounts'[e].password
                /\ accounts[e].google # NoOwner /\ e \notin relinked
                      => accounts'[e].google = accounts[e].google]_clientVars
  BY <1>1, LinkStays
<1>2. ClientsInv => BillingFollowsStatus /\ accounts \in [Emails -> Account \cup {NoOwner}]
  BY DEF ClientsInv
<1> QED
  BY <1>1, <1>2, ClientsInitInv, ClientsNextInv, PTL DEF ClientsSpec, ClientsAreKept, LinkIsKept

-----------------------------------------------------------------------------
(* Backup, restore and the readiness probe.                                  *)

(* What rows look like, in the database, in a file and in a copy.            *)
Rows == [agents : SUBSET AgentIds, links : SUBSET AgentIds, note : {"none", "plain", "dated", "redated"}]

BackupStages == {"idle", "agents", "links", "note", "open", "dump"}

(* The tables that a backup at each stage has copied.                        *)
Copied == [idle |-> {}, agents |-> {}, links |-> {"agents"}, note |-> {"agents", "links"},
           open |-> {"agents", "links", "note"}, dump |-> {"agents", "links", "note"}]

(* Every file in place is either whole or torn by a backup that is writing it or *)
(* was stopped; if nothing was written since its backup began, it is what the    *)
(* rows were then; and a copy in progress holds the rows of the tables read.     *)
BackupInv ==
    /\ database \in Rows /\ copy \in Rows /\ stage \in BackupStages /\ spoilt \in BOOLEAN
    /\ file \in Rows \cup {Missing, Torn}
    /\ file = Torn => stage = "dump" \/ spoilt
    /\ before = [file |-> before.file, copy |-> before.copy]
    /\ before.copy \in Rows \cup {Mixed} /\ before.file \in Rows \cup {Mixed}
    /\ before.file \in Rows => file = before.file
    /\ stage # "idle" /\ before.copy \in Rows =>
          database = before.copy /\ \A t \in Copied[stage] : copy[t] = before.copy[t]

(* The marks are no rows.                                                    *)
LEMMA MarksAreNoRows == Missing \notin Rows /\ Torn \notin Rows /\ Mixed \notin Rows /\ Nothing \in Rows
                        /\ Missing # Torn
  <1>1. Missing.note = "missing" /\ Torn.note = "torn" /\ Mixed.note = "mixed"
    BY DEF Missing, Torn, Mixed, Nothing
  <1>2. \A r \in Rows : r.note \in {"none", "plain", "dated", "redated"}
    BY DEF Rows
  <1>3. Nothing \in Rows
    BY DEF Nothing, Rows
  <1> QED BY <1>1, <1>2, <1>3

(* The invariant holds before anything was written.                          *)
LEMMA BackupStart == OperationsInit => BackupInv
  <1> SUFFICES ASSUME OperationsInit PROVE BackupInv
    OBVIOUS
  <1>1. /\ database = Nothing /\ file = Missing /\ copy = Nothing /\ stage = "idle" /\ spoilt = FALSE
        /\ before = [file |-> Mixed, copy |-> Mixed]
    BY DEF OperationsInit
  <1> QED BY <1>1, MarksAreNoRows DEF BackupInv, BackupStages

(* Rows are made of three tables.                                            *)
LEMMA RowsByTable ==
    ASSUME NEW r \in Rows, NEW s \in Rows, r.agents = s.agents, r.links = s.links, r.note = s.note
    PROVE  r = s
  BY DEF Rows

(* Writing a row spoils the comparison of a backup in progress.              *)
LEMMA WriteRowInv == BackupInv /\ WriteRow => BackupInv'
  <1> SUFFICES ASSUME BackupInv, WriteRow PROVE BackupInv'
    OBVIOUS
  <1>1. database' \in Rows
    <2>1. ASSUME NEW a \in AgentIds PROVE [database EXCEPT !.agents = @ \cup {a}] \in Rows
      BY DEF BackupInv, Rows
    <2>2. ASSUME NEW a \in database.agents PROVE [database EXCEPT !.links = @ \cup {a}] \in Rows
      BY DEF BackupInv, Rows
    <2>3. ASSUME NEW x \in {"plain", "dated"} PROVE [database EXCEPT !.note = x] \in Rows
      BY DEF BackupInv, Rows
    <2> QED BY <2>1, <2>2, <2>3 DEF WriteRow
  <1>2. UNCHANGED <<file, copy, stage, spoilt>>
    BY DEF WriteRow
  <1>3. CASE stage = "idle"
    <2>1. before' = before
      BY <1>3 DEF WriteRow
    <2> QED BY <1>1, <1>2, <1>3, <2>1 DEF BackupInv
  <1>4. CASE stage # "idle"
    <2>1. before' = [before EXCEPT !.copy = Mixed]
      BY <1>4 DEF WriteRow
    <2>2. before'.copy = Mixed /\ before'.file = before.file
          /\ before' = [file |-> before'.file, copy |-> before'.copy]
      BY <2>1 DEF BackupInv
    <2> QED BY <1>1, <1>2, <2>2, MarksAreNoRows DEF BackupInv
  <1> QED BY <1>3, <1>4

(* A backup begins with what the rows are.                                   *)
LEMMA BeginBackupInv == BackupInv /\ BeginBackup => BackupInv'
  <1> SUFFICES ASSUME BackupInv, BeginBackup PROVE BackupInv'
    OBVIOUS
  <1>1. before' = [before EXCEPT !.copy = database] /\ copy' = Nothing /\ stage' = "agents"
        /\ UNCHANGED <<database, file, spoilt>> /\ stage = "idle"
    BY DEF BeginBackup
  <1>2. before'.copy = database /\ before'.file = before.file
        /\ before' = [file |-> before'.file, copy |-> before'.copy]
    BY <1>1 DEF BackupInv
  <1>3. Copied["agents"] = {}
    BY DEF Copied
  <1> QED BY <1>1, <1>2, <1>3, MarksAreNoRows DEF BackupInv, BackupStages

(* A table is copied as it is.                                               *)
LEMMA ExportTableInv == BackupInv /\ ExportTable => BackupInv'
  <1> SUFFICES ASSUME BackupInv, ExportTable PROVE BackupInv'
    OBVIOUS
  <1>1. /\ stage \in {"agents", "links", "note"} /\ stage' = Following[stage]
        /\ copy' = [copy EXCEPT ![stage] = database[stage]]
        /\ UNCHANGED <<database, file, before, spoilt>>
    BY DEF ExportTable, Following
  <1>2. ASSUME NEW t \in {"agents", "links", "note"}, stage = t
        PROVE  copy' \in Rows /\ copy'[t] = database[t]
               /\ \A u \in {"agents", "links", "note"} \ {t} : copy'[u] = copy[u]
    <2>1. CASE t = "agents"
      BY <1>1, <1>2, <2>1 DEF BackupInv, Rows
    <2>2. CASE t = "links"
      BY <1>1, <1>2, <2>2 DEF BackupInv, Rows
    <2>3. CASE t = "note"
      BY <1>1, <1>2, <2>3 DEF BackupInv, Rows
    <2> QED BY <2>1, <2>2, <2>3
  <1>3. /\ stage' \in {"links", "note", "open"}
        /\ Copied[stage'] = Copied[stage] \cup {stage}
        /\ Copied[stage'] \subseteq {"agents", "links", "note"}
    <2>1. CASE stage = "agents"
      BY <1>1, <2>1 DEF Following, Copied
    <2>2. CASE stage = "links"
      BY <1>1, <2>2 DEF Following, Copied
    <2>3. CASE stage = "note"
      BY <1>1, <2>3 DEF Following, Copied
    <2> QED BY <1>1, <2>1, <2>2, <2>3
  <1>4. ASSUME before.copy \in Rows
        PROVE  database = before.copy /\ \A t \in Copied[stage'] : copy'[t] = before.copy[t]
    <2>1. database = before.copy /\ \A t \in Copied[stage] : copy[t] = before.copy[t]
      BY <1>1, <1>4 DEF BackupInv
    <2> QED BY <1>1, <1>2, <1>3, <2>1
  <1> QED BY <1>1, <1>2, <1>3, <1>4 DEF BackupInv, BackupStages

(* Opening the file tears it.                                                *)
LEMMA OpenFileInv == BackupInv /\ OpenFile => BackupInv'
  <1> SUFFICES ASSUME BackupInv, OpenFile PROVE BackupInv'
    OBVIOUS
  <1>1. before' = [before EXCEPT !.file = Mixed] /\ file' = Torn /\ stage' = "dump"
        /\ UNCHANGED <<database, copy, spoilt>> /\ stage = "open"
    BY DEF OpenFile
  <1>2. before'.file = Mixed /\ before'.copy = before.copy
        /\ before' = [file |-> before'.file, copy |-> before'.copy]
    BY <1>1 DEF BackupInv
  <1>3. Copied["dump"] = Copied["open"]
    BY DEF Copied
  <1> QED BY <1>1, <1>2, <1>3, MarksAreNoRows DEF BackupInv, BackupStages

(* The file written is the copy, hence what the rows were.                   *)
LEMMA DumpFileInv == BackupInv /\ DumpFile => BackupInv'
  <1> SUFFICES ASSUME BackupInv, DumpFile PROVE BackupInv'
    OBVIOUS
  <1>1. before' = [before EXCEPT !.file = before.copy] /\ file' = copy /\ stage' = "idle"
        /\ UNCHANGED <<database, copy, spoilt>> /\ stage = "dump"
    BY DEF DumpFile
  <1>2. before'.file = before.copy /\ before'.copy = before.copy
        /\ before' = [file |-> before'.file, copy |-> before'.copy]
    BY <1>1 DEF BackupInv
  <1>3. before.copy \in Rows => copy = before.copy
    <2>1. {"agents", "links", "note"} = Copied["dump"]
      BY DEF Copied
    <2> QED BY <1>1, <2>1, RowsByTable DEF BackupInv
  <1> QED BY <1>1, <1>2, <1>3, MarksAreNoRows DEF BackupInv, BackupStages

(* A backup that stops leaves the file as it is.                             *)
LEMMA StopBackupInv == BackupInv /\ StopBackup => BackupInv'
  BY DEF BackupInv, StopBackup, BackupStages

(* Restored rows are rows.                                                   *)
LEMMA RestoreInv == ASSUME BackupInv, NEW c \in BOOLEAN, Restore(c) PROVE BackupInv'
  <1>1. file \in Rows
    BY DEF BackupInv, Restore, Loadable
  <1>2. UNCHANGED <<file, copy, stage, before, spoilt>> /\ stage = "idle"
    BY DEF Restore
  <1>3. Reloaded(database.agents, file.agents, c) \subseteq AgentIds
        /\ Reloaded(database.links, file.links, c) \subseteq AgentIds
        /\ Deserialised(file.note) \in {"none", "plain", "dated", "redated"}
    BY <1>1 DEF Reloaded, Deserialised, BackupInv, Rows
  <1>4. database' \in Rows
    BY <1>3 DEF Restore, Rows
  <1> QED BY <1>2, <1>4 DEF BackupInv

(* Every step keeps the invariant of the backup.                             *)
LEMMA BackupStep ==
    BackupInv /\ ((BackupNext /\ UNCHANGED probeVars) \/ UNCHANGED backupVars) => BackupInv'
  <1>1. BackupInv /\ UNCHANGED backupVars => BackupInv'
    BY DEF BackupInv, backupVars
  <1> QED BY <1>1, WriteRowInv, BeginBackupInv, ExportTableInv, OpenFileInv, DumpFileInv,
             StopBackupInv, RestoreInv DEF BackupNext

(* A restore of an unmixed file is what the rows were.                       *)
LEMMA RestoredIsBefore ==
    ASSUME BackupInv, Restore(TRUE), before.file # Mixed
    PROVE  database' = [before.file EXCEPT !.note = Deserialised(@)]
  <1>1. before.file \in Rows /\ file = before.file
    BY DEF BackupInv
  <1>2. database' = [agents |-> file.agents, links |-> file.links, note |-> Deserialised(file.note)]
    BY DEF Restore, Reloaded
  <1>3. file = [agents |-> file.agents, links |-> file.links, note |-> file.note]
    BY <1>1 DEF Rows
  <1> QED BY <1>1, <1>2, <1>3

(* The components in the pipeline.                                           *)
Components == {"database", "config", "vault", "auth", "sessions", "openclaw", "integrations"}

(* Until something changes, the results so far are what the components answer. *)
ProbeInv ==
    /\ up \in [Components -> {"up", "down", "absent"}]
    /\ results \in Seq(BOOLEAN) /\ Len(results) <= Len(Pipeline)
    /\ ~shifting => \A i \in 1..Len(results) : results[i] = Answers(Pipeline[i])
    /\ shifting \in BOOLEAN

(* The pipeline asks every component once.                                   *)
LEMMA PipelineFacts ==
    /\ Len(Pipeline) = 7 /\ \A i \in 1..7 : Pipeline[i] \in Components
    /\ \A c \in Components : \E i \in 1..7 : Pipeline[i] = c
    /\ Critical \subseteq Components
  <1>1. /\ Len(Pipeline) = 7 /\ Pipeline[1] = "database" /\ Pipeline[2] = "config"
        /\ Pipeline[3] = "vault" /\ Pipeline[4] = "auth" /\ Pipeline[5] = "sessions"
        /\ Pipeline[6] = "openclaw" /\ Pipeline[7] = "integrations"
    BY DEF Pipeline
  <1>2. 1..7 = {1, 2, 3, 4, 5, 6, 7}
    OBVIOUS
  <1> QED BY <1>1, <1>2 DEF Components, Critical

(* Nothing was asked at the start.                                           *)
LEMMA ProbeStart == OperationsInit => ProbeInv
  <1> SUFFICES ASSUME OperationsInit PROVE ProbeInv
    OBVIOUS
  <1>1. up \in [Components -> {"up", "down", "absent"}]
    BY DEF OperationsInit, Components
  <1>2. results = <<>> /\ shifting = FALSE
    BY DEF OperationsInit
  <1>3. results \in Seq(BOOLEAN) /\ Len(results) = 0
    BY <1>2
  <1>4. Len(results) <= Len(Pipeline) /\ \A i \in 1..Len(results) : FALSE
    BY <1>3, PipelineFacts
  <1> QED BY <1>1, <1>2, <1>3, <1>4 DEF ProbeInv

(* Every step keeps the results true until something changes.                *)
LEMMA ProbeStep ==
    ProbeInv /\ ((ProbeNext /\ UNCHANGED backupVars) \/ UNCHANGED probeVars) => ProbeInv'
  <1>1. ASSUME ProbeInv, UNCHANGED probeVars PROVE ProbeInv'
    BY <1>1 DEF ProbeInv, probeVars, Answers, NotBroken, Queryable
  <1>2. ASSUME ProbeInv, NEW c \in DOMAIN up, Flip(c) PROVE ProbeInv'
    <2>1. up' \in [Components -> {"up", "down", "absent"}]
      BY <1>2 DEF ProbeInv, Flip
    <2>2. results' = results /\ shifting' = (shifting \/ results # <<>>)
      BY <1>2 DEF Flip
    <2>3. ~shifting' => Len(results') = 0
      BY <2>2
    <2> QED BY <1>2, <2>1, <2>2, <2>3 DEF ProbeInv
  <1>3. ASSUME ProbeInv, CheckComponent PROVE ProbeInv'
    <2> DEFINE n == Len(results)  v == Answers(Pipeline[n + 1])
    <2>1. n \in Nat /\ n < Len(Pipeline) /\ results' = Append(results, v)
          /\ UNCHANGED <<up, shifting>>
      BY <1>3 DEF ProbeInv, CheckComponent
    <2>2. v \in BOOLEAN
      BY DEF Answers, NotBroken, Queryable
    <2>3. /\ results' \in Seq(BOOLEAN) /\ Len(results') = n + 1 /\ results'[n + 1] = v
          /\ \A i \in 1..n : results'[i] = results[i]
      BY <1>3, <2>1, <2>2 DEF ProbeInv
    <2>4. \A x : Answers(x)' = Answers(x)
      BY <2>1 DEF Answers, NotBroken, Queryable
    <2>5. ASSUME ~shifting, NEW i \in 1..n + 1 PROVE results'[i] = Answers(Pipeline[i])
      BY <1>3, <2>1, <2>3, <2>5 DEF ProbeInv
    <2>6. n + 1 <= Len(Pipeline)
      BY <2>1, PipelineFacts
    <2> QED BY <1>3, <2>1, <2>3, <2>4, <2>5, <2>6 DEF ProbeInv
  <1>4. ASSUME ProbeInv, Conclude PROVE ProbeInv'
    <2>1. results' = <<>> /\ shifting' = FALSE /\ up' = up
      BY <1>4 DEF Conclude
    <2>2. results' \in Seq(BOOLEAN) /\ Len(results') = 0
      BY <2>1
    <2>3. Len(results') <= Len(Pipeline) /\ \A i \in 1..Len(results') : FALSE
      BY <2>2, PipelineFacts
    <2> QED BY <1>4, <2>1, <2>2, <2>3 DEF ProbeInv
  <1> QED BY <1>1, <1>2, <1>3, <1>4 DEF ProbeNext

(* A probe that nothing changed under reports what the components answer.    *)
LEMMA ReportedTruly ==
    ASSUME ProbeInv, Conclude, ~shifting
    PROVE  /\ (report' = "unavailable") <=> \E c \in Critical : ~Answers(c)
           /\ (report' = "ready") <=> \A c \in DOMAIN up : Answers(c)
           /\ report' # "unavailable" => DependenciesReady
  <1>1. Len(results) = 7 /\ DOMAIN results = 1..7 /\ DOMAIN up = Components
    BY PipelineFacts DEF ProbeInv, Conclude
  <1>2. \A i \in 1..7 : results[i] = Answers(Pipeline[i])
    BY <1>1 DEF ProbeInv
  <1>3. Failed = {c \in Components : ~Answers(c)}
    BY <1>1, <1>2, PipelineFacts DEF Failed
  <1>4. report' = OverallStatus
    BY DEF Conclude
  <1>5. (Failed \cap Critical # {}) <=> \E c \in Critical : ~Answers(c)
    BY <1>3, PipelineFacts
  <1>6. (Failed # {}) <=> ~ \A c \in Components : Answers(c)
    BY <1>3
  <1>7. "database" \in Critical /\ "config" \in Critical
    BY DEF Critical
  <1> QED BY <1>1, <1>4, <1>5, <1>6, <1>7, PipelineFacts DEF OverallStatus, DependenciesReady

(* For any agents, writes and changes: a file that was ever written verifies      *)
(* unless a backup is writing it or one was stopped while it did; restoring one   *)
(* that nothing was written beside brings every row back but for texts that look  *)
(* like timestamps; and a probe under which nothing changed reports the truth.    *)
THEOREM OperationsHoldAlways == OperationsSpec => OperationsHold
  <1>1. OperationsInit => BackupInv /\ ProbeInv
    BY BackupStart, ProbeStart
  <1>2. BackupInv /\ ProbeInv
          /\ [(BackupNext /\ UNCHANGED probeVars) \/ (ProbeNext /\ UNCHANGED backupVars)]_<<backupVars, probeVars>>
        => (BackupInv /\ ProbeInv)'
    BY BackupStep, ProbeStep
  <1>3. BackupInv => FileIsWhole
    BY DEF BackupInv, FileIsWhole, Verified, Loadable
  <1>4. BackupInv => [Restore(TRUE) => before.file = Mixed
              \/ database' = [before.file EXCEPT !.note = Deserialised(@)]]_backupVars
    BY RestoredIsBefore
  <1>5. ProbeInv => [Conclude /\ ~shifting =>
            /\ (report' = "unavailable") <=> \E c \in Critical : ~Answers(c)
            /\ (report' = "ready") <=> \A c \in DOMAIN up : Answers(c)
            /\ report' # "unavailable" => DependenciesReady]_probeVars
    BY ReportedTruly
  <1>6. OperationsSpec => [](BackupInv /\ ProbeInv)
    BY <1>1, <1>2, PTL DEF OperationsSpec
  <1> QED BY <1>3, <1>4, <1>5, <1>6, PTL DEF OperationsHold, RestoreBringsBack, ReportIsTrue
=============================================================================
