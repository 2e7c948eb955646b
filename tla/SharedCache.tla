---------------------------- MODULE SharedCache ----------------------------
(* The process's cache (core/cache/backend.py): the backend is made on the   *)
(* first call, and an entry of the in-memory one expires.                    *)
EXTENDS Naturals

CONSTANTS
    Users,     \* threads
    TTLs,      \* lifetimes asked for; one of 0 or less stores nothing
    MaxSecond, \* bound: ticks
    Unbuilt    \* no backend

ASSUME CacheAssumption ==
    TTLs \subseteq Nat /\ MaxSecond \in Nat /\ Unbuilt \notin Nat \cup Users

VARIABLES
    second,     \* the clock
    instance,   \* the backend of the process, numbered as made
    made,       \* backends made
    lock,       \* who holds the resolver's lock
    user,       \* what each thread is doing and the backend it was given
    entry,      \* the one key's entry: when it expires, none if absent
    served,     \* history: a value was served after its expiry had been readable
    lost        \* history: an entry was evicted while it was alive

cacheVars == <<second, instance, made, lock, user, entry, served, lost>>

Absence == Unbuilt
Outside == [at |-> "out", backend |-> Unbuilt, now |-> 0]
Do(u, r) == user' = [user EXCEPT ![u] = r]

CacheInit ==
    /\ second = 0 /\ instance = Unbuilt /\ made = 0 /\ lock = Unbuilt
    /\ user = [u \in Users |-> Outside]
    /\ entry = Absence /\ served = FALSE /\ lost = FALSE

\* get_cache: look, lock, look again.
GetCache(u) ==
    /\ user[u].at = "out" /\ user[u].backend = Unbuilt
    /\ Do(u, IF instance = Unbuilt THEN [user[u] EXCEPT !.at = "resolve"]
             ELSE [user[u] EXCEPT !.backend = instance])
    /\ UNCHANGED <<second, instance, made, lock, entry, served, lost>>

LockResolver(u) ==
    /\ user[u].at = "resolve" /\ lock = Unbuilt
    /\ lock' = u
    /\ Do(u, [user[u] EXCEPT !.at = "locked"])
    /\ UNCHANGED <<second, instance, made, entry, served, lost>>

\* Mutant: the second look is left out.
ResolveAgain(u) ==
    /\ user[u].at = "locked"
    /\ instance' = made + 1 /\ made' = made + 1 /\ lock' = Unbuilt
    /\ Do(u, [Outside EXCEPT !.backend = made + 1])
    /\ UNCHANGED <<second, entry, served, lost>>

Resolve(u) ==
    /\ user[u].at = "locked"
    /\ lock' = Unbuilt
    /\ \/ /\ instance = Unbuilt
          /\ instance' = made + 1 /\ made' = made + 1
          /\ Do(u, [Outside EXCEPT !.backend = made + 1])
       \/ /\ instance # Unbuilt
          /\ Do(u, [Outside EXCEPT !.backend = instance])
          /\ UNCHANGED <<instance, made>>
    /\ UNCHANGED <<second, entry, served, lost>>

Using(u) == user[u].at = "out" /\ user[u].backend # Unbuilt

\* get reads the time before it takes the lock ...
BeginGet(u) ==
    /\ Using(u)
    /\ Do(u, [user[u] EXCEPT !.at = "get", !.now = second])
    /\ UNCHANGED <<second, instance, made, lock, entry, served, lost>>

Expired(now) == entry # Absence /\ entry < now

\* ... under which it evicts the entry or takes its value.
FinishGet(u) ==
    /\ user[u].at = "get"
    /\ LET now == user[u].now IN
        /\ entry' = IF Expired(now) THEN Absence ELSE entry
        /\ lost' = (lost \/ (Expired(now) /\ entry >= second))
        /\ served' = (served \/ (entry # Absence /\ ~Expired(now) /\ entry < now))
    /\ Do(u, [user[u] EXCEPT !.at = "out", !.now = 0])
    /\ UNCHANGED <<second, instance, made, lock>>

CacheSet(u, ttl) ==
    /\ Using(u) /\ ttl > 0
    /\ entry' = second + ttl
    /\ UNCHANGED <<second, instance, made, lock, user, served, lost>>

CacheDelete(u) ==
    /\ Using(u)
    /\ entry' = Absence
    /\ UNCHANGED <<second, instance, made, lock, user, served, lost>>

SecondPasses ==
    /\ second < MaxSecond
    /\ second' = second + 1
    /\ UNCHANGED <<instance, made, lock, user, entry, served, lost>>

CacheNext ==
    \/ SecondPasses
    \/ \E u \in Users :
        \/ GetCache(u) \/ LockResolver(u) \/ Resolve(u)
        \/ BeginGet(u) \/ FinishGet(u) \/ CacheDelete(u)
        \/ \E ttl \in TTLs : CacheSet(u, ttl)

CacheSpec == CacheInit /\ [][CacheNext]_cacheVars

-----------------------------------------------------------------------------
\* However the first calls race, every thread is given the same backend, so
\* what one stores the others find (get_cache).
OneBackend == \A u, v \in Users : user[u].backend = user[v].backend
                                  \/ Unbuilt \in {user[u].backend, user[v].backend}

\* A thread that stalls between reading the time and taking the lock evicts no
\* living entry and serves none that had expired when it asked (InMemoryCache.get).
ExpiryIsExact == ~lost /\ ~served

\* There is one cache, and it keeps an entry exactly as long as it lives.
CacheHolds == OneBackend /\ ExpiryIsExact
=============================================================================
