---------------------------- MODULE RateLimiter ----------------------------
(* One slot of the fixed-window rate limiter (core/security/rate_limit.py):  *)
(* check() reads the time before it takes the lock, so a request that waits  *)
(* for the lock is counted at a time that has passed.                        *)
EXTENDS Naturals, Integers, Sequences, FiniteSets

CONSTANTS
    Arrivals,     \* threads inside check()
    Limit,        \* requests allowed per window; a limit of 0 switches the bucket off
    Window,       \* length of a window
    MaxMoment,    \* bound: ticks
    MaxAdmitted   \* bound: requests admitted

ASSUME LimiterAssumption ==
    /\ Limit \in Nat \ {0} /\ Window \in Nat \ {0}
    /\ MaxMoment \in Nat /\ MaxAdmitted \in Nat

VARIABLES
    moment,     \* the monotonic clock
    slot,       \* the window of the slot: its start and count, or none yet
    read,       \* what each thread read as the time, -1 if it has not
    admitted,   \* history: when requests were admitted
    stalled,    \* history: windows opened by a thread that had waited
    unfair      \* history: a request was refused though fewer than Limit were
                \*   admitted within a window of the time it read

limiterVars == <<moment, slot, read, admitted, stalled, unfair>>

NoWindow == [start |-> -1, count |-> 0]

LimiterInit ==
    /\ moment = 0 /\ slot = NoWindow
    /\ read = [a \in Arrivals |-> -1]
    /\ admitted = <<>> /\ stalled = 0 /\ unfair = FALSE

ReadTime(a) ==
    /\ read[a] = -1
    /\ read' = [read EXCEPT ![a] = moment]
    /\ UNCHANGED <<moment, slot, admitted, stalled, unfair>>

Over(now) == slot = NoWindow \/ now - slot.start >= Window

\* Mutant: the window is full one request late.
OverFull(win) == win.count > Limit

Full(win) == win.count >= Limit

\* The critical section of check().
Check(a) ==
    /\ read[a] # -1 /\ Len(admitted) < MaxAdmitted
    /\ LET now == read[a]
           admits == Over(now) \/ ~Full(slot)
           recent == {i \in DOMAIN admitted : admitted[i] > now - Window}
       IN  /\ slot' = IF Over(now) THEN [start |-> now, count |-> 1]
                      ELSE IF admits THEN [slot EXCEPT !.count = @ + 1] ELSE slot
           /\ admitted' = IF admits THEN Append(admitted, moment) ELSE admitted
           /\ stalled' = IF Over(now) /\ now < moment THEN stalled + 1 ELSE stalled
           /\ unfair' = (unfair \/ (~admits /\ Cardinality(recent) < Limit))
    /\ read' = [read EXCEPT ![a] = -1]
    /\ UNCHANGED moment

LimiterTick ==
    /\ moment < MaxMoment
    /\ moment' = moment + 1
    /\ UNCHANGED <<slot, read, admitted, stalled, unfair>>

LimiterNext == LimiterTick \/ \E a \in Arrivals : ReadTime(a) \/ Check(a)

LimiterSpec == LimiterInit /\ [][LimiterNext]_limiterVars

-----------------------------------------------------------------------------
Within(t) == {i \in DOMAIN admitted : admitted[i] \in t..(t + Window - 1)}

\* In any stretch of one window's length less than twice the limit is
\* admitted, and a limit more for every window that a thread which had waited for the
\* lock opened in the past (RateLimiter.check).
BurstBounded == \A t \in 0..MaxMoment : Cardinality(Within(t)) < Limit * (2 + stalled)

\* Nobody is refused unless the limit was admitted less than a window ago.
RefusedOnlyWhenFull == ~unfair

\* The limiter is neither looser nor stricter than its fixed windows make it.
LimitHolds == BurstBounded /\ RefusedOnlyWhenFull
=============================================================================
