----------------------------- MODULE LlmBudget -----------------------------
(* The per-customer budget (budget.py) as LLMGateway.complete uses it: a     *)
(* check before the prompt is sent, an accrual after it was answered, and no *)
(* lock held in between.  Every method reads the clock before it takes the   *)
(* tracker's lock, so a thread can carry yesterday's date into the lock.     *)
(*                                                                           *)
(* Days are numbered from 1 and a month is DaysPerMonth of them; amounts are *)
(* whole units of cost.                                                      *)
EXTENDS Integers, FiniteSetsExt

CONSTANTS
    Threads,        \* the workers calling the gateway
    Customers,
    Nobody,         \* the customer of a thread that serves no call
    Costs,          \* what an answered call may cost
    Caps,           \* the caps an operator may set
    DefaultCap,     \* the cap from the environment
    DaysPerMonth,
    MaxDay,         \* bound on the calendar
    MaxCalls        \* bound on the calls that start

Cap == [daily : Int, monthly : Int]

ASSUME BudgetAssumption ==
    /\ Nobody \notin Customers
    /\ IsFiniteSet(Threads)
    /\ Costs \subseteq Nat
    /\ \E most \in Costs : \A c \in Costs : c <= most
    /\ Caps \subseteq Cap /\ DefaultCap \in Cap
    /\ DaysPerMonth \in Nat \ {0}
    /\ MaxDay \in Nat \ {0} /\ MaxCalls \in Nat

VARIABLES
    today,      \* the calendar
    spent,      \* BudgetTracker._spent
    caps,       \* the cap in force for each customer
    at,         \* where each thread is
    work,       \* what each thread carries
    calls,      \* number of calls started
    charged,    \* history: what each customer's calls of each date cost
    forgotten,  \* history: customers of whom the tracker lost an accrual
    recapped    \* history: customers whose cap was changed

budgetVars == <<today, spent, caps, at, work, calls, charged, forgotten, recapped>>

Days == 1..MaxDay
Month(d) == (d - 1) \div DaysPerMonth

\* The keys of the two windows are the date and its month.
Entry == [day : 0..MaxDay, daily : Nat, monthly : Nat]
NoEntry == [day |-> 0, daily |-> 0, monthly |-> 0]

Work == [customer : Customers \cup {Nobody}, now : 0..MaxDay,
         daily : Nat, monthly : Nat, cost : Nat]
NoWork == [customer |-> Nobody, now |-> 0, daily |-> 0, monthly |-> 0, cost |-> 0]
Places == {"out", "dated", "read", "running", "stamped"}

BudgetInit ==
    /\ today = 1
    /\ spent = [u \in Customers |-> NoEntry]
    /\ caps = [u \in Customers |-> DefaultCap]
    /\ at = [t \in Threads |-> "out"]
    /\ work = [t \in Threads |-> NoWork]
    /\ calls = 0
    /\ charged = [u \in Customers |-> [d \in Days |-> 0]]
    /\ forgotten = {}
    /\ recapped = {}

\* The two amounts of a stored entry that still count on date d.
DailyOn(e, d) == IF e.day = d THEN e.daily ELSE 0
MonthlyOn(e, d) == IF e.day > 0 /\ Month(e.day) = Month(d) THEN e.monthly ELSE 0

\* Mutant: exhausted only above the cap.
ReachedAbove(amount, cap) == cap > 0 /\ amount > cap

\* A cap of zero or less is no cap.
Reached(amount, cap) == cap > 0 /\ amount >= cap
Exhausted(daily, monthly, cap) == Reached(daily, cap.daily) \/ Reached(monthly, cap.monthly)

-----------------------------------------------------------------------------
(* check_or_raise: the date, the bucket under the lock, the cap under the lock. *)

Enter(t) ==
    /\ at[t] = "out"
    /\ calls < MaxCalls
    /\ calls' = calls + 1
    /\ \E u \in Customers :
        work' = [work EXCEPT ![t] = [NoWork EXCEPT !.customer = u, !.now = today]]
    /\ at' = [at EXCEPT ![t] = "dated"]
    /\ UNCHANGED <<today, spent, caps, charged, forgotten, recapped>>

ReadBucket(t) ==
    /\ at[t] = "dated"
    /\ LET e == spent[work[t].customer] IN
        work' = [work EXCEPT ![t].daily = DailyOn(e, work[t].now),
                             ![t].monthly = MonthlyOn(e, work[t].now)]
    /\ at' = [at EXCEPT ![t] = "read"]
    /\ UNCHANGED <<today, spent, caps, calls, charged, forgotten, recapped>>

Leave(t) ==
    /\ at' = [at EXCEPT ![t] = "out"]
    /\ work' = [work EXCEPT ![t] = NoWork]

Judge(t) ==
    /\ at[t] = "read"
    /\ IF Exhausted(work[t].daily, work[t].monthly, caps[work[t].customer])
       THEN Leave(t)
       ELSE /\ at' = [at EXCEPT ![t] = "running"]
            /\ work' = [work EXCEPT ![t].daily = 0, ![t].monthly = 0]
    /\ UNCHANGED <<today, spent, caps, calls, charged, forgotten, recapped>>

-----------------------------------------------------------------------------
(* The call, and record_cost: the date, then both windows under the lock.      *)

\* A call that is blocked, unavailable or taken by infusion accrues nothing.
Unbilled(t) ==
    /\ at[t] = "running"
    /\ Leave(t)
    /\ UNCHANGED <<today, spent, caps, calls, charged, forgotten, recapped>>

Answered(t) ==
    /\ at[t] = "running"
    /\ \E c \in Costs : work' = [work EXCEPT ![t].cost = c, ![t].now = today]
    /\ at' = [at EXCEPT ![t] = "stamped"]
    /\ UNCHANGED <<today, spent, caps, calls, charged, forgotten, recapped>>

\* Mutant: an accrual that replaces the day's amount.
AccruedAnew(e, now, cost) ==
    [day |-> now, daily |-> cost, monthly |-> MonthlyOn(e, now) + cost]

Accrued(e, now, cost) ==
    [day |-> now, daily |-> DailyOn(e, now) + cost, monthly |-> MonthlyOn(e, now) + cost]

\* A date older than the entry's takes the tracker back to that day.
RecordCost(t) ==
    LET u == work[t].customer
        now == work[t].now
    IN
    /\ at[t] = "stamped"
    /\ spent' = [spent EXCEPT ![u] = Accrued(@, now, work[t].cost)]
    /\ charged' = [charged EXCEPT ![u][now] = @ + work[t].cost]
    /\ forgotten' = IF now < spent[u].day THEN forgotten \cup {u} ELSE forgotten
    /\ Leave(t)
    /\ UNCHANGED <<today, caps, calls, recapped>>

-----------------------------------------------------------------------------
SetCap(u, cap) ==
    /\ caps[u] # cap
    /\ caps' = [caps EXCEPT ![u] = cap]
    /\ recapped' = recapped \cup {u}
    /\ UNCHANGED <<today, spent, at, work, calls, charged, forgotten>>

Midnight ==
    /\ today < MaxDay
    /\ today' = today + 1
    /\ UNCHANGED <<spent, caps, at, work, calls, charged, forgotten, recapped>>

\* The tracker and its caps live in the process.
Restart ==
    /\ calls > 0
    /\ spent' = [u \in Customers |-> NoEntry]
    /\ caps' = [u \in Customers |-> DefaultCap]
    /\ at' = [t \in Threads |-> "out"]
    /\ work' = [t \in Threads |-> NoWork]
    /\ forgotten' = forgotten \cup {u \in Customers : spent[u] # NoEntry}
    /\ recapped' = recapped \cup {u \in Customers : caps[u] # DefaultCap}
    /\ UNCHANGED <<today, calls, charged>>

BudgetNext ==
    \/ \E t \in Threads :
        Enter(t) \/ ReadBucket(t) \/ Judge(t) \/ Unbilled(t) \/ Answered(t) \/ RecordCost(t)
    \/ \E u \in Customers, cap \in Caps : SetCap(u, cap)
    \/ Midnight
    \/ Restart

BudgetSpec == BudgetInit /\ [][BudgetNext]_budgetVars

-----------------------------------------------------------------------------
(* Properties                                                                 *)

\* Every variable keeps its type.
BudgetTypeOK ==
    /\ today \in Days
    /\ spent \in [Customers -> Entry]
    /\ caps \in [Customers -> Caps \cup {DefaultCap}]
    /\ at \in [Threads -> Places]
    /\ work \in [Threads -> Work]
    /\ calls \in 0..MaxCalls
    /\ charged \in [Customers -> [Days -> Nat]]
    /\ forgotten \subseteq Customers
    /\ recapped \subseteq Customers

MonthOf(d) == {e \in Days : Month(e) = Month(d)}
Charged(u, D) == MapThenSumSet(LAMBDA d : charged[u][d], D)

\* No accrual is lost or counted twice by concurrent calls and lazy rollover:
\* the tracker's windows hold what calls of that day and month cost, unless a
\* date carried across midnight or a restart made it forget.
TrackedExactly ==
    \A u \in Customers \ forgotten :
        /\ DailyOn(spent[u], today) = charged[u][today]
        /\ MonthlyOn(spent[u], today) = Charged(u, MonthOf(today))

\* What a customer can be charged in a day exceeds the cap by no more than the
\* calls that were already past the check: one per thread.
CapOvershoot ==
    \A u \in Customers \ (forgotten \cup recapped), d \in Days :
        caps[u].daily > 0 =>
            charged[u][d] < caps[u].daily + Cardinality(Threads) * Max(Costs)

\* The tracker tells what was charged, and what was charged respects the caps up
\* to the calls in flight, whatever threads, midnights and restarts come between.
BudgetIsKept == BudgetTypeOK /\ TrackedExactly /\ CapOvershoot

\* An exhausted customer stays exhausted until the date or the cap changes, the
\* process restarts or an accrual of an earlier day takes the tracker back.
ExhaustedToday(u) ==
    Exhausted(DailyOn(spent[u], today), MonthlyOn(spent[u], today), caps[u])

ExhaustedHolds ==
    [][\A u \in Customers :
        /\ ExhaustedToday(u)
        /\ today' = today
        /\ caps'[u] = caps[u]
        /\ spent'[u].day >= spent[u].day
        => ExhaustedToday(u)']_budgetVars
=============================================================================
