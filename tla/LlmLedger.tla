----------------------------- MODULE LlmLedger ------------------------------
(* What surrounds a call to a model: the router that picks the model         *)
(* (router.py), the price of the answer and the process's telemetry of it    *)
(* (llm_telemetry.py, prom.py), the cost each mission has run up             *)
(* (mission_cost.py), and the queue of requests that can wait (batch.py).    *)
EXTENDS Integers, FiniteSetsExt, SequencesExt

CONSTANTS
    Recorders,     \* threads with an answered call, and threads that flush the queue
    Missions,
    Usages,      \* what a call may cost: [model, input, output], tokens in thousands
    Overrides,     \* values of AOS_LLM_PRICING: by model, some of the two rates
    Questions,     \* prompts the router may be asked about
    RouterSettings,\* the router's environment
    RingLimit,     \* bound of the telemetry ring: 1,000 records
    MaxAnswers,    \* bound on the answered calls
    MaxRequests    \* bound on the requests put in the queue

Haiku == "claude-haiku-4-5"
Sonnet == "claude-sonnet-4-6"
Opus == "claude-opus-4-7"
Models == {Haiku, Sonnet, Opus}

ASSUME LedgerAssumption ==
    /\ RingLimit \in Nat \ {0} /\ MaxAnswers \in Nat /\ MaxRequests \in Nat
    /\ IsFiniteSet(Missions)
    /\ \A a \in Usages : a.model \in Models /\ a.input \in Int /\ a.output \in Int
    /\ \A table \in Overrides : \A m \in DOMAIN table : \A d \in DOMAIN table[m] : table[m][d] \in Int
    /\ \A q \in Questions : q.length \in Int
    /\ \A s \in RouterSettings : s.on \in BOOLEAN /\ s.small \in Int /\ s.large \in Int

VARIABLES
    pricing,    \* AOS_LLM_PRICING
    called,     \* aos_llm_calls_total, by model
    priced,     \* aos_llm_cost_usd_total, by model
    ring,       \* the last calls, oldest first
    buckets,    \* what each mission has cost
    recorder,   \* what each thread is doing
    answers,    \* history: the answered calls, in the order they were taken up
    routed,     \* the question the router was asked, and its answer
    pending,    \* BatchQueue._pending
    flusher,    \* what each flushing thread is doing
    batches,    \* batches the provider has accepted
    told,       \* history: what the callers of a flush were told
    forsaken,   \* history: requests in memory when the process stopped
    queued      \* history: requests put in the queue, numbered

ledgerVars == <<pricing, called, priced, ring, buckets, recorder, answers>>
batchVars == <<pending, flusher, batches, told, forsaken, queued>>
sideVars == <<ledgerVars, routed, batchVars>>

-----------------------------------------------------------------------------
(* choose_model.                                                             *)

\* A threshold that is no positive number is the default one.
Threshold(set, default) == IF set > 0 THEN set ELSE default

\* What the prompt's length alone asks for.
BySize(s, q) ==
    IF q.length >= Threshold(s.large, 8000) THEN Opus
    ELSE IF q.length <= Threshold(s.small, 1500) THEN Haiku
    ELSE Sonnet

ChooseModel(s, q) ==
    IF ~s.on THEN Sonnet
    ELSE IF s.pin # "" THEN s.pin
    ELSE IF q.risk = "high" THEN Opus
    ELSE IF q.task \in DOMAIN s.tasks THEN s.tasks[q.task]
    ELSE BySize(s, q)

Unasked == [settings |-> "none"]
AskRouter ==
    /\ routed = Unasked
    /\ \E s \in RouterSettings, q \in Questions :
         routed' = [settings |-> s, question |-> q, model |-> ChooseModel(s, q)]

-----------------------------------------------------------------------------
(* estimate_cost_usd: thousandths of a dollar per thousand tokens.           *)

DefaultPricing == [input |-> [m \in Models |-> CASE m = Opus -> 15 [] m = Sonnet -> 3 [] OTHER -> 1],
                   output |-> [m \in Models |-> CASE m = Opus -> 75 [] m = Sonnet -> 15 [] OTHER -> 5]]

\* An override stands for the model's whole entry: the rate it leaves out is zero.
Rate(table, model, direction) ==
    IF model \notin DOMAIN table THEN DefaultPricing[direction][model]
    ELSE IF direction \in DOMAIN table[model] THEN table[model][direction] ELSE 0

EstimateCost(table, a) ==
    a.input * Rate(table, a.model, "input") + a.output * Rate(table, a.model, "output")

-----------------------------------------------------------------------------
(* One answered call: counters, ring, mission, and the snapshot that record  *)
(* builds when it no longer holds the lock.                                  *)

NoBucket == [total |-> 0, count |-> 0, models |-> <<>>]
Snapshot == [total |-> 0, count |-> 0, sum |-> 0, keys |-> 0, since |-> 0, torn |-> FALSE]
Resting == [at |-> "out", mission |-> "none", n |-> 0, snap |-> Snapshot]

\* What is counted of a call's price: no counter and no mission takes a negative one.
CostOf(n) == Max({0, EstimateCost(pricing, answers[n])})
Become(r, s) == recorder' = [recorder EXCEPT ![r] = s]

\* A call is answered for a mission.
TakeAnswer(r, m) ==
    /\ recorder[r].at = "out" /\ Len(answers) < MaxAnswers
    /\ \E a \in Usages : answers' = Append(answers, a)
    /\ Become(r, [Resting EXCEPT !.at = "answered", !.mission = m, !.n = Len(answers) + 1])
    /\ UNCHANGED <<pricing, called, priced, ring, buckets>>

\* record_call: each counter moves under a lock of its own ...
CountCall(r) ==
    /\ recorder[r].at = "answered"
    /\ called' = [called EXCEPT ![answers[recorder[r].n].model] = @ + 1]
    /\ Become(r, [recorder[r] EXCEPT !.at = "counted"])
    /\ UNCHANGED <<pricing, priced, ring, buckets, answers>>

CountCost(r) ==
    /\ recorder[r].at = "counted"
    /\ priced' = [priced EXCEPT ![answers[recorder[r].n].model] = @ + CostOf(recorder[r].n)]
    /\ Become(r, [recorder[r] EXCEPT !.at = "priced"])
    /\ UNCHANGED <<pricing, called, ring, buckets, answers>>

\* ... and the ring last, which drops its oldest record when full.
AppendRecord(r) ==
    /\ recorder[r].at = "priced"
    /\ ring' = Append(IF Len(ring) = RingLimit THEN Tail(ring) ELSE ring, recorder[r].n)
    /\ Become(r, [recorder[r] EXCEPT !.at = "logged"])
    /\ UNCHANGED <<pricing, called, priced, buckets, answers>>

RecordMission(r) ==
    /\ recorder[r].at = "logged"
    /\ LET a == answers[recorder[r].n]
           m == recorder[r].mission
           cost == CostOf(recorder[r].n)
           b == buckets[m]
           before == IF a.model \in DOMAIN b.models THEN b.models[a.model] ELSE 0
           now == [total |-> b.total + cost, count |-> b.count + 1,
                   models |-> [k \in DOMAIN b.models \cup {a.model} |->
                                 IF k = a.model THEN before + cost ELSE b.models[k]]]
       IN  /\ buckets' = [buckets EXCEPT ![m] = now]
           /\ Become(r, [recorder[r] EXCEPT !.at = "snap", !.snap.since = now.total])
    /\ UNCHANGED <<pricing, called, priced, ring, answers>>

\* get, list_top_n and list_all read the same way, without a call of their own.
ReadMission(r, m) ==
    /\ recorder[r].at = "out" /\ buckets[m].count > 0
    /\ Become(r, [Resting EXCEPT !.at = "snap", !.mission = m, !.snap.since = buckets[m].total])
    /\ UNCHANGED <<pricing, called, priced, ring, buckets, answers>>

\* _snapshot: the total, the copy of the per-model costs, and an iteration over the
\* per-model tokens that a new model breaks.
SnapTotal(r) ==
    /\ recorder[r].at = "snap"
    /\ LET b == buckets[recorder[r].mission] IN
        Become(r, [recorder[r] EXCEPT !.at = "models", !.snap.total = b.total])
    /\ UNCHANGED <<pricing, called, priced, ring, buckets, answers>>

SnapModels(r) ==
    /\ recorder[r].at = "models"
    /\ LET b == buckets[recorder[r].mission] IN
        Become(r, [recorder[r] EXCEPT !.at = "tokens", !.snap.count = b.count,
                     !.snap.sum = SumFunction(b.models), !.snap.keys = Cardinality(DOMAIN b.models)])
    /\ UNCHANGED <<pricing, called, priced, ring, buckets, answers>>

SnapTokens(r) ==
    /\ recorder[r].at = "tokens"
    /\ Become(r, [recorder[r] EXCEPT !.at = "done",
                    !.snap.torn = recorder[r].snap.keys
                                    # Cardinality(DOMAIN buckets[recorder[r].mission].models)])
    /\ UNCHANGED <<pricing, called, priced, ring, buckets, answers>>

Rest(r) ==
    /\ recorder[r].at = "done"
    /\ Become(r, Resting)
    /\ UNCHANGED <<pricing, called, priced, ring, buckets, answers>>

LedgerNext == \E r \in Recorders :
    \/ \E m \in Missions : TakeAnswer(r, m) \/ ReadMission(r, m)
    \/ CountCall(r) \/ CountCost(r) \/ AppendRecord(r) \/ RecordMission(r)
    \/ SnapTotal(r) \/ SnapModels(r) \/ SnapTokens(r) \/ Rest(r)

-----------------------------------------------------------------------------
(* The batch queue.                                                          *)

Unflushed == [at |-> "out", items |-> <<>>]

Enqueue ==
    /\ queued < MaxRequests
    /\ queued' = queued + 1
    /\ pending' = Append(pending, queued + 1)
    /\ UNCHANGED <<flusher, batches, told, forsaken>>

\* Mutant: the requests are read and left in the queue until they are submitted.
DrainPeek(f) ==
    /\ flusher[f].at = "out"
    /\ flusher' = [flusher EXCEPT ![f] = [at |-> "drained", items |-> pending]]
    /\ UNCHANGED <<pending, batches, told, forsaken, queued>>

\* flush_to_client empties the queue under its lock ...
Drain(f) ==
    /\ flusher[f].at = "out"
    /\ flusher' = [flusher EXCEPT ![f] = [at |-> "drained", items |-> pending]]
    /\ pending' = <<>>
    /\ UNCHANGED <<batches, told, forsaken, queued>>

\* ... and submits what it took: an answer that is lost looks like a refusal.
Submit(f) ==
    /\ flusher[f].at = "drained"
    /\ flusher' = [flusher EXCEPT ![f] = Unflushed]
    /\ LET items == flusher[f].items
           Tell(id, error) ==
             told' = told \cup {[id |-> id, items |-> items, count |-> Len(items), error |-> error]}
       IN  \/ /\ items = <<>>
              /\ Tell(0, "no requests to submit")
              /\ UNCHANGED batches
           \/ /\ items # <<>>
              /\ \/ UNCHANGED batches /\ \E e \in {"no key", "failed"} : Tell(0, e)
                 \/ /\ batches' = Append(batches, items)
                    /\ \/ Tell(Len(batches) + 1, "none")
                       \/ Tell(0, "failed")
    /\ UNCHANGED <<pending, forsaken, queued>>

\* The queue lives in memory.
Stop ==
    /\ forsaken' = forsaken \cup ToSet(pending) \cup UNION {ToSet(flusher[f].items) : f \in Recorders}
    /\ pending' = <<>>
    /\ flusher' = [f \in Recorders |-> Unflushed]
    /\ UNCHANGED <<batches, told, queued>>

BatchNext == Enqueue \/ Stop \/ \E f \in Recorders : Drain(f) \/ Submit(f)

-----------------------------------------------------------------------------
SideInit ==
    /\ pricing \in Overrides
    /\ called = [m \in Models |-> 0] /\ priced = [m \in Models |-> 0]
    /\ ring = <<>> /\ answers = <<>>
    /\ buckets = [m \in Missions |-> NoBucket]
    /\ recorder = [r \in Recorders |-> Resting]
    /\ routed = Unasked
    /\ pending = <<>> /\ batches = <<>> /\ told = {} /\ forsaken = {} /\ queued = 0
    /\ flusher = [f \in Recorders |-> Unflushed]

SideNext ==
    \/ LedgerNext /\ UNCHANGED <<routed, batchVars>>
    \/ AskRouter /\ UNCHANGED <<ledgerVars, batchVars>>
    \/ BatchNext /\ UNCHANGED <<ledgerVars, routed>>

SideSpec == SideInit /\ [][SideNext]_sideVars

-----------------------------------------------------------------------------
\* A longer prompt of the same kind never goes to a smaller model, whatever the
\* thresholds, and neither goes a high risk one unless an operator forced it
\* (choose_model).
Size(m) == IF m = Opus THEN 3 ELSE IF m = Sonnet THEN 2 ELSE 1
LongerIsNoSmaller ==
    routed # Unasked =>
        LET q == routed.question
            s == routed.settings
            Sized(p) == Size(ChooseModel(s, p))
        IN  /\ \A p \in Questions :
                 p.risk = q.risk /\ p.task = q.task /\ p.length <= q.length => Sized(p) <= Size(routed.model)
            /\ q.risk = "high" /\ s.on /\ s.pin = "" =>
                 \A p \in Questions : Sized(p) <= Size(routed.model)

\* The ring holds the calls last logged, each once and counted before (record_call);
\* when no call is under way the counters, the ring and the missions tell of the same
\* calls at the same prices (complete).
RingIsRecent ==
    /\ IsInjective(ring)
    /\ \A m \in Models : Cardinality({n \in ToSet(ring) : answers[n].model = m}) <= called[m]
UnderWay == {recorder[r].n : r \in {x \in Recorders :
                recorder[x].at \in {"answered", "counted", "priced", "logged"}}}
BooksAgree ==
    /\ \A m \in Missions : buckets[m].total = SumFunction(buckets[m].models)
    /\ UnderWay = {} =>
         /\ SumFunction(called) = Len(answers)
         /\ SumFunction([m \in Missions |-> buckets[m].count]) = Len(answers)
         /\ SumFunction([m \in Missions |-> buckets[m].total]) = SumFunction(priced)
         /\ Len(ring) = Min({RingLimit, Len(answers)})

\* A snapshot is built without the lock: its parts may be of different moments, but
\* it has its own call, its total lags behind its per-model costs and never leads them,
\* and it breaks only when another thread brought the mission a model it had not used.
SnapshotLags == \A r \in Recorders :
    LET s == recorder[r].snap IN
        /\ recorder[r].at \in {"models", "tokens", "done"} => s.since <= s.total
        /\ recorder[r].at \in {"tokens", "done"} => s.total <= s.sum
        /\ s.torn => s.keys < Cardinality(DOMAIN buckets[recorder[r].mission].models)

\* A request is in one place, and never in two batches (drain).
Held == {<<"queue", 0, pending>>} \cup {<<"flush", f, flusher[f].items>> : f \in Recorders}
        \cup {<<"batch", i, batches[i]>> : i \in DOMAIN batches}
OnceEach == \A p, q \in Held : \A i \in DOMAIN p[3], j \in DOMAIN q[3] :
    p[3][i] = q[3][j] => p = q /\ i = j

\* A request is lost only with the process, or when its flush was told of an error: and
\* then that result counts it as submitted (submit).
LossIsTold == \A n \in 1..queued :
    \/ n \in ToSet(pending)
    \/ \E f \in Recorders : n \in ToSet(flusher[f].items)
    \/ \E i \in DOMAIN batches : n \in ToSet(batches[i])
    \/ n \in forsaken
    \/ \E t \in told : n \in ToSet(t.items) /\ t.error # "none" /\ t.count > 0

\* A batch that nobody can collect is one whose answer was lost: its flush was told the
\* requests had failed.
OrphansWereRefused == \A i \in DOMAIN batches :
    \E t \in told : t.items = batches[i] /\ (t.id = i \/ t.error = "failed")

\* The router, the telemetry and the missions' books, and the batch queue.
LedgerHolds == LongerIsNoSmaller /\ RingIsRecent /\ BooksAgree /\ SnapshotLags
               /\ OnceEach /\ LossIsTold /\ OrphansWereRefused
=============================================================================
