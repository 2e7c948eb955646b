-------------------------------- MODULE Bridge --------------------------------
(***************************************************************************)
(* The on-prem connector bridge: aos/voundry/bridge.py (BridgeService).    *)
(*                                                                         *)
(* One bridge, its pairing, its allowlist and its job queue.  An agent in  *)
(* the customer's network says hello, polls for jobs and submits results;  *)
(* a caller (run_via_bridge) enqueues a job and waits for it.  Every call  *)
(* of the service runs in a pool thread and saves the row it read at its   *)
(* start, so `frame' holds each client's call in progress and its snapshot.*)
(***************************************************************************)
EXTENDS Naturals, FiniteSets

CONSTANTS
    Agents,         \* agent processes, and whoever else holds the pair code
    Callers,        \* threads that run run_via_bridge
    Operators,      \* threads that run set_allowed_actions
    Jobs,           \* ids of jobs that can be enqueued
    Actions,        \* "connector:action" pairs
    NoBridge,       \* the row is absent
    NoJob, NoAction,
    MaxWork,        \* bound: how often one job is carried out
    MaxFaults       \* bound: agent and server crashes

ASSUME BridgeAssumption ==
    /\ NoJob \notin Jobs
    /\ NoAction \notin Actions
    /\ MaxWork \in Nat /\ MaxFaults \in Nat

VARIABLES
    bridge,     \* the bridge's row, or NoBridge
    phase,      \* history: what the contributor last did with the bridge
    late,       \* the 30 minutes of the pair code have passed
    jobs,       \* status of each job's row
    frame,      \* the call each client has in progress
    holders,    \* external: the agents that have the token
    work,       \* external: the jobs each agent has been handed
    worked,     \* external: how often each job has been carried out
    answered,   \* history: jobs whose caller got a result
    faults      \* bound: crashes so far

vars == <<bridge, phase, late, jobs, frame, holders, work, worked,
          answered, faults>>
agentSide == <<holders, work, worked>>
history   == <<phase, late, answered, faults>>

Clients  == Agents \cup Callers \cup Operators
Statuses == {"pending", "running", "done", "failed"}

\* claimable: pair_secret is still there; seen: last_seen within 45 seconds, or not
Row == [claimable: BOOLEAN, seen: {"never", "recent", "stale"},
        allowed: SUBSET Actions]

AgentSteps  == {"claim_save", "hello_save", "poll_save", "poll_list",
                "poll_claim", "submit", "submit_save"}
CallerSteps == {"enqueue", "wait"}
Frame == [pc: {"idle", "allow_save"} \cup AgentSteps \cup CallerSteps,
          snap: Row \cup {NoBridge}, job: Jobs \cup {NoJob},
          action: Actions \cup {NoAction}, verdict: {"done", "failed"},
          todo: SUBSET Jobs, claimed: SUBSET Jobs, allowed: SUBSET Actions]
Idle == [pc |-> "idle", snap |-> NoBridge, job |-> NoJob, action |-> NoAction,
         verdict |-> "done", todo |-> {}, claimed |-> {}, allowed |-> {}]

TypeOK ==
    /\ bridge \in Row \cup {NoBridge}
    /\ phase \in {"new", "paired", "revoked"}
    /\ late \in BOOLEAN
    /\ jobs \in [Jobs -> Statuses \cup {"absent"}]
    /\ frame \in [Clients -> Frame]
    /\ holders \in SUBSET Agents
    /\ work \in [Agents -> SUBSET Jobs]
    /\ worked \in [Jobs -> Nat]
    /\ answered \in SUBSET Jobs
    /\ faults \in 0..MaxFaults

Init ==
    /\ bridge = NoBridge /\ phase = "new" /\ late = FALSE
    /\ jobs = [j \in Jobs |-> "absent"]
    /\ frame = [x \in Clients |-> Idle]
    /\ holders = {} /\ work = [a \in Agents |-> {}]
    /\ worked = [j \in Jobs |-> 0]
    /\ answered = {} /\ faults = 0

-----------------------------------------------------------------------------
(* Helpers *)

At(x, step)     == frame[x].pc = step
Goto(x, step)   == frame' = [frame EXCEPT ![x].pc = step]
Return(x)       == frame' = [frame EXCEPT ![x] = Idle]
Begin(x, step)  == frame' = [frame EXCEPT ![x] = [Idle EXCEPT !.pc = step,
                                                              !.snap = bridge]]
\* _auth: the token is good while the row is there
Auth(a) == a \in holders /\ bridge # NoBridge

\* save_bridge of a snapshot: upserts the whole row
Seen(x) == [frame[x].snap EXCEPT !.seen = "recent"]

(* Faulty variants, which show that the properties can fail *)

\* Pairing brings back a row that was deleted.
RevivingPair ==
    /\ bridge = NoBridge
    /\ bridge' = [claimable |-> TRUE, seen |-> "never", allowed |-> {}]
    /\ phase' = IF phase = "new" THEN "paired" ELSE phase
    /\ UNCHANGED <<late, jobs, frame, agentSide, answered, faults>>

\* A poll hands out what has no answer yet; or what failed, to be tried again.
ReclaimingPollList(a) ==
    /\ At(a, "poll_list")
    /\ frame' = [frame EXCEPT ![a].pc = "poll_claim",
                   ![a].todo = {j \in Jobs : jobs[j] \in {"pending", "running"}}]
    /\ UNCHANGED <<bridge, jobs, agentSide, history>>

RetryingPollList(a) ==
    /\ At(a, "poll_list")
    /\ frame' = [frame EXCEPT ![a].pc = "poll_claim",
                   ![a].todo = {j \in Jobs : jobs[j] \in {"pending", "failed"}}]
    /\ UNCHANGED <<bridge, jobs, agentSide, history>>

\* The list of claimed jobs is not handed over.
LossyPollClaim(a) ==
    /\ At(a, "poll_claim")
    /\ jobs' = [j \in Jobs |-> IF j \in frame[a].todo THEN "running" ELSE jobs[j]]
    /\ Return(a)
    /\ UNCHANGED <<bridge, agentSide, history>>

\* The caller takes a job that is being worked on for one that is done.
HastyAnswer(c) ==
    /\ At(c, "wait")
    /\ jobs[frame[c].job] \in {"running", "done"}
    /\ answered' = answered \cup {frame[c].job}
    /\ Return(c)
    /\ UNCHANGED <<bridge, jobs, agentSide, phase, late, faults>>

\* A wait without a deadline.
EndlessWait(c) ==
    /\ At(c, "wait")
    /\ jobs[frame[c].job] = "failed"
    /\ Return(c)
    /\ UNCHANGED <<bridge, jobs, agentSide, history>>

-----------------------------------------------------------------------------
(* The contributor: pair, set_allowed_actions, revoke *)

Pair ==
    /\ phase = "new"
    /\ bridge' = [claimable |-> TRUE, seen |-> "never", allowed |-> {}]
    /\ phase' = "paired"
    /\ UNCHANGED <<late, jobs, frame, agentSide, answered, faults>>

\* pair also returns the token itself, which the contributor may give an agent.
Configure(a) ==
    /\ phase # "new"
    /\ holders' = holders \cup {a}
    /\ UNCHANGED <<bridge, jobs, frame, work, worked, history>>

AllowRead(o, allowed) ==
    /\ At(o, "idle")
    /\ bridge # NoBridge
    /\ frame' = [frame EXCEPT ![o] = [Idle EXCEPT !.pc = "allow_save",
                                        !.snap = bridge, !.allowed = allowed]]
    /\ UNCHANGED <<bridge, jobs, agentSide, history>>

AllowSave(o) ==
    /\ At(o, "allow_save")
    /\ bridge' = [frame[o].snap EXCEPT !.allowed = frame[o].allowed]
    /\ Return(o)
    /\ UNCHANGED <<phase, late, jobs, agentSide, answered, faults>>

Revoke ==
    /\ bridge # NoBridge
    /\ bridge' = NoBridge
    /\ phase' = "revoked"
    /\ UNCHANGED <<late, jobs, frame, agentSide, answered, faults>>

(* claim: a self-pairing agent exchanges the code for the token *)

ClaimRead(a) ==
    /\ At(a, "idle")
    /\ bridge # NoBridge
    /\ bridge.claimable /\ ~late
    /\ Begin(a, "claim_save")
    /\ UNCHANGED <<bridge, jobs, agentSide, history>>

ClaimSave(a) ==
    /\ At(a, "claim_save")
    /\ bridge' = [frame[a].snap EXCEPT !.claimable = FALSE]
    /\ holders' = holders \cup {a}
    /\ Return(a)
    /\ UNCHANGED <<phase, late, jobs, work, worked, answered, faults>>

(* hello *)

HelloAuth(a) ==
    /\ At(a, "idle")
    /\ Auth(a)
    /\ Begin(a, "hello_save")
    /\ UNCHANGED <<bridge, jobs, agentSide, history>>

HelloSave(a) ==
    /\ At(a, "hello_save")
    /\ bridge' = Seen(a)
    /\ Return(a)
    /\ UNCHANGED <<jobs, agentSide, history>>

(* claim_jobs *)

PollAuth(a) ==
    /\ At(a, "idle")
    /\ Auth(a)
    /\ Begin(a, "poll_save")
    /\ UNCHANGED <<bridge, jobs, agentSide, history>>

PollSave(a) ==
    /\ At(a, "poll_save")
    /\ bridge' = Seen(a)
    /\ frame' = [frame EXCEPT ![a].pc = "poll_list", ![a].snap = NoBridge]
    /\ UNCHANGED <<jobs, agentSide, history>>

PollList(a) ==
    /\ At(a, "poll_list")
    /\ frame' = [frame EXCEPT ![a].pc = "poll_claim",
                              ![a].todo = {j \in Jobs : jobs[j] = "pending"}]
    /\ UNCHANGED <<bridge, jobs, agentSide, history>>

\* Each listed job is saved RUNNING from the listing, whatever it has become; the
\* agent is handed the list when the loop ends.
PollClaim(a) ==
    /\ At(a, "poll_claim")
    /\ \/ \E j \in frame[a].todo :
            /\ jobs' = [jobs EXCEPT ![j] = "running"]
            /\ frame' = [frame EXCEPT ![a].todo = @ \ {j},
                                      ![a].claimed = @ \cup {j}]
            /\ UNCHANGED work
       \/ /\ frame[a].todo = {}
          /\ work' = [work EXCEPT ![a] = @ \cup frame[a].claimed]
          /\ Return(a)
          /\ UNCHANGED jobs
    /\ UNCHANGED <<bridge, holders, worked, history>>

(* The agent carries out a job, then submits the result (submit_result) *)

Execute(a) ==
    /\ At(a, "idle")
    /\ \E j \in work[a], v \in {"done", "failed"} :
         /\ worked[j] < MaxWork
         /\ work' = [work EXCEPT ![a] = @ \ {j}]
         /\ worked' = [worked EXCEPT ![j] = IF v = "done" THEN @ + 1 ELSE @]
         /\ frame' = [frame EXCEPT ![a] = [Idle EXCEPT !.pc = "submit",
                                             !.job = j, !.verdict = v]]
    /\ UNCHANGED <<bridge, jobs, holders, history>>

\* A revoked agent gets 401 and its result is dropped.
Submit(a) ==
    /\ At(a, "submit")
    /\ IF Auth(a) THEN Goto(a, "submit_save") ELSE Return(a)
    /\ UNCHANGED <<bridge, jobs, agentSide, history>>

SubmitSave(a) ==
    /\ At(a, "submit_save")
    /\ jobs' = [jobs EXCEPT ![frame[a].job] = frame[a].verdict]
    /\ Return(a)
    /\ UNCHANGED <<bridge, agentSide, history>>

(* run_via_bridge *)

Run(c, x) ==
    /\ At(c, "idle")
    /\ bridge # NoBridge
    /\ bridge.seen = "recent"
    /\ bridge.allowed = {} \/ x \in bridge.allowed
    /\ frame' = [frame EXCEPT ![c] = [Idle EXCEPT !.pc = "enqueue", !.action = x]]
    /\ UNCHANGED <<bridge, jobs, agentSide, history>>

Enqueue(c) ==
    /\ At(c, "enqueue")
    /\ IF bridge = NoBridge
         THEN Return(c) /\ UNCHANGED jobs
         ELSE \E j \in Jobs :
                /\ jobs[j] = "absent"
                /\ jobs' = [jobs EXCEPT ![j] = "pending"]
                /\ frame' = [frame EXCEPT ![c].pc = "wait", ![c].job = j]
    /\ UNCHANGED <<bridge, agentSide, history>>

Answer(c) ==
    /\ At(c, "wait")
    /\ jobs[frame[c].job] = "done"
    /\ answered' = answered \cup {frame[c].job}
    /\ Return(c)
    /\ UNCHANGED <<bridge, jobs, agentSide, phase, late, faults>>

\* The job failed, or the deadline has passed: the job stays where it is.
Timeout(c) ==
    /\ At(c, "wait")
    /\ Return(c)
    /\ UNCHANGED <<bridge, jobs, agentSide, history>>

(* Time and faults *)

CodeExpires ==
    /\ phase # "new" /\ ~late
    /\ late' = TRUE
    /\ UNCHANGED <<bridge, phase, jobs, frame, agentSide, answered, faults>>

GoesOffline ==
    /\ bridge # NoBridge /\ bridge.seen = "recent"
    /\ bridge' = [bridge EXCEPT !.seen = "stale"]
    /\ UNCHANGED <<jobs, frame, agentSide, history>>

\* The agent restarts between two calls and forgets what it was handed.
AgentCrash(a) ==
    /\ faults < MaxFaults
    /\ frame[a].pc \in {"idle", "submit"}
    /\ work' = [work EXCEPT ![a] = {}]
    /\ Return(a)
    /\ faults' = faults + 1
    /\ UNCHANGED <<bridge, phase, late, jobs, holders, worked, answered>>

\* The server restarts: every call in progress is cut off.
ServerCrash ==
    /\ faults < MaxFaults
    /\ frame' = [x \in Clients |-> Idle]
    /\ faults' = faults + 1
    /\ UNCHANGED <<bridge, phase, late, jobs, agentSide, answered>>

-----------------------------------------------------------------------------
AgentStep(a) ==
    \/ ClaimSave(a) \/ HelloSave(a) \/ PollSave(a) \/ PollList(a)
    \/ PollClaim(a) \/ Execute(a) \/ Submit(a) \/ SubmitSave(a)

CallerStep(c) == Enqueue(c) \/ Answer(c) \/ Timeout(c)

Next ==
    \/ Pair \/ Revoke \/ CodeExpires \/ GoesOffline \/ ServerCrash
    \/ \E a \in Agents : \/ Configure(a) \/ ClaimRead(a) \/ HelloAuth(a)
                         \/ PollAuth(a) \/ AgentStep(a) \/ AgentCrash(a)
    \/ \E o \in Operators : \/ AllowSave(o)
                            \/ \E s \in SUBSET Actions : AllowRead(o, s)
    \/ \E c \in Callers : CallerStep(c) \/ \E x \in Actions : Run(c, x)

Spec == Init /\ [][Next]_vars

\* Calls in progress are run to their end by the thread pool and their deadline;
\* an agent that is up keeps polling and works off what it was handed.
FairSpec ==
    /\ Spec
    /\ \A a \in Agents : /\ WF_vars(AgentStep(a))
                         /\ SF_vars(PollAuth(a)) /\ SF_vars(Execute(a))
    /\ \A c \in Callers : WF_vars(CallerStep(c))
    /\ \A o \in Operators : WF_vars(AllowSave(o))

-----------------------------------------------------------------------------
(* Properties *)

\* run_via_bridge returns a result only for a job the agent has carried out, also
\* when agents, restarts and revocation overlap.
AnsweredWasWorked == \A j \in answered : worked[j] > 0

\* A row is whole at every step of pair, claim, revoke and the saves that overlap them, and
\* a caller is answered only for work that was done.
BridgeIsSound == TypeOK /\ AnsweredWasWorked

\* The queue is at-most-once for one agent that makes its calls in turn: a job is
\* never carried out twice, whatever is cut off, and never re-queued.
WorkedAtMostOnce == \A j \in Jobs : worked[j] <= 1

\* A settled job keeps its result: no poll saves it back as RUNNING.
SettledJobStays ==
    [][\A j \in Jobs : jobs[j] \in {"done", "failed"} =>
                           jobs'[j] \in {"done", "failed"}]_jobs

\* While a bridge is there its allowlist changes only to what an operator is saving, or back
\* to what a call in progress read before that: a check-in saves the whole row.
AllowlistStands ==
    [][bridge # NoBridge /\ bridge' # NoBridge /\ bridge'.allowed # bridge.allowed =>
          \/ \E o \in Operators : AllowSave(o)
          \/ \E x \in Clients : frame[x].snap # NoBridge /\ frame[x].snap.allowed = bridge'.allowed]_bridge

\* Results and edits of the allowlist are undone by nobody but an overlapping whole-row save.
NothingComesUndone == SettledJobStays /\ AllowlistStands

\* The doc of revoke: "its token stops working immediately (agent gets 401)".
RevokedIsGone == phase = "revoked" => bridge = NoBridge

\* A row that was deleted comes back only from the snapshot of a call that began
\* before the deletion: once those have ended, the token is dead for good.
DeadWithoutSnapshots ==
    [][phase = "revoked" /\ bridge = NoBridge
         /\ (\A x \in Clients : frame[x].snap = NoBridge)
       => bridge' = NoBridge]_bridge

\* A job that is enqueued is settled, when the agent keeps polling, unless the
\* bridge is revoked or one of the two sides crashes: a job that was RUNNING is
\* never queued again.
EnqueuedIsSettled ==
    \A j \in Jobs :
        jobs[j] = "pending" ~>
            jobs[j] \in {"done", "failed"} \/ phase = "revoked" \/ faults > 0

\* The wait is bounded: every caller gets back a result or an error.
CallReturns == \A c \in Callers : At(c, "wait") ~> At(c, "idle")

=============================================================================
