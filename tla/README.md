# A TLA+ model of WACE

WACE is a governed operations console: contributors work at *desks*, invoke
*connectors* into other systems, and every change those connectors make is to be
approved by somebody else, receipted, and stoppable.  The backend is one FastAPI
process (or several workers) over a SQL database.  This directory holds TLA+
modules of its parts, TLC configurations that check them on small instances, and
TLAPS proofs for any number of users, requests, threads and agents.

All paths below are under `src/backend/src/` unless they start with `src/`.

## How the program runs

* Handlers in `api/routes/wace.py` are plain `def`s: FastAPI runs each in a pool
  thread, so two requests interleave at every blocking call.
* Every call of `aos/voundry/persistence/repository.py` opens, commits and closes
  a session of its own.  A handler is therefore a sequence of atomic steps, one per
  repository or external call, and holds nothing between them.  The services of
  `core/` open one session per operation: they read, judge what they read and
  commit later.
* `_merge` (repository.py:30-36) writes the *whole* row from the object the handler
  built when it read it.  A slow handler overwrites what others saved, and brings
  deleted rows back.
* The kill switch, the transition log, the LLM budget, the batch queue, the mission
  ledger, the rate limiter and the identity provider's keys live in process memory:
  a restart forgets them, and another worker never knew them.
* There is no test suite; `src/backend/scripts/smoke.py` starts the app and calls
  a few routes.

These five facts are what the modules are about.  In every module a *thread*,
*caller*, *call*, *clerk*, *officer* or *door* is one handler in progress; the function
that maps it to a record (`frame`, `call`, `work`, `clerk`, ...) holds its local
variables, including the snapshot it will save.

## Inventory

| Component | State | Operations | Talks to | What is hard | What makes it correct |
|---|---|---|---|---|---|
| Governed write-back (`aos/voundry/connectors.py`, `governance.py`, `core/safety/autonomy_gate.py`) | request rows, gate records, kill switch, audit trail | invoke, request, decide, list (settles), settle, halt | bridge, cloud systems, gate, audit | two settlers, stale snapshots, crash between effect and save, halt racing a call | no effect without another governor's approval; settled for good; receipts true |
| Connected tools, OAuth, policy (`aos/voundry/connectors.py`) | tool rows, tokens, organisation policy, shared tools | connect, complete_oauth, disconnect, set_org_policy, add/remove_org_tool, invoke by four routes, command_center | OAuth provider, every connector | whole-row saves around a token exchange; four dispatches with one rule each | disconnected stays so; no lost policy change; forced writes are filed; what connects is usable |
| On-prem bridge (`aos/voundry/bridge.py`) | bridge row, pairing code, allowlist, job rows | pair, claim, hello, poll, submit, allow, revoke, run | agent in the customer's network, write-back | lost and late answers, two pollers, revoke racing a check-in, restart of either side | answers are true; work at most once; revocation is final; calls return |
| Desk workspace (`aos/voundry/contributor*.py`, `onboarding_suite.py`, `workspace.py`, `workspace_blueprint.py`, `agent_runtime.py`, `ingest.py`) | ventures, milestones, desks, profiles, runs, files, messages, queries, runbooks | my_desk, request_agent, promote, run, save and delete what is kept | gateway, scrubber | read-modify-write of profiles; provisioning in three commits; two computations of one roster | no lost grant but by an overlap; no desk without its ground; a run fits its roster |
| Desk accounts (`aos/voundry/auth.py`) | accounts, tokens, reset links | register, sign in, reset | workspace | account, profile and receipts committed apart | one account per email; nobody stranded but by a stop |
| SAIb scrubber (`saib/*`) | mode | detect, classify, decide, mask, minimise, unmask | its four readers | overlapping matches, cut texts, a guard that is down | nothing that matches leaves; answers come back whole |
| Agent lifecycle (`core/state/*`, `core/registry/service.py`) | agent rows, in-memory transition log | create_agent, transition_state, record_event | registry database | judge and commit are separate; log order; restart loses the log | only permitted moves; log explains rows; no reset |
| Agent hierarchy and guards (`core/registry`, `core/agents/guards.py`) | links, validators | create_link, get_hierarchy, list_root_agents, register, check | registry | nothing forbids a cycle | trees show everyone once; guards only narrow |
| Operator identity (`core/auth/*`) | operators, sessions, JWTs | create, login, refresh, logout, update | session table | concurrent refresh, disable racing refresh, role in the token | one live session per login; changes take effect |
| Single sign-on (`core/auth/sso/oidc.py`) | cached discovery and keys | verify | identity provider | keys change under the cache | a withdrawn key runs out, a new one gets in |
| Login rate limiter (`core/security/rate_limit.py`) | windows | check | clock | window boundary, time read before the lock | bounded burst; nobody refused early |
| Tool governance (`core/integrations/*`) | catalogue, bindings, tickets, sealed credentials | propose, transition, assign, revoke, issue ticket, re-key | vault | approval checked before the binding commits | only governed tools are enabled and bound |
| Skill and memory governance (`core/knowledge/*`) | skills, memories, playbooks | create, transition, update_narrative, create_playbook | database | read-judge-commit | nothing deployed unreviewed; names unique |
| Client registry (`core/clients/service.py`) | accounts, Google links, subscriptions, directives | register, link, subscribe, cancel, command | Stripe | cancel abroad before the local commit | links kept; billing follows status |
| Operations (`core/ops/backup.py`, `readiness.py`) | backup file, probe results | backup, verify, restore, run | every table, every dependency | the dump reads one table at a time and replaces the last good file | a written file verifies; restore brings back; report true |
| Cache (`core/cache/backend.py`) | backend, entries | get_cache, get, set | threads | first calls race; expiry read before the lock | one backend; exact expiry |
| Audit export and compliance (`core/audit/*`, `aos/voundry/audit_export.py`) | records, bundle key, manifest | export, build_bundle, verify_bundle, manifest | record sources | offset pages under insertion; two first builders | complete and in order; one key; changes found |
| LLM routing and key posture (`llm/gateway.py`, `aos/voundry/byok.py`, `agent_runtime.py`) | key posture, shared cooldown file | set/clear key, complete, mark, reset | two API accounts, CLI bridge, infusion | posture read twice, posture unreadable, deadline written by several workers | a barred platform is not used; cooldown bounded; calls end |
| LLM budget (`llm/budget.py`) | spend windows, caps | check_or_raise, record_cost, set_cap | gateway | check and charge far apart; midnight | exact tracking; bounded overshoot; exhausted stays so |
| Telemetry, mission ledger, router, batch queue (`core/llm_telemetry.py`, `core/prom.py`, `llm/mission_cost.py`, `router.py`, `batch.py`) | counters, ring, ledger, queue | record_call, record, snapshot, choose_model, enqueue, flush | provider | snapshot outside the lock; drain before a submit that fails | books agree; a loss is told |
| Infusion (`infusion/*`, `llm/cli_tunnel.py`) | a call's answers and chain | broadcast, combine, refine, complete_with_tools | four providers | answers in any order, each may fail | last refiner wins; nothing left out |
| Configuration, routes, blueprint texts, scraper, frontend, smoke test | see `PROJECT.json` | | | | |

`PROJECT.json` lists every part with its status, and the hazards, each at its line
with the properties that watch it.

## Modules

| Module | What it is |
|---|---|
| `WriteGate` | what a governed write promises: filed by a maker, authorised only by others, effective only when authorised |
| `WriteBack`, `WriteBackProofs` | the handlers that request, decide, settle and directly make writes; implements `WriteGate`; its inductive invariant and refinement, proved |
| `Bridge`, `BridgeProofs` | pairing, polling, allowlist and job queue of one bridge |
| `TransitionPolicy` | the table of `core/state/policy.py` and the checks of `transition_state` |
| `LifecycleSpec` | what the engine promises an agent: permitted moves while calls on it do not overlap |
| `AgentLifecycle`, `AgentLifecycleProofs` | create_agent, transition_state and the event log, step by step; implements `LifecycleSpec`; proved for any callers |
| `LlmRouting` | the key posture, the resolution chain and the shared cooldown |
| `LlmBudget` | the budget tracker with the gateway's order of calls |
| `LlmLedger` | router, telemetry, mission ledger and batch queue |
| `LlmProofs` | lemmas about sums over sets; routing, budget, router, books, batch queue and Infusion, proved |
| `Infusion` | the claude bridge and the engine of four providers |
| `ConnectedTools` | a desk's tools and their OAuth consent, the organisation's policy and its shared tools |
| `ConnectorGate` | the connector catalogue and the dispatch of every kind of call |
| `DeskBlueprint` | the tables of the blueprint and the functions over them |
| `DeskWorkspace` | provisioning, rosters, agent runs and what is kept on a desk |
| `DeskAccounts` | registering, signing in, resetting a password |
| `ToolsProofs`, `DeskProofs` | tools, policy and dispatch; accounts, desks and blueprint tables, the scrubber: proved |
| `Scrubbing` | detection, policy, masking and the four readers of the guard |
| `OperatorSessions` | operators, refresh sessions and access tokens |
| `SignOn`, `Compliance` | the OIDC verdict; the export, the bundle and the manifest, which reads the settings of sign-on |
| `RateLimiter`, `SharedCache`, `Operations` | the window of one slot; the cache; backup and probe |
| `ToolGovernance`, `KnowledgeStore` | third-party tools and bindings; skills, memories, playbooks |
| `AgentHierarchy`, `ClientAccounts` | links and guards; accounts and subscriptions |
| `IdentityProofs`, `GovernanceProofs` | sessions and sign-on; cache, limiter, tools, knowledge, accounts and operations: proved |
| `MCWriteBack`, `MCBridge`, `MCAgentLifecycle`, `MCControlPlane`, `MCDesk`, `MCLlm` | instances for TLC |

`ConnectorGate` and `DeskWorkspace` extend `DeskBlueprint`, and `Compliance` extends
`SignOn`, whose operators they use.  `MCControlPlane`, `MCDesk` and `MCLlm` each put several components
into one run.  Those components share no variable, so a behaviour picks one of them
at the start (`topic`, `part`) and moves only that: the run checks each alone, at the
sum of their state spaces instead of the product.

### WriteBack

`rows`, `gate`, `tools`, `strict`, `halted` and `receipts` are the tables, the policy
flag and the switch.  `frame[t]` is the handler thread *t* runs; its `pc` names the
next repository or external call.  `Invoke`, `Decide` and `ListDesk` start the three
handlers; `InvokeTool` to `DirectAudit` are the direct path, `RequestGate` to
`RequestAudit` the filing of a request, `ApproveGate`, `RejectGate`, `RejectSave` and
`RejectAudit` the decision, `NextRequest` to `Audit` `_settle_write_request`, which both
`decide_write_back` and `list_write_requests` call.  `Call` may end in an effect with
an answer, an effect whose answer is lost, or an error.  `Abort` is a repository
call that raises, `Crash` a restart of the process; both are bounded by `MaxFaults`.
`effects` counts what really happened outside; `approvals`, `draining` and `silent` are
history.

Every user may govern: the route's `can_govern` check depends on roles only, and the
module keeps the check that matters, that approver and maker differ.

### Bridge

The rows of one bridge and its jobs, and the agent's own memory (`work`, what it was
handed).  An agent's poll is `PollAuth`, `PollSave` (last_seen, from a snapshot),
`PollList` and one `PollClaim` per job; `HelloAuth`/`HelloSave`, `AllowRead`/`AllowSave`
and `ClaimRead`/`ClaimSave` are the other read-then-save pairs.  `Run`, `Enqueue`,
`Answer` and `Timeout` are `run_via_bridge`.  `Configure`, `Execute`, `AgentCrash` and
`ServerCrash` are not in the repository: the agent is modelled from the API it calls.

### AgentLifecycle

`Judge` is steps 1-5 of `transition_state`, `Commit` `update_lifecycle_state`, `Record`
the event.  `LookForDuplicate` and `Insert` are `create_agent`, whose second row is
refused by the unique constraint.  `Restart` empties the in-memory log and the calls
in progress.  `raced` remembers the agents on which two calls overlapped.

### The gateway: LlmRouting, LlmBudget, LlmLedger, Infusion

`ReadKey`, `RequireKey`, `ReadKnob` and `PostureUnavailable` are `_default_generate`;
`Guard`, `Gate`, `TrySdk`, `TryHttpx`, `MarkUncredited` and `TryCli` are `complete`.  The
settings read from the environment are chosen once, in `Init`.  What an account
answers is nondeterministic.  `loose` remembers the runs that saw the platform
allowed while they read the posture.

In `LlmBudget`, `Enter` reads the date, `ReadBucket` and `Judge` the spend and the cap,
each under the lock as in the code; `Answered` stamps the cost and `RecordCost` adds it.
`charged` holds the true costs by date.

In `LlmLedger` a recorder is a thread whose call has been answered: it counts, prices,
logs and adds to the mission one lock at a time, then reads a snapshot back in three
reads, as `MissionCostLedger.snapshot` does after its lock is released.  `ChooseModel` is the
router as an operator over its settings and a question.  A flusher drains the queue,
then submits; the provider accepts, refuses, or accepts and the answer is lost.

`Infusion` abstracts a text to who wrote it last, over whose text, and with which
instruction.  `CallProvider` takes the broadcast answers in any order, `Combine` puts them in
the fixed one, and each refinement either writes over the current text or leaves it.

### The desk: ConnectedTools, ConnectorGate

`connected`, `policy` and `shared` are the tool rows, the policy row and the list of
shared tools; `trail` the receipts.  `handler[q]` is what a request has read and is
about to save.  `Connect`, `LookUpOrgTool`, `SaveTool` and `Receipt` are `connect`,
whose branches differ in the row they build (`FreshRows`); `CompleteOAuth` and
`Exchange`, followed by the same `SaveTool` and `Receipt`, are `complete_oauth`;
`Disconnect`, `Delete` and `Receipt` are `disconnect`; `Invoke`, `Run` and `Receipt` a
read through the tool.  `SetPolicy`/`SavePolicy` and `AddOrgTool`, `RemoveOrgTool`/
`SaveList` change the organisation's rows and leave no receipt, as in the code.
`Abort` is a handler that stops where it is.  The history variables say what the
administrators asked for and which saves were made from an outdated copy, so that each
property names the one overlap that breaks it.

`ConnectorGate` asks the orthogonal question, which of the dispatches a call takes:
`Registry` is what each connector declares and what its `run` knows, `Route` what becomes
of a call (refused, filed, run, sent over the bridge), and `Center` what
`command_center` makes of the receipts.  One call is one step there, since the races
inside a call are `WriteBack`'s.

### The desk: DeskBlueprint, DeskWorkspace, DeskAccounts, Scrubbing

`DeskBlueprint` holds the tables of `workspace_blueprint.py` as records and functions
over disciplines and verticals.  `DeskWorkspace` has a clerk per request: `MyDesk`
provisions venture, milestone and desk in three commits, `AskAgent` and `EditProfile`
read a profile and save it whole, `Consult` reads the role and the roster before the
draft and writes the run after it, and `ShelfSteps` are the files, messages, queries
and runbooks.  `Proceed` takes a clerk through its commits and may stop at any of them.

`DeskAccounts` has the door a request stands at: the account, the profile and two
receipts of a registration are four steps, a reset reads the row and saves it.

In `Scrubbing` a text is a sequence of cells and a detector the cells it matches.  The code
sorts the matches and goes through them with `last_end`; sorted by start and then by
length, only the first of those that begin together can be kept, so that `LastEnds` is
`last_end` by position and `Scan` the kept matches by where they begin.  `MaskMatches`
puts a placeholder for the first cell of each and drops the others; one step hands a text
to one of the four readers.

### The control plane

`OperatorSessions`: `LoadOperator`/`UpdateOperator` are a change of an operator row;
`Login`, `Identify`, `Sign` the two reads and the commit of a sign-in; `Refresh`,
`CheckOperator`, `Rotate`, `Sign` a rotation; `Command` a request with an access token.

`RateLimiter`: `check` reads the time, then takes the lock; time may pass in between.
`SharedCache` does the same for `get`, after the double-checked creation in `get_cache`.

`ToolGovernance` and `KnowledgeStore`: an officer or curator judges in one step and
commits in another; `contested`, `overhauled` and `crossed` remember which pairs overlapped.

`AgentHierarchy`: `get_hierarchy` reads the children of an agent when it comes to the
agent, so its recursion is a stack of frames, moved by `VisitChild` and `LeaveNode`, and
links may be added between two steps; the tree is compared with who is below its agent
when the walk begins (`knew`) and when it ends.

`ClientAccounts`: cancelling asks Stripe, then commits; Stripe may refuse, the request
may stop.  `Operations`: the dump copies a table a step, writes the file a part a step,
and may be stopped at each; the probe asks one dependency a step.

`SignOn`: a verifier looks into the cache, fetches and stores the discovery document,
then the keys, then judges; the provider may move or replace its keys at any time.
`Compliance`: the export reads page after page by offset while records are added:
`ReadPage` asks for the page, `ReadLine` takes its records one by one as the generator
yields them, `EndPage` goes on or ends the source; two builders race to make the first
signing key; the manifest reads settings and packages.

## Runs

| Run | Instance | What it shows |
|---|---|---|
| `writeback_races` | 2 threads, 2 users, 1 request, 1 fault | with racing handlers and a crash or failed repository call: `EffectsAreGoverned`, `ReceiptsAreTrue`, settled rows stay settled, a halt only drains, and `WriteGate` is implemented |
| `writeback_serial` | 1 thread, 2 users, 2 requests, an on-prem and a cloud tool, fair | when handlers do not overlap: a write executes once, a rejected one never, and an approved one settles |
| `writeback_twice` (violation) | 2 threads | two settlers execute one approved write twice, against "executes once" (connectors.py:1677) |
| `writeback_silent` (violation) | 1 thread | a direct write whose answer is lost leaves no receipt, against the README's receipt for every action |
| `bridge_races` | 2 agents, 1 caller, 2 jobs | `BridgeIsSound`: an answered job was worked; a revoked bridge returns only from a call already in progress |
| `bridge_single` | 1 agent, 1 caller, 1 operator, 1 job, 1 fault, fair | with one agent: work at most once; `NothingComesUndone`: settled jobs stay and the allowlist is lost only to a row read before; enqueued jobs settle unless somebody stops, calls return |
| `bridge_revoked` (violation) | 1 agent | a check-in in flight undoes a revoke, against "its token stops working immediately" (bridge.py:144) |
| `lifecycle` | 18 topics, below | the control plane |
| `lifecycle_terminal` (violation) | 1 agent, 2 callers | two callers that judged the same state take an agent out of TERMINATED |
| `llm` | 6 parts, below | the gateway |
| `llm_strict` (violation) | 1 agent run | with fallback off, a prompt reaches the platform when the posture cannot be read or infusion is on, against byok.py:12 |
| `desk` | 9 topics, below | the desk application |

Properties that belong together are conjoined under one name; each conjunct is a named
definition of its own with its comment.

| Property | Its parts |
|---|---|
| `EffectsAreGoverned` | `ApprovedBeforeEffect`, `SettledByAnotherGovernor`, `ExecutedIsTrue` |
| `ReceiptsAreTrue` | `ReceiptsNeverOutrunEffects`, `SettledIsReceipted` |
| `BridgeIsSound`, `NothingComesUndone` | `TypeOK`, `AnsweredWasWorked`; `SettledJobStays`, `AllowlistStands` |
| `LogIsSound` | `TypeOK`, `LogIsLawful`, `StateIsExplained` |
| `SessionsEnd` | `AuthTypeOK`, `OneLivePerLogin`, `LogoutEnds`, `OldRoleRunsOut`, `DisabledDrains` |
| `LimitHolds`, `CacheHolds` | `BurstBounded`, `RefusedOnlyWhenFull`; `OneBackend`, `ExpiryIsExact` |
| `ToolsAreGoverned` | `GovTypeOK`, `EnabledWasGoverned`, `CredentialsOpen`, `RevokedIsFinal`, `BoundWhileBindable`, `TicketsDrain` |
| `KnowledgeIsSound` | `DeployedWasReviewed`, `NamedOnce`, `SummaryIsCurrent` |
| `HierarchyHolds`, `ClientsAreKept` | `TreeHoldsEveryoneOnce`, `RootsShowAllButCycles`, `ValidatorsNarrow`; `LinkIsKept`, `BillingFollowsStatus` |
| `OperationsHold` | `FileIsWhole`, `RestoreBringsBack`, `ReportIsTrue` |
| `EvidenceHolds` | `AcceptedWasCurrent`, `RefusalPasses`, `ExportIsWhole`, `OneKey`, `AlterationIsFound`, `GreenIsEarned` |
| `RoutingHolds`, `BudgetIsKept` | `TypeOK`, `BarredStaysBarred`, `CooldownIsBounded`; `BudgetTypeOK`, `TrackedExactly`, `CapOvershoot` |
| `LedgerHolds` | `LongerIsNoSmaller`, `RingIsRecent`, `BooksAgree`, `SnapshotLags`, `OnceEach`, `LossIsTold`, `OrphansWereRefused` |
| `InfusionHolds` | `LastRefinerWins`, `OrderIsFixed`, `DefinitiveIsClaudes`, `EmptyIsNotClaudes`, `FailureIsSpoken` |
| `RowsAreTold`, `PolicyStands` | `ToolsTypeOK`, `GoneStaysGone`, `TrailTellsRows`; `BlockHolds`, `PatchesStick`, `AddedIsOffered` |
| `AccountsHold` | `OneAccountPerEmail`, `StrandedOnlyByStop`, `HoldersAreKnown`, `PasswordIsTheLastTold` |
| `DesksHold` | `DesksHaveGround`, `GrantsStick`, `RunsFitTheRoster`, `RoomMatchesRuntime`, `KeptIsReceipted`, `BlueprintsAreSound` |
| `GateHolds` | `ForcedIsFiled`, `CenterCounts`, `ConnectedIsUsable`, `CatalogIsSound` |
| `ScrubHolds` | `EarlierWins`, `NothingLeftToFind`, `ClearCellsAreOutside`, `AnswersComeBack`, `ReceiptCountsMasks` |

**Excuses.**  Where the code lets an overlap break a promise, the property names that one
overlap (`unless two requests saved the profile at once`) by a history variable instead
of dropping the promise.  Such a property says that nothing *else* breaks it, which is
what a change of the code would disturb.

**Bounds.**  Two threads are enough for every overlap the properties name: each
relates one slow handler to one other; the limiter has three, so that one may
wait while two fill a window, and the desk's tools three requests, so that a save may be
overtaken by one that was itself overtaken.  The interesting interleavings need one row,
so races use one request, bridge, tool or agent.  `MaxFaults` = 1 puts one failure at
every step.

* `lifecycle`: 1 agent, 2 tenants, 3 events; 3 sessions, 2 changes of an operator, tokens that
  live one tick of three; a limit of 2 in windows of 2 over 4 ticks; 2 bindings of
  1 tool over 2 products; 2 skills, 2 playbook versions; 4 agents and 3 links, enough for
  a cycle and something below it, or above; 2 hooks; 2 accounts and identities; 2 subscriptions;
  4 writes beside a backup, 2 changes beside a probe; 2 signing keys at 2 addresses, which
  move once, with a cache of one tick; 3 records of 3 times in pages of 2, so that a page may
  be full, short or pushed back; 2 builders.
* `llm`: 1 agent run and 1 scrape until the clock says 3; 1 customer, 3 days in months of 2, which
  cross a midnight inside a month and one between months, and 4 calls of cost 1 or 2 past a cap of
  2; 3 answered calls in a ring of 2; 4 queued requests; prompts at, below and above each
  threshold; every set of providers with a key, each answer a text, empty or a failure.
* `desk`: 1 tool of a plain, an OAuth or a shared kind, a shared list cut at 1 instead of
  100; 2 accounts of 1 email, 2 passwords; 2 seats, 4 agents, 2 items; 5 kinds of connector,
  2 calls; every text of up to 3 cells out of 7, in every mode, with 3 system
  texts and a minimizer that cuts at 2.

Symmetry is used only where no liveness property is checked.  `CHECK_DEADLOCK FALSE` is set for
`lifecycle`, `llm`, `llm_strict` and `desk` only: their clocks, calls and identifiers
are bounded, so those instances stop.

**Fairness.**  `WF(Step(t))` says that a handler already running is run on: the pool
thread is scheduled, database and HTTP calls time out.  Nothing says a user starts a
handler.  In `Bridge`, `SF` on polling and on executing is the agent's own loop, which
retries for ever; its caller has a deadline.  In `LlmRouting` every attempt has a
timeout (120 s).  `Crash`, governors, ops and clocks have no fairness, and the other
modules promise nothing that must eventually happen.

## Proofs

TLAPS proves the following for every value of the constants that the `ASSUME`s allow:
any number of threads, callers, rows, tools, desks and records, every bound.

| Module | Theorem | Property |
|---|---|---|
| `WriteBackProofs` | `Governed`, `SwitchDrains`, `SettledForGood`, `Refinement` | `EffectsAreGoverned`, `HaltDrains`, `NeverReopened`, `ImplementsGate` |
| | `TrailIsTrue` | `ReceiptsAreTrue` |
| | `OneHandlerExecutesOnce`, `OneHandlerRejects` | `ExecutesOnce`, `RejectedHasNoEffect`, for one handler at a time and no faults |
| `BridgeProofs` | `BridgeSound`, `RevokedStaysDead`, `AllowlistKept` | `BridgeIsSound`, `DeadWithoutSnapshots`, `AllowlistStands` |
| | `OneAgentWorksOnce`, `OneAgentUndoesNothing` | `WorkedAtMostOnce`, `NothingComesUndone`, for one agent |
| `AgentLifecycleProofs` | `SoundLog`, `NoReset`, `LogTells`, `Refinement` | `LogIsSound`, `NeverReprovisioned`, `LogReplays`, `ImplementsPolicy` |
| | `HierarchyHoldsAlways` | `HierarchyHolds` |
| `IdentityProofs` | `SessionsEndAlways`, `SignOnIsTimely`, `EvidenceHoldsAlways` | `SessionsEnd`; `SignOnHolds`; `EvidenceHolds` |
| `GovernanceProofs` | `CacheHoldsAlways`, `LimitHoldsAlways`, `ToolsAreGovernedAlways`, `KnowledgeIsSoundAlways`, `ClientsAreKeptAlways`, `OperationsHoldAlways` | `CacheHolds`, `LimitHolds`, `ToolsAreGoverned`, `KnowledgeIsSound`, `ClientsAreKept`, `OperationsHold` |
| `LlmProofs` | `RoutingHeld`, `BudgetIsKeptAlways`, `ExhaustedHoldsAlways` | `RoutingHolds`, `BudgetIsKept`, `ExhaustedHolds` |
| | `LedgerHoldsAlways`, `InfusionHoldsAlways` | `LedgerHolds`, `InfusionHolds` |
| `ToolsProofs` | `RowsAreToldAlways`, `PolicyStandsAlways`, `GateHoldsAlways` | `RowsAreTold`, `PolicyStands`, `GateHolds` |
| `DeskProofs` | `AccountsHoldAlways`, `DesksHoldAlways` | `AccountsHold`, `DesksHold` |
| | `ScrubHoldsAlways` | `ScrubHolds` |

**What is assumed.** Of the constants: bounds are natural numbers, a limit, a window and a
lifetime are positive, a mark for *nothing there* (`Gone`, `NoOwner`, `NoOne`, `Absent`) is
no row and no key, the kinds of tool are apart, the threads of the budget, the missions and
the agents are finitely many, one cost is the highest, and lengths, prices and creation times
are numbers: a price may be negative and a threshold anything. A cell of a text is raw or a
placeholder somebody typed, and no pattern is empty or has a placeholder or the minimizer's
mark in it. Of the code's detectors this leaves out one case: PASSWORD takes any eight
characters after its keyword, so a keyword before a short e-mail address is a match once the
address is a placeholder; what a second pass would hide then is the placeholder. Two hypotheses are part of theorems instead. `OneAgent`: the
bridge has one agent process; with two, both may be handed a job, and `bridge_races` runs
two. `OneHandler`: one thread and no fault; `writeback_twice` shows what two settlers do.

### Why the invariants are what they are

None of the properties is inductive, because a handler acts on what it read earlier. Each
invariant says of every handler what it knows that no other handler can undo, and each proof
has a lemma per action, and a lemma for the other handlers' share: one record moves, the
rest stay (`ClerkStep`, `DoorStep`, `CarriedOn`, `UserStep`, ...).

* *Write-back.* A filed row keeps its maker; an approval, once recorded, stays recorded; a
  handler past the gate read holds an approved request; one about to save `executed` has
  made an effect. These facts only ever grow, so a stale snapshot is harmless for them.
  `UniqueIds` and `FilingInv` make the one step that creates a row create a new one;
  `HaltInv` ties the switch to the handlers past their check. `TrailInv` counts: receipts of
  executions written plus those some handler owes are at most the effects, so each receipt
  has an effect of its own. `SerialInv` says that the request a lone handler holds, and
  those it has yet to take, are untried.
* *Bridge.* A verdict `done` is submitted only of a job that was worked, in whichever of the
  agent's or the server's hands it is; a revoked bridge is saved as active only from a
  snapshot read before. For one agent, a job is in one place at a time: pending, listed by
  the poll, claimed, at work or submitted (`OneInv`).
* *Lifecycle.* The log is lawful by the check each call made; a row is explained because the
  commit and the event to come carry the same record; while calls on an agent do not
  overlap, the state the one call judged is still the row's and is where the log leads
  (`ReplayInv`), so its event continues the chain.
* *Sessions.* A login's chain that did not fork has one live session, or none and one
  refresh on its way to making the next; a token carries its operator's role unless that
  changed since its signature, which bounds its life. *Sign-on.* What a cached document says
  was published when it was fetched; since a verdict uses a document younger than `TTL`, a
  withdrawn key runs out and a new one gets in.
* *Limiter.* For every stretch of one window: what was admitted inside is bounded by what
  the slot counts now plus a limit for the window before, and a limit for each stall of a
  thread that read the clock before it took the lock. *Cache.* Whoever is past the first
  look holds the instance or nothing.
* *Tools, skills, accounts.* Two officers who judge one row are apart or the row is marked;
  the gates a status needs were passed. The marks are the histories that the properties name
  as excuses.
* *Operations.* A copy in progress holds the tables read as they were, as long as nothing
  was written; so does the file, until the next backup opens it. *Probe.* The results so far
  are what the components answer, until one changes.
* *Budget.* The tracker's window is the sum of what was truly charged from its first day to
  today; and per customer and day, the overshoot plus the highest cost times the threads
  that may still charge stays under the number of threads times the highest cost. A sum over
  days is a recursive function in effect (`MapThenSumSet`), about which nothing can be
  proved by induction with an operator parameter; the lemmas take the least element
  (`WFMin`) of the set of lengths at which the claim fails instead, a set and no operator.
* *Routing.* A run that did not see the platform allowed found a key or was refused, and
  carries the tenant's key and no bridge from then on (`FixedInv`); a deadline about to be
  written lies within one cooldown of the clock (`UntilInv`).
* *Connected tools.* What each stage of a handler knows of its tool: minted, opening,
  deleted or told of; and of a copy of the policy or the list not marked stale, that it is
  the one in force.
* *Dispatch.* A row in the service is one `connect` builds (`WiredInv`); the receipts add up
  to the ways taken. That every connector declares what it serves is proved table by table:
  the names first, then the fields of each.
* *Hierarchy.* Of every link there was when the walk began whose parent is in the tree, the
  child is in the tree, or still to come in the frame of that parent on the stack; whoever is
  in the tree was reached by links there are now. That nobody on a stack is missed is the
  first half, that a set of agents closed under links holds the tree the second.
* *Export.* For the source being read: every record of the window from before the
  export, numbered above where the page stands, is in the body; what is to come is numbered
  below, unless records pushed the pages back. *Bundle.* A stored key is never replaced but by a
  thread that was making one when another was, and marked so. *Manifest.* It is what `Report`
  made of some settings; TLC's instance has no optional package installed, as this tree has
  none, so that the green manifest is covered by the theorem alone.
* *Books.* Each counter, the ring and the missions tell exactly of the calls that are past their
  step (`Past`), at the price the call was answered at. When nobody is under way that is
  every call, and the four sums meet. A snapshot's parts are ordered because
  totals and model tables only grow. *Queue.* The queue, what each flusher holds and the
  batches have no request in common, and no request above the last number.
* *Infusion.* The text stands as the last refiner left it, or as the broadcast was combined
  when none did, and each refiner wrote over the one before; the chain is no longer than the
  turns taken, so a fourth step is claude's.
* *Accounts.* A door in a registration or a reset holds an account that is there; an account
  whose resets did not cross has one reset at most under way, and between its save and its
  receipt the row holds the password to be told. *Desks.* A desk saved stands on its ground,
  a grant on its profile unless two requests interleaved there, and whoever holds a receipt
  will write or drop it. The blueprint's tables are enumerated once to show that each kit
  stays within finite sets of names, from which the statuses are counted by a bijection.

* *Scrubbing.* The state says little: what was handed on is what one reader makes of a text
  (`ScrubInv`). The work is in the operators. `last_end` never falls, so kept matches
  lie apart (`ScanApart`) and every match begins inside a kept one (`ScanMissesNone`). The
  masked text shows, in order, each cell outside and the first of each kept match
  (`MaskShows`, by an enumeration of those positions); of two that follow each other the
  second is where the first ends (`NextShown`). Hence a match in the masked text, which
  has no placeholder in it, would be a match in the text that overlaps no kept one, and
  there is none (`MaskIsClean`); and what the placeholders stand for, put end to end, is the
  text (`UnmaskMasked`). Neither the cut of the minimizer, whose mark no pattern has, nor the
  text that goes before the prompt adds a match (`MinimizedFits`, `CombinedClean`). That
  `last_end` and the flattening are defined for every text is shown as for the budget's
  sums, by the least position at which the claim would fail.

### Model-checked only

* The liveness properties (`ApprovalSettles`, `EnqueuedIsSettled`, `CallReturns`,
  `EveryCallEnds`).

Every invariant and action property of a passing run is proved, under the hypotheses named
above; liveness under fairness is out of the provers' reach.

## Where code and documents differ

The five runs that expect a violation show code against a sentence of the repository.
Smaller differences met while modelling; the modules follow the code:

* `core/auth`: nothing calls `revoke_all_for_operator`; a refresh token is not "always
  revoked, even on failure" when the commit fails; the session is not looked up on
  every request, as the docstring of jwt.py says, only the token's own role counts.
* `core/auth/sso/oidc.py`: "the next request will refresh" an unknown key, but nothing
  clears the cache before its hour is over.
* `core/integrations/models.py:54-56`: a tool's exclusive owner is never checked;
  `security_hooks.py` imports a logger the repository does not have.
* `core/knowledge/models.py:61`: the unique skill name does not bind rows without an agent.
* `core/ops/backup.py:340`: promises an error on a version mismatch; a missing table is
  silently cleared (362), and text that looks like a timestamp comes back changed.
* `core/cache/backend.py:83`: speaks of a sweep there is none of.
* `saib/detectors/registry.py:15`: "longer match wins"; the earlier start wins.
* `aos/voundry/connectors.py`: `_mask` passes raw text on when the guard raises or blocks
  (906); a halt does not stop `test_custom_spec` and `terminal_hosts` (1261); an ingest
  receipt says "masked" in modes that mask nothing; an unknown `AOS_SAIB_MODE` falls to
  MASK even in a strict profile; a Microsoft tool on a bridge connects without the sign-in
  that `invoke` then asks for; the terminal is not covered by the policy that forces
  approval; cloud apps without a path for it declare "open"; `command_center` counts a
  cloud app's direct write twice and a built-in's not among the writes.
* `core/clients`: `expires_at` of a subscription is never looked at.
* `aos/voundry`: the routes save and delete queries and runbooks past the service's
  checks; `my_desk` with a blank role resets it to it_ops; a personal desk is always of the
  vertical "generic".
* `llm/batch.py`: `submitted_count` is the length of what was lost when the submission fails.
* `infusion`: "Claude produces the final authoritative response", but it is asked for it
  only when all four providers answer; with claude alone there are two calls, not one
  pass; its provider keeps ANTHROPIC_API_KEY, which the bridge strips;
  `complete_with_tools` raises on tool-call JSON that is no object.
* `audit_export.py`: a bundle's README says "unmodified", though the counts, the
  organisation, the time and the key id are not covered by the signature.

## What is not modelled, and what comes next

* The contents of prompts, results, reports and receipts, wording and metrics: no property
  is about them.  A connector's requests, a custom connector's address and the terminal's
  command are answers or none.
* The Redis twin of the cache, hashing and key generation, the SOC 2 inventory (a document), the
  fetching and text extraction of scraper and ingestion: pure I/O.
* Parts whose code is absent: the verification of contributors
  (`aos/voundry/assessment`), notifications, the legal pack, judgment, the openclaw
  client, `api/routes/sal_*`, `sal`, `governance_customer`.  Because of it the readiness manifest is
  never better than red in this tree, and the export's default sources are empty.  A
  caller's import of one is modelled as the failure it is where it changes state.
* Export, bundle, manifest, OIDC, batch flush and `complete_with_tools` have no caller in this
  tree: they are modelled as operations anybody may call.
* The frontend keeps no state; the smoke test and the packaging only build and start.

Known limits the model shares with the code rather than hides: nothing activates the
kill switch in the repository, and agent runs do not look at it; `clear_llm_key` also
resets the fallback knob, so the posture "no key, fallback off" of byok.py is never
reached; a cap of 0 is no cap, although budget.py names only negative ones.  The kill
switch is modelled in one process, the only place it exists.

Plan, in order:

1. Abstract specifications: an at-most-once queue for the bridge, a chain of sessions per
   login, and a register with lost updates for the whole-row saves.
2. A second worker beside the first, for what lives in process memory: the kill switch,
   the limiter and the budget.
