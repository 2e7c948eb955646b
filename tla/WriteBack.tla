------------------------------ MODULE WriteBack ------------------------------
(***************************************************************************)
(* Governed write-back: aos/voundry/connectors.py (ConnectorService),      *)
(* aos/voundry/governance.py and core/safety/autonomy_gate.py.             *)
(*                                                                         *)
(* FastAPI runs every handler in a pool thread, and every repository call  *)
(* opens and commits a session of its own, so a handler is a sequence of   *)
(* atomic steps, one per repository or external call; `frame' holds the    *)
(* local variables of the handler each thread runs.  A row is saved whole  *)
(* from the handler's own snapshot (repository._merge).                    *)
(***************************************************************************)
EXTENDS Naturals, FiniteSets

CONSTANTS
    Threads,        \* pool threads of the server process
    Users,          \* contributors; every one of them may govern (can_govern)
    Requests,       \* ids of write requests that can be minted
    Tools,          \* ids of connected tools
    CloudTools,     \* those served by a cloud spec (config.custom_spec)
    ToolOwner,      \* the contributor on whose desk a tool is connected
    NoUser, NoRequest, NoTool,
    MaxFaults       \* bound: process crashes and failing repository calls

ASSUME ConstantsAssumption ==
    /\ CloudTools \subseteq Tools
    /\ ToolOwner \in [Tools -> Users]
    /\ NoUser \notin Users
    /\ NoRequest \notin Requests
    /\ NoTool \notin Tools
    /\ MaxFaults \in Nat

VARIABLES
    rows,       \* the write-request table
    gate,       \* the "connwrite:<id>" records of the approval gate
    tools,      \* the connected-tool table
    strict,     \* org policy require_approval_for_writes
    halted,     \* the kill switch, in the memory of the process
    minted,     \* request ids handed out by uuid4
    frame,      \* the handler each thread runs
    receipts,   \* the append-only audit trail, counted per request and kind
    effects,    \* external world: how often the write of a request took effect
    silent,     \* external world: a direct write took effect and its handler
                \*   ended without a receipt
    approvals,  \* history: the users who recorded an approval at the gate
    draining,   \* history: threads past their last halt check at the flip that
                \*   have not made their external call since
    faults      \* bound: crashes and failed repository calls so far

stored   == <<rows, gate, tools, strict, minted, receipts>>
observed == <<effects, silent, approvals>>
vars     == <<rows, gate, tools, strict, halted, minted, frame, receipts,
              effects, silent, approvals, draining, faults>>

-----------------------------------------------------------------------------
(* Types *)

Statuses  == {"pending", "executed", "rejected", "failed"}
Kinds     == {"requested", "executed", "failed", "rejected"}
GateState == {"none", "pending", "approved", "rejected"}
Row       == [status: Statuses \cup {"absent"}, maker: Users \cup {NoUser},
              tool: Tools \cup {NoTool}, approver: Users \cup {NoUser}]
AbsentRow == [status |-> "absent", maker |-> NoUser, tool |-> NoTool,
              approver |-> NoUser]

InvokeSteps  == {"inv_tool", "inv_policy", "dir_halt", "dir_call", "dir_audit"}
RequestSteps == {"req_gate", "req_save", "req_audit"}
DecideSteps  == {"dec_approve", "dec_reject", "rej_save", "rej_audit"}
SettleSteps  == {"gate_read", "tool_read", "halt_check", "call", "save",
                 "audit", "next"}
Steps == {"idle"} \cup InvokeSteps \cup RequestSteps \cup DecideSteps
                  \cup SettleSteps

Frame == [pc: Steps, user: Users \cup {NoUser}, tool: Tools \cup {NoTool},
          direct: BOOLEAN, req: Requests \cup {NoRequest},
          todo: SUBSET Requests, approver: Users \cup {NoUser},
          verdict: {"pending", "executed", "failed"}]

IdleFrame == [pc |-> "idle", user |-> NoUser, tool |-> NoTool,
              direct |-> FALSE, req |-> NoRequest, todo |-> {},
              approver |-> NoUser, verdict |-> "pending"]

TypeOK ==
    /\ rows \in [Requests -> Row]
    /\ gate \in [Requests -> GateState]
    /\ tools \in [Tools -> {"new", "connected", "removed"}]
    /\ strict \in BOOLEAN
    /\ halted \in BOOLEAN
    /\ minted \in SUBSET Requests
    /\ frame \in [Threads -> Frame]
    /\ receipts \in [Requests -> [Kinds -> Nat]]
    /\ effects \in [Requests -> Nat]
    /\ silent \in BOOLEAN
    /\ approvals \in [Requests -> SUBSET Users]
    /\ draining \in SUBSET Threads
    /\ faults \in 0..MaxFaults

-----------------------------------------------------------------------------
(* Helpers *)

Filed(r)   == rows[r].status # "absent"
Pending(r) == rows[r].status = "pending"

Goto(t, step) == frame' = [frame EXCEPT ![t].pc = step]
Return(t)     == frame' = [frame EXCEPT ![t] = IdleFrame]

\* VoundryAuditService.append: insert-only
Append(r, kind) == receipts' = [receipts EXCEPT ![r][kind] = @ + 1]

\* Faulty variant: the approver is saved in the maker's field.
SwappedSaveRow(r, status, approver) ==
    rows' = [rows EXCEPT ![r].status = status, ![r].maker = approver]

\* save_write_request of the handler's snapshot of r: the row is overwritten
\* whole, whatever another thread has saved since the snapshot was read
SaveRow(r, status, approver) ==
    rows' = [rows EXCEPT ![r].status = status, ![r].approver = approver]

\* The external call is done; or it raises without having taken effect; or it
\* takes effect and raises all the same (a timeout of the bridge or of HTTP).
Outcomes == {"done", "error", "lost"}
Effect(o) == o \in {"done", "lost"}

-----------------------------------------------------------------------------
(* Faulty variants of the actions below, which show that the properties can  *)
(* fail                                                                      *)

\* Ids that are not fresh (derived from the request, say).
ReusedIdRoute(t) ==
    /\ frame[t].pc = "inv_policy"
    /\ \E r \in Requests : /\ frame' = [frame EXCEPT ![t].pc = "req_gate",
                                                     ![t].req = r]
                           /\ minted' = minted \cup {r}
    /\ UNCHANGED <<rows, gate, tools, strict, receipts, observed, halted,
                   draining, faults>>

\* No separation of duties.
SelfApprovingDecide(t, u, r, approve) ==
    /\ frame[t].pc = "idle"
    /\ Pending(r)
    /\ frame' = [frame EXCEPT ![t] = [IdleFrame EXCEPT
                    !.pc = IF approve THEN "dec_approve" ELSE "dec_reject",
                    !.user = u, !.req = r, !.approver = u]]
    /\ UNCHANGED <<stored, observed, halted, draining, faults>>

\* Any request can be decided, also a settled one.
UncheckedDecide(t, u, r, approve) ==
    /\ frame[t].pc = "idle"
    /\ Filed(r)
    /\ approve => u # rows[r].maker
    /\ frame' = [frame EXCEPT ![t] = [IdleFrame EXCEPT
                    !.pc = IF approve THEN "dec_approve" ELSE "dec_reject",
                    !.user = u, !.req = r, !.approver = u]]
    /\ UNCHANGED <<stored, observed, halted, draining, faults>>

\* No look at the switch.
NoHaltCheck(t) ==
    /\ frame[t].pc = "halt_check"
    /\ IF frame[t].tool # NoTool
         THEN Goto(t, "call")
         ELSE frame' = [frame EXCEPT ![t].pc = "save", ![t].verdict = "failed"]
    /\ UNCHANGED <<stored, observed, halted, draining, faults>>

\* A halted write is saved back as PENDING, to be tried later.
PostponingHaltCheck(t) ==
    /\ frame[t].pc = "halt_check"
    /\ Goto(t, IF ~halted /\ frame[t].tool # NoTool THEN "call" ELSE "save")
    /\ UNCHANGED <<stored, observed, halted, draining, faults>>

\* A halted write is dropped by its handler.
QuittingHaltCheck(t) ==
    /\ frame[t].pc = "halt_check"
    /\ IF ~halted /\ frame[t].tool # NoTool THEN Goto(t, "call") ELSE Return(t)
    /\ UNCHANGED <<stored, observed, halted, draining, faults>>

\* A write that failed stays PENDING, to be tried again.
RetryingSave(t) ==
    /\ frame[t].pc = "save"
    /\ IF frame[t].verdict = "executed"
         THEN SaveRow(frame[t].req, "executed", frame[t].approver)
         ELSE UNCHANGED rows
    /\ Goto(t, "audit")
    /\ UNCHANGED <<gate, tools, strict, minted, receipts, observed, halted,
                   draining, faults>>

\* An append that has been committed is tried again.
RetriedAudit(t) ==
    /\ frame[t].pc = "audit"
    /\ Append(frame[t].req, frame[t].verdict)
    /\ Goto(t, "next") \/ Goto(t, "audit")
    /\ UNCHANGED <<rows, gate, tools, strict, minted, observed, halted,
                   draining, faults>>

-----------------------------------------------------------------------------
Init ==
    /\ rows = [r \in Requests |-> AbsentRow]
    /\ gate = [r \in Requests |-> "none"]
    /\ tools = [c \in Tools |-> "new"]
    /\ strict = FALSE
    /\ halted = FALSE
    /\ minted = {}
    /\ frame = [t \in Threads |-> IdleFrame]
    /\ receipts = [r \in Requests |-> [k \in Kinds |-> 0]]
    /\ effects = [r \in Requests |-> 0]
    /\ silent = FALSE
    /\ approvals = [r \in Requests |-> {}]
    /\ draining = {}
    /\ faults = 0

(* invoke of a write action *)

\* The desk is the caller's own, and the switch is off.
Invoke(t, u, c, d) ==
    /\ frame[t].pc = "idle"
    /\ ~halted
    /\ frame' = [frame EXCEPT ![t] = [IdleFrame EXCEPT
                    !.pc = "inv_tool", !.user = u, !.tool = c, !.direct = d]]
    /\ UNCHANGED <<stored, observed, halted, draining, faults>>

InvokeTool(t) ==
    /\ frame[t].pc = "inv_tool"
    /\ IF /\ tools[frame[t].tool] = "connected"
          /\ ToolOwner[frame[t].tool] = frame[t].user
         THEN Goto(t, "inv_policy")
         ELSE Return(t)
    /\ UNCHANGED <<stored, observed, halted, draining, faults>>

\* A write that is not direct, or any write under a strict policy, becomes a
\* request; a direct one runs now, after one more look at the switch when the
\* tool is a cloud app.  An unknown action, an account that is not signed in or
\* a connector that is not configured is an error.
InvokeRoute(t) ==
    /\ frame[t].pc = "inv_policy"
    /\ \/ /\ ~frame[t].direct \/ strict
          /\ \E r \in Requests \ minted :
                /\ frame' = [frame EXCEPT ![t].pc = "req_gate", ![t].req = r]
                /\ minted' = minted \cup {r}
       \/ /\ frame[t].direct /\ ~strict
          /\ Goto(t, IF frame[t].tool \in CloudTools THEN "dir_halt"
                                                     ELSE "dir_call")
          /\ UNCHANGED minted
       \/ Return(t) /\ UNCHANGED minted
    /\ UNCHANGED <<rows, gate, tools, strict, receipts, observed, halted,
                   draining, faults>>

DirectHaltCheck(t) ==
    /\ frame[t].pc = "dir_halt"
    /\ IF halted THEN Return(t) ELSE Goto(t, "dir_call")
    /\ UNCHANGED <<stored, observed, halted, draining, faults>>

\* An exception leaves the handler at once: there is no receipt of a failure.
DirectCall(t) ==
    /\ frame[t].pc = "dir_call"
    /\ \E o \in Outcomes :
         /\ IF o = "done" THEN Goto(t, "dir_audit") ELSE Return(t)
         /\ silent' = (silent \/ o = "lost")
    /\ draining' = draining \ {t}
    /\ UNCHANGED <<stored, effects, approvals, halted, faults>>

DirectAudit(t) ==
    /\ frame[t].pc = "dir_audit"
    /\ Return(t)
    /\ UNCHANGED <<stored, observed, halted, draining, faults>>

(* _request_write: the gate record first, then the row, then the receipt *)

RequestGate(t) ==
    /\ frame[t].pc = "req_gate"
    /\ gate' = [gate EXCEPT ![frame[t].req] = "pending"]
    /\ Goto(t, "req_save")
    /\ UNCHANGED <<rows, tools, strict, minted, receipts, observed, halted,
                   draining, faults>>

RequestSave(t) ==
    /\ frame[t].pc = "req_save"
    /\ rows' = [rows EXCEPT ![frame[t].req] =
                  [status |-> "pending", maker |-> frame[t].user,
                   tool |-> frame[t].tool, approver |-> NoUser]]
    /\ Goto(t, "req_audit")
    /\ UNCHANGED <<gate, tools, strict, minted, receipts, observed, halted,
                   draining, faults>>

RequestAudit(t) ==
    /\ frame[t].pc = "req_audit"
    /\ Append(frame[t].req, "requested")
    /\ Return(t)
    /\ UNCHANGED <<rows, gate, tools, strict, minted, observed, halted,
                   draining, faults>>

(* decide_write_back *)

\* The request is read once; one that is missing or settled, or an approval by
\* its own maker, is refused without a change.
Decide(t, u, r, approve) ==
    /\ frame[t].pc = "idle"
    /\ Pending(r)
    /\ approve => u # rows[r].maker
    /\ frame' = [frame EXCEPT ![t] = [IdleFrame EXCEPT
                    !.pc = IF approve THEN "dec_approve" ELSE "dec_reject",
                    !.user = u, !.req = r, !.approver = u]]
    /\ UNCHANGED <<stored, observed, halted, draining, faults>>

ApproveGate(t) ==
    /\ frame[t].pc = "dec_approve"
    /\ gate' = [gate EXCEPT ![frame[t].req] = "approved"]
    /\ approvals' = [approvals EXCEPT ![frame[t].req] = @ \cup {frame[t].user}]
    /\ Goto(t, "gate_read")
    /\ UNCHANGED <<rows, tools, strict, minted, receipts, effects, silent,
                   halted, draining, faults>>

RejectGate(t) ==
    /\ frame[t].pc = "dec_reject"
    /\ gate' = [gate EXCEPT ![frame[t].req] = "rejected"]
    /\ Goto(t, "rej_save")
    /\ UNCHANGED <<rows, tools, strict, minted, receipts, observed, halted,
                   draining, faults>>

RejectSave(t) ==
    /\ frame[t].pc = "rej_save"
    /\ SaveRow(frame[t].req, "rejected", frame[t].approver)
    /\ Goto(t, "rej_audit")
    /\ UNCHANGED <<gate, tools, strict, minted, receipts, observed, halted,
                   draining, faults>>

RejectAudit(t) ==
    /\ frame[t].pc = "rej_audit"
    /\ Append(frame[t].req, "rejected")
    /\ Return(t)
    /\ UNCHANGED <<rows, gate, tools, strict, minted, observed, halted,
                   draining, faults>>

(* list_write_requests: settles every request that its one query saw pending *)

ListDesk(t, u) ==
    /\ frame[t].pc = "idle"
    /\ \E r \in Requests : Pending(r) /\ rows[r].maker = u
    /\ frame' = [frame EXCEPT ![t] = [IdleFrame EXCEPT
                    !.pc = "next", !.user = u,
                    !.todo = {r \in Requests : Pending(r) /\ rows[r].maker = u}]]
    /\ UNCHANGED <<stored, observed, halted, draining, faults>>

NextRequest(t) ==
    /\ frame[t].pc = "next"
    /\ IF frame[t].todo = {}
         THEN Return(t)
         ELSE \E r \in frame[t].todo :
                frame' = [frame EXCEPT ![t].pc = "gate_read", ![t].req = r,
                                       ![t].todo = frame[t].todo \ {r},
                                       ![t].verdict = "pending"]
    /\ UNCHANGED <<stored, observed, halted, draining, faults>>

(* _settle_write_request *)

GateRead(t) ==
    /\ frame[t].pc = "gate_read"
    /\ Goto(t, IF gate[frame[t].req] = "approved" THEN "tool_read" ELSE "next")
    /\ UNCHANGED <<stored, observed, halted, draining, faults>>

ToolRead(t) ==
    /\ frame[t].pc = "tool_read"
    /\ frame' = [frame EXCEPT
          ![t].pc = "halt_check",
          ![t].tool = IF tools[rows[frame[t].req].tool] = "connected"
                        THEN rows[frame[t].req].tool ELSE NoTool]
    /\ UNCHANGED <<stored, observed, halted, draining, faults>>

HaltCheck(t) ==
    /\ frame[t].pc = "halt_check"
    /\ IF ~halted /\ frame[t].tool # NoTool
         THEN Goto(t, "call")
         ELSE frame' = [frame EXCEPT ![t].pc = "save", ![t].verdict = "failed"]
    /\ UNCHANGED <<stored, observed, halted, draining, faults>>

Call(t) ==
    /\ frame[t].pc = "call"
    /\ \E o \in Outcomes :
         /\ frame' = [frame EXCEPT ![t].pc = "save",
                        ![t].verdict = IF o = "done" THEN "executed" ELSE "failed"]
         /\ effects' = [effects EXCEPT ![frame[t].req] =
                                          IF Effect(o) THEN @ + 1 ELSE @]
    /\ draining' = draining \ {t}
    /\ UNCHANGED <<stored, silent, approvals, halted, faults>>

Save(t) ==
    /\ frame[t].pc = "save"
    /\ SaveRow(frame[t].req, frame[t].verdict, frame[t].approver)
    /\ Goto(t, "audit")
    /\ UNCHANGED <<gate, tools, strict, minted, receipts, observed, halted,
                   draining, faults>>

Audit(t) ==
    /\ frame[t].pc = "audit"
    /\ Append(frame[t].req, frame[t].verdict)
    /\ Goto(t, "next")
    /\ UNCHANGED <<rows, gate, tools, strict, minted, observed, halted,
                   draining, faults>>

(* The rest of the desk, the policy and the switch *)

Connect(c) ==
    /\ tools[c] = "new"
    /\ tools' = [tools EXCEPT ![c] = "connected"]
    /\ UNCHANGED <<rows, gate, strict, minted, receipts, frame, observed,
                   halted, draining, faults>>

Disconnect(c) ==
    /\ tools[c] = "connected"
    /\ tools' = [tools EXCEPT ![c] = "removed"]
    /\ UNCHANGED <<rows, gate, strict, minted, receipts, frame, observed,
                   halted, draining, faults>>

SetOrgPolicy ==
    /\ strict' = ~strict
    /\ UNCHANGED <<rows, gate, tools, minted, receipts, frame, observed,
                   halted, draining, faults>>

\* The steps between a handler's last look at the switch and its external call.
PastHaltCheck(t) ==
    frame[t].pc \in {"call", "dir_call", "inv_tool", "inv_policy"}

Activate ==
    /\ ~halted
    /\ halted' = TRUE
    /\ draining' = {t \in Threads : PastHaltCheck(t)}
    /\ UNCHANGED <<stored, observed, frame, faults>>

Deactivate ==
    /\ halted
    /\ halted' = FALSE
    /\ draining' = {}
    /\ UNCHANGED <<stored, observed, frame, faults>>

(* Faults *)

\* A write of thread t took effect and has no receipt yet.
Unreceipted(t) == frame[t].pc = "dir_audit"

\* A repository call of the handler raises (a lost connection, "database is
\* locked"): nothing of that call is committed and the rest is not run.
Abort(t) ==
    /\ faults < MaxFaults
    /\ frame[t].pc # "idle"
    /\ faults' = faults + 1
    /\ Return(t)
    /\ silent' = (silent \/ Unreceipted(t))
    /\ draining' = draining \ {t}
    /\ UNCHANGED <<stored, effects, approvals, halted>>

\* The process dies and restarts: every handler is gone, and so is the switch.
Crash ==
    /\ faults < MaxFaults
    /\ faults' = faults + 1
    /\ frame' = [t \in Threads |-> IdleFrame]
    /\ silent' = (silent \/ \E t \in Threads : Unreceipted(t))
    /\ halted' = FALSE
    /\ draining' = {}
    /\ UNCHANGED <<stored, effects, approvals>>

-----------------------------------------------------------------------------
Start(t) ==
    \/ \E u \in Users, c \in Tools, d \in BOOLEAN : Invoke(t, u, c, d)
    \/ \E u \in Users, r \in Requests, a \in BOOLEAN : Decide(t, u, r, a)
    \/ \E u \in Users : ListDesk(t, u)

Step(t) ==
    \/ InvokeTool(t) \/ InvokeRoute(t)
    \/ DirectHaltCheck(t) \/ DirectCall(t) \/ DirectAudit(t)
    \/ RequestGate(t) \/ RequestSave(t) \/ RequestAudit(t)
    \/ ApproveGate(t) \/ RejectGate(t) \/ RejectSave(t) \/ RejectAudit(t)
    \/ NextRequest(t) \/ GateRead(t) \/ ToolRead(t) \/ HaltCheck(t)
    \/ Call(t) \/ Save(t) \/ Audit(t)

Environment ==
    \/ \E c \in Tools : Connect(c) \/ Disconnect(c)
    \/ SetOrgPolicy \/ Activate \/ Deactivate
    \/ \E t \in Threads : Abort(t)
    \/ Crash

Next == (\E t \in Threads : Start(t) \/ Step(t)) \/ Environment

Spec == Init /\ [][Next]_vars

\* A handler that has started is run to its end by the thread pool.
FairSpec == Spec /\ \A t \in Threads : WF_vars(Step(t))

-----------------------------------------------------------------------------
(* Safety *)

\* A governed write reaches the external system only after a governor other
\* than its maker recorded an approval at the gate (decide_write_back's
\* separation of duties, and the gate check of _settle_write_request), whatever
\* handlers overlap, crash or repeat.
ApprovedBeforeEffect ==
    \A r \in Requests :
        effects[r] > 0 => \E u \in Users : u \in approvals[r] /\ u # rows[r].maker

\* A row that says EXECUTED or FAILED was approved by somebody, and it never
\* names its own maker as the approver.
SettledByAnotherGovernor ==
    \A r \in Requests :
        rows[r].status \in {"executed", "failed"} =>
            /\ approvals[r] # {}
            /\ rows[r].approver # rows[r].maker

\* A row says EXECUTED, and the trail holds a write_executed receipt, only for a
\* write that did take effect, even when snapshots overwrite each other.
ExecutedIsTrue ==
    \A r \in Requests :
        rows[r].status = "executed" \/ receipts[r]["executed"] > 0
            => effects[r] > 0

\* The trail never shows more executions of a request than there were.
ReceiptsNeverOutrunEffects ==
    \A r \in Requests : receipts[r]["executed"] <= effects[r]

\* While the switch is on, an external call is made only by a handler that
\* looked at the switch before the flip, and at most once by each such handler.
HaltDrains ==
    halted => \A t \in Threads :
                  frame[t].pc \in {"call", "dir_call"} => t \in draining

\* Without faults, a settled request has its receipt as soon as no handler is
\* still on its way to write one.
SettledIsReceipted ==
    faults = 0 =>
        \A r \in Requests :
            rows[r].status \in {"executed", "failed", "rejected"} =>
                \/ receipts[r]["executed"] + receipts[r]["failed"]
                                           + receipts[r]["rejected"] > 0
                \/ \E t \in Threads : /\ frame[t].pc \in {"audit", "rej_audit"}
                                      /\ frame[t].req = r

\* Whatever handlers race, stop or hold old rows: what took effect was approved
\* by somebody other than its maker, so was whatever is settled as done, and a
\* row that says executed is telling the truth.
EffectsAreGoverned == ApprovedBeforeEffect /\ SettledByAnotherGovernor /\ ExecutedIsTrue

\* The trail and the rows agree: no more receipts than effects, and no settled
\* request without one unless a handler is on its way to write it.
ReceiptsAreTrue == ReceiptsNeverOutrunEffects /\ SettledIsReceipted

\* No stale snapshot ever puts a settled request back to PENDING, from where it
\* would be settled again by the next desk listing.
NeverReopened ==
    [][\A r \in Requests :
         rows[r].status \in {"executed", "failed", "rejected"} =>
             rows'[r].status \in {"executed", "failed", "rejected"}]_rows

\* What the write-back promises, as claimed at decide_write_back ("gate now
\* approved -> executes once"): true as long as no two handlers overlap.
ExecutesOnce == \A r \in Requests : effects[r] <= 1

\* A request that ends REJECTED was never carried out.
RejectedHasNoEffect ==
    \A r \in Requests : rows[r].status = "rejected" => effects[r] = 0

\* README: "A WORM receipt for every action": a direct write that took effect
\* is receipted.
DirectWritesReceipted == ~silent

(* Liveness *)

\* An approval recorded at the gate leads to a settled row, unless another
\* governor's decision replaces it, when no handler is lost.
ApprovalSettles ==
    \A r \in Requests :
        gate[r] = "approved" ~> (gate[r] # "approved" \/ ~Pending(r))

-----------------------------------------------------------------------------
(* Refinement: the write-back implements the gate *)

Makers == [r \in Requests |-> rows[r].maker]

Gate == INSTANCE WriteGate WITH maker <- Makers, authorisers <- approvals

\* Every behaviour of the handlers is one the gate allows: filed once, authorised
\* by others than the maker, and without effect before it is authorised.
ImplementsGate == Gate!Spec

-----------------------------------------------------------------------------
(* The inductive invariant of the proofs *)

RowInv(r) ==
    /\ Filed(r) => r \in minted /\ rows[r].maker \in Users
    /\ ~Filed(r) => rows[r].maker = NoUser
    /\ rows[r].status \in {"executed", "failed"} =>
          approvals[r] # {} /\ rows[r].approver # rows[r].maker
    /\ rows[r].status = "executed" => effects[r] > 0

\* The gate is approved only by a recorded approval, never one of the maker's;
\* an effect needs one, and a receipt of execution an effect.
GateInv(r) ==
    /\ gate[r] = "approved" => approvals[r] # {}
    /\ approvals[r] # {} => Filed(r) /\ rows[r].maker \notin approvals[r]
    /\ effects[r] > 0 => approvals[r] # {}
    /\ receipts[r]["executed"] > 0 => effects[r] > 0

\* A handler between minting an id and saving its row.
Filing(t) == frame[t].pc \in {"req_gate", "req_save"}

FilingInv(t) ==
    /\ frame[t].pc \in InvokeSteps \cup RequestSteps =>
          frame[t].user \in Users /\ frame[t].tool \in Tools
    /\ frame[t].pc \in RequestSteps => frame[t].req \in Requests
    /\ Filing(t) => frame[t].req \in minted /\ ~Filed(frame[t].req)

UniqueIds ==
    \A t, s \in Threads :
        Filing(t) /\ Filing(s) /\ t # s => frame[t].req # frame[s].req

\* What a deciding or settling handler knows of the request it holds, however
\* the row changed since it was read.
HandlerInv(t) ==
    /\ frame[t].pc \in DecideSteps \cup (SettleSteps \ {"next"}) =>
          frame[t].req \in Requests /\ Filed(frame[t].req)
    /\ frame[t].pc = "dec_approve" =>
          frame[t].user \in Users /\ frame[t].user # rows[frame[t].req].maker
    /\ frame[t].pc \in {"dec_approve"} \cup (SettleSteps \ {"next"}) =>
          frame[t].approver # rows[frame[t].req].maker
    /\ frame[t].todo # {} => frame[t].approver = NoUser
    /\ \A r \in frame[t].todo : Filed(r)
    /\ frame[t].pc \in {"tool_read", "halt_check", "call", "save", "audit"} =>
          approvals[frame[t].req] # {}
    /\ frame[t].pc \in {"save", "audit"} => frame[t].verdict # "pending"
    /\ frame[t].pc \in {"save", "audit"} /\ frame[t].verdict = "executed" =>
          effects[frame[t].req] > 0

\* A handler past its last halt check when the switch is on was so at the flip.
HaltInv(t) == halted /\ PastHaltCheck(t) => t \in draining

Inv ==
    /\ \A r \in Requests : RowInv(r) /\ GateInv(r)
    /\ \A t \in Threads : FilingInv(t) /\ HandlerInv(t) /\ HaltInv(t)
    /\ UniqueIds

=============================================================================
