--------------------------- MODULE WriteBackProofs ---------------------------
(***************************************************************************)
(* What holds of WriteBack for every set of threads, users, requests and   *)
(* tools and every number of faults.  The handlers' frames are records, so *)
(* the first lemmas say once what each way of changing a frame leaves.     *)
(***************************************************************************)
EXTENDS WriteBack, FiniteSetTheorems, TLAPS

-----------------------------------------------------------------------------
(* Frames *)

\* An idle thread's frame is a frame.
LEMMA IdleFrameType == IdleFrame \in Frame
  BY DEF IdleFrame, Frame, Steps

\* The steps of the handlers, as the cases of proofs about Step.
LEMMA StepNames ==
  {"idle", "inv_tool", "inv_policy", "dir_halt", "dir_call", "dir_audit",
   "req_gate", "req_save", "req_audit", "dec_approve", "dec_reject",
   "rej_save", "rej_audit", "gate_read", "tool_read", "halt_check", "call",
   "save", "audit", "next"} = Steps
  BY DEF Steps, InvokeSteps, RequestSteps, DecideSteps, SettleSteps

\* Only thread t's frame changes.
OnlyFrame(t) == /\ frame' \in [Threads -> Frame]
                /\ \A s \in Threads \ {t} : frame'[s] = frame[s]

\* The locals other than the program counter and the verdict stay.
SameLocals(t) == /\ frame'[t].user = frame[t].user
                 /\ frame'[t].tool = frame[t].tool
                 /\ frame'[t].direct = frame[t].direct
                 /\ frame'[t].req = frame[t].req
                 /\ frame'[t].todo = frame[t].todo
                 /\ frame'[t].approver = frame[t].approver
                 
\* The effect of Goto on the frames.
LEMMA GotoFrame ==
  ASSUME TypeOK, NEW t \in Threads, NEW p \in Steps, Goto(t, p)
  PROVE  /\ OnlyFrame(t) /\ SameLocals(t)
         /\ frame'[t].pc = p /\ frame'[t].verdict = frame[t].verdict
  BY DEF Goto, TypeOK, Frame, OnlyFrame, SameLocals

\* The effect of a step that also settles the verdict.
LEMMA VerdictFrame ==
  ASSUME TypeOK, NEW t \in Threads, NEW p \in Steps,
         NEW v \in {"pending", "executed", "failed"},
         frame' = [frame EXCEPT ![t].pc = p, ![t].verdict = v]
  PROVE  /\ OnlyFrame(t) /\ SameLocals(t)
         /\ frame'[t].pc = p /\ frame'[t].verdict = v
  BY ZenonT(60) DEF TypeOK, Frame, OnlyFrame, SameLocals

\* The effect of reading the row of the tool.
LEMMA ToolFrame ==
  ASSUME TypeOK, NEW t \in Threads, NEW p \in Steps,
         NEW c \in Tools \cup {NoTool},
         frame' = [frame EXCEPT ![t].pc = p, ![t].tool = c]
  PROVE  /\ OnlyFrame(t)
         /\ frame'[t].pc = p /\ frame'[t].verdict = frame[t].verdict
         /\ frame'[t].req = frame[t].req /\ frame'[t].todo = frame[t].todo
         /\ frame'[t].approver = frame[t].approver
  <1> DEFINE f == [frame[t] EXCEPT !.pc = p, !.tool = c]
  <1>1. frame[t] \in Frame BY DEF TypeOK
  <1>2. f \in Frame BY <1>1 DEF Frame
  <1>3. frame' = [frame EXCEPT ![t] = f] OBVIOUS
  <1>4. /\ f.pc = p /\ f.verdict = frame[t].verdict
        /\ f.req = frame[t].req /\ f.todo = frame[t].todo
        /\ f.approver = frame[t].approver
    BY <1>1 DEF Frame
  <1> QED BY <1>2, <1>3, <1>4 DEF TypeOK, OnlyFrame

\* The effect of minting a request id.
LEMMA MintFrame ==
  ASSUME TypeOK, NEW t \in Threads, NEW p \in Steps, NEW r \in Requests,
         frame' = [frame EXCEPT ![t].pc = p, ![t].req = r]
  PROVE  /\ OnlyFrame(t)
         /\ frame'[t].pc = p /\ frame'[t].req = r
         /\ frame'[t].user = frame[t].user /\ frame'[t].tool = frame[t].tool
         /\ frame'[t].todo = frame[t].todo
         /\ frame'[t].approver = frame[t].approver
  <1> DEFINE f == [frame[t] EXCEPT !.pc = p, !.req = r]
  <1>1. frame[t] \in Frame BY DEF TypeOK
  <1>2. f \in Frame BY <1>1 DEF Frame
  <1>3. frame' = [frame EXCEPT ![t] = f] OBVIOUS
  <1>4. /\ f.pc = p /\ f.req = r
        /\ f.user = frame[t].user /\ f.tool = frame[t].tool
        /\ f.todo = frame[t].todo /\ f.approver = frame[t].approver
    BY <1>1 DEF Frame
  <1> QED BY <1>2, <1>3, <1>4 DEF TypeOK, OnlyFrame

\* The effect of taking the next request of a desk listing.
LEMMA PickFrame ==
  ASSUME TypeOK, NEW t \in Threads, NEW p \in Steps, NEW r \in frame[t].todo,
         frame' = [frame EXCEPT ![t].pc = p, ![t].req = r,
                                ![t].todo = frame[t].todo \ {r},
                                ![t].verdict = "pending"]
  PROVE  /\ OnlyFrame(t)
         /\ frame'[t].pc = p /\ frame'[t].req = r /\ r \in Requests
         /\ frame'[t].todo = frame[t].todo \ {r}
         /\ frame'[t].approver = frame[t].approver
  <1> DEFINE f == [frame[t] EXCEPT !.pc = p, !.req = r,
                                   !.todo = frame[t].todo \ {r},
                                   !.verdict = "pending"]
  <1>1. frame[t] \in Frame BY DEF TypeOK
  <1>2. r \in Requests /\ f \in Frame BY <1>1 DEF Frame
  <1>3. frame' = [frame EXCEPT ![t] = f] OBVIOUS
  <1>4. /\ f.pc = p /\ f.req = r /\ f.todo = frame[t].todo \ {r}
        /\ f.approver = frame[t].approver
    BY <1>1 DEF Frame
  <1> QED BY <1>2, <1>3, <1>4 DEF TypeOK, OnlyFrame

\* The effect of the end of a handler.
LEMMA ReturnFrame ==
  ASSUME TypeOK, NEW t \in Threads, Return(t)
  PROVE  OnlyFrame(t) /\ frame'[t] = IdleFrame
  BY IdleFrameType DEF TypeOK, Return, OnlyFrame

\* The effect of the start of a handler.
LEMMA StartFrame ==
  ASSUME TypeOK, NEW t \in Threads, NEW f \in Frame,
         frame' = [frame EXCEPT ![t] = f]
  PROVE  OnlyFrame(t) /\ frame'[t] = f
  BY DEF TypeOK, OnlyFrame

-----------------------------------------------------------------------------
(* Types *)

\* The tables start empty and every thread idle.
LEMMA InitTypeOK == Init => TypeOK
  <1> SUFFICES ASSUME Init PROVE TypeOK  OBVIOUS
  <1>1. AbsentRow \in Row  BY DEF AbsentRow, Row
  <1>2. rows \in [Requests -> Row]  BY <1>1 DEF Init
  <1>3. frame \in [Threads -> Frame]  BY IdleFrameType DEF Init
  <1>4. receipts \in [Requests -> [Kinds -> Nat]]  BY DEF Init
  <1>5. faults \in 0..MaxFaults  BY ConstantsAssumption DEF Init
  <1> QED BY <1>2, <1>3, <1>4, <1>5 DEF Init, TypeOK, GateState

\* The rows, receipts and counters change within their types.
LEMMA SaveType ==
  ASSUME TypeOK, NEW r \in Requests,
         NEW st \in Statuses \cup {"absent"}, NEW u \in Users \cup {NoUser},
         SaveRow(r, st, u)
  PROVE  rows' \in [Requests -> Row]
  <1> DEFINE row == [rows[r] EXCEPT !.status = st, !.approver = u]
  <1>1. rows[r] \in Row BY DEF TypeOK
  <1>2. row \in Row BY <1>1 DEF Row
  <1>3. rows' = [rows EXCEPT ![r] = row] BY DEF SaveRow
  <1> QED BY <1>2, <1>3 DEF TypeOK

\* A receipt only counts up (VoundryAuditService.append).
LEMMA AppendType ==
  ASSUME TypeOK, NEW r \in Requests, NEW k \in Kinds, Append(r, k)
  PROVE  receipts' \in [Requests -> [Kinds -> Nat]]
  <1> DEFINE count == [receipts[r] EXCEPT ![k] = receipts[r][k] + 1]
  <1>1. receipts[r] \in [Kinds -> Nat] BY DEF TypeOK
  <1>2. count \in [Kinds -> Nat] BY <1>1
  <1>3. receipts' = [receipts EXCEPT ![r] = count] BY DEF Append
  <1> QED BY <1>2, <1>3 DEF TypeOK

\* A handler in the middle of its work holds a request of the table.
LEMMA FrameFields ==
  ASSUME TypeOK, NEW t \in Threads
  PROVE  /\ frame[t].pc \in Steps
         /\ frame[t].user \in Users \cup {NoUser}
         /\ frame[t].tool \in Tools \cup {NoTool}
         /\ frame[t].req \in Requests \cup {NoRequest}
         /\ frame[t].approver \in Users \cup {NoUser}
         /\ frame[t].todo \in SUBSET Requests
         /\ frame[t].verdict \in {"pending", "executed", "failed"}
  BY DEF TypeOK, Frame

\* Every step of a handler keeps the types: what it holds is a row of the table.
LEMMA StepTypeOK ==
  ASSUME TypeOK, Inv, NEW t \in Threads, Step(t)
  PROVE  TypeOK'
  <1> USE FrameFields, StepNames, GotoFrame, ReturnFrame
  <1> USE DEF TypeOK, OnlyFrame, stored, observed
  <1>1. CASE InvokeTool(t)  BY <1>1 DEF InvokeTool
  <1>2. CASE InvokeRoute(t)
    <2>1. /\ UNCHANGED <<rows, gate, tools, strict, receipts, effects, silent,
                         approvals, halted, draining, faults>>
          /\ minted' \in SUBSET Requests
      BY <1>2 DEF InvokeRoute
    <2>2. frame' \in [Threads -> Frame]
      BY ZenonT(60), <1>2, MintFrame DEF InvokeRoute
    <2> QED BY <2>1, <2>2
  <1>3. CASE DirectHaltCheck(t)  BY <1>3 DEF DirectHaltCheck
  <1>4. CASE DirectCall(t)  BY <1>4 DEF DirectCall
  <1>5. CASE DirectAudit(t)  BY <1>5 DEF DirectAudit
  <1>6. CASE RequestGate(t)  BY <1>6 DEF RequestGate, GateState
  <1>7. CASE RequestSave(t)  BY <1>7 DEF RequestSave, Row, Statuses
  <1>8. CASE RequestAudit(t)
    BY <1>8, AppendType DEF RequestAudit, Kinds, Inv, FilingInv, RequestSteps
  <1>9. CASE ApproveGate(t)
    <2>1. frame[t].user \in Users  BY <1>9 DEF ApproveGate, Inv, HandlerInv
    <2>2. approvals' \in [Requests -> SUBSET Users]
      BY ZenonT(60), <1>9, <2>1 DEF ApproveGate
    <2> QED BY <1>9, <2>2 DEF ApproveGate, GateState
  <1>10. CASE RejectGate(t)  BY <1>10 DEF RejectGate, GateState
  <1>11. CASE RejectSave(t)
    BY <1>11, SaveType DEF RejectSave, Statuses, Inv, HandlerInv, DecideSteps
  <1>12. CASE RejectAudit(t)
    BY <1>12, AppendType DEF RejectAudit, Kinds, Inv, HandlerInv, DecideSteps
  <1>13. CASE NextRequest(t)  BY <1>13, PickFrame DEF NextRequest
  <1>14. CASE GateRead(t)  BY <1>14 DEF GateRead
  <1>15. CASE ToolRead(t)
    BY ZenonT(60), <1>15, ToolFrame DEF ToolRead, Row, Inv, HandlerInv, SettleSteps
  <1>16. CASE HaltCheck(t)  BY <1>16, VerdictFrame DEF HaltCheck
  <1>17. CASE Call(t)
    <2>1. PICK o \in Outcomes :
            /\ frame' = [frame EXCEPT ![t].pc = "save",
                           ![t].verdict = IF o = "done" THEN "executed" ELSE "failed"]
            /\ effects' = [effects EXCEPT ![frame[t].req] =
                              IF Effect(o) THEN effects[frame[t].req] + 1
                                          ELSE effects[frame[t].req]]
      BY <1>17 DEF Call
    <2>2. frame' \in [Threads -> Frame]
      <3>1. CASE o = "done"  BY <2>1, <3>1, VerdictFrame
      <3>2. CASE o # "done"  BY <2>1, <3>2, VerdictFrame
      <3> QED BY <3>1, <3>2
    <2>3. effects' \in [Requests -> Nat]
      <3>1. frame[t].req \in Requests
        BY <1>17 DEF Call, Inv, HandlerInv, SettleSteps
      <3> QED BY <2>1, <3>1
    <2> QED BY <1>17, <2>2, <2>3 DEF Call
  <1>18. CASE Save(t)
    BY <1>18, SaveType DEF Save, Statuses, Inv, HandlerInv, SettleSteps
  <1>19. CASE Audit(t)
    BY <1>19, AppendType DEF Audit, Kinds, Inv, HandlerInv, SettleSteps
  <1> QED
    BY <1>1, <1>2, <1>3, <1>4, <1>5, <1>6, <1>7, <1>8, <1>9, <1>10, <1>11,
       <1>12, <1>13, <1>14, <1>15, <1>16, <1>17, <1>18, <1>19 DEF Step

\* invoke, decide_write_back and list_write_requests start with well-typed locals.
LEMMA StartTypeOK ==
  ASSUME TypeOK, NEW t \in Threads, Start(t)
  PROVE  TypeOK'
  <1> USE StartFrame DEF TypeOK, OnlyFrame, stored, observed
  <1>1. ASSUME NEW u \in Users, NEW c \in Tools, NEW d \in BOOLEAN,
               Invoke(t, u, c, d)
        PROVE  TypeOK'
    <2>1. [IdleFrame EXCEPT !.pc = "inv_tool", !.user = u, !.tool = c,
                            !.direct = d] \in Frame
      BY StepNames DEF IdleFrame, Frame
    <2> QED BY <1>1, <2>1 DEF Invoke
  <1>2. ASSUME NEW u \in Users, NEW r \in Requests, NEW a \in BOOLEAN,
               Decide(t, u, r, a)
        PROVE  TypeOK'
    <2>1. [IdleFrame EXCEPT !.pc = IF a THEN "dec_approve" ELSE "dec_reject",
                            !.user = u, !.req = r, !.approver = u] \in Frame
      BY StepNames DEF IdleFrame, Frame
    <2> QED BY <1>2, <2>1 DEF Decide
  <1>3. ASSUME NEW u \in Users, ListDesk(t, u)
        PROVE  TypeOK'
    <2>1. [IdleFrame EXCEPT !.pc = "next", !.user = u,
              !.todo = {r \in Requests : Pending(r) /\ rows[r].maker = u}]
            \in Frame
      BY StepNames DEF IdleFrame, Frame
    <2> QED BY <1>3, <2>1 DEF ListDesk
  <1> QED BY <1>1, <1>2, <1>3 DEF Start

\* Crashes, failed calls, the desk and the switch keep the types.
LEMMA EnvironmentTypeOK ==
  ASSUME TypeOK, Environment
  PROVE  TypeOK'
  <1> USE ConstantsAssumption DEF TypeOK, stored, observed
  <1>1. ASSUME NEW c \in Tools, Connect(c) \/ Disconnect(c)  PROVE TypeOK'
    BY <1>1 DEF Connect, Disconnect
  <1>2. CASE SetOrgPolicy  BY <1>2 DEF SetOrgPolicy
  <1>3. CASE Activate \/ Deactivate  BY <1>3 DEF Activate, Deactivate
  <1>4. ASSUME NEW t \in Threads, Abort(t)  PROVE TypeOK'
    BY <1>4, ReturnFrame DEF Abort, OnlyFrame
  <1>5. CASE Crash
    <2>1. (silent \/ \E t \in Threads : Unreceipted(t)) \in BOOLEAN
      BY Zenon
    <2>2. silent' = (silent \/ \E t \in Threads : Unreceipted(t))
      BY <1>5 DEF Crash
    <2>3. silent' \in BOOLEAN  BY <2>1, <2>2, Zenon
    <2>4. /\ frame' \in [Threads -> Frame]
          /\ faults' \in 0..MaxFaults
      BY <1>5, IdleFrameType DEF Crash
    <2> QED BY <1>5, <2>3, <2>4 DEF Crash
  <1> QED BY <1>1, <1>2, <1>3, <1>4, <1>5 DEF Environment

-----------------------------------------------------------------------------
(* What no step takes back *)

\* Rows once filed stay filed by the same maker; approvals, effects and minted
\* ids are never withdrawn.
Grows ==
    /\ \A r \in Requests :
          /\ Filed(r) => Filed(r)' /\ rows'[r].maker = rows[r].maker
          /\ approvals[r] \subseteq approvals'[r]
          /\ effects[r] > 0 => effects'[r] > 0
    /\ minted \subseteq minted'

\* Steps that leave the tables and the outside world alone.
Quiet == UNCHANGED <<rows, gate, minted, receipts, effects, approvals>>

\* A step that leaves the tables alone takes nothing back.
LEMMA QuietGrows == Quiet => Grows
  BY DEF Quiet, Grows, Filed

\* The steps that only read, or call a direct write, leave the tables alone.
LEMMA QuietSteps ==
  ASSUME NEW t \in Threads,
         \/ InvokeTool(t) \/ DirectHaltCheck(t) \/ DirectCall(t)
         \/ DirectAudit(t) \/ NextRequest(t) \/ GateRead(t) \/ ToolRead(t)
         \/ HaltCheck(t)
  PROVE  Quiet
  BY DEF InvokeTool, DirectHaltCheck, DirectCall, DirectAudit, NextRequest,
         GateRead, ToolRead, HaltCheck, Quiet, stored, observed

\* Overwriting a filed row from a snapshot keeps it filed, and its maker.
LEMMA SaveFacts ==
  ASSUME TypeOK, NEW r \in Requests, NEW st \in Statuses,
         NEW u \in Users \cup {NoUser}, SaveRow(r, st, u)
  PROVE  /\ Filed(r)'
         /\ rows'[r].status = st /\ rows'[r].approver = u
         /\ rows'[r].maker = rows[r].maker
         /\ \A q \in Requests \ {r} : rows'[q] = rows[q]
  <1> DEFINE row == [rows[r] EXCEPT !.status = st, !.approver = u]
  <1>1. rows[r] \in Row  BY DEF TypeOK
  <1>2. rows' = [rows EXCEPT ![r] = row]  BY DEF SaveRow
  <1>3. row.status = st /\ row.approver = u /\ row.maker = rows[r].maker
    BY <1>1 DEF Row
  <1> QED BY <1>2, <1>3 DEF TypeOK, Filed, Statuses

\* No step of a handler takes back a filing, an approval or an effect.
LEMMA StepGrows ==
  ASSUME TypeOK, Inv, NEW t \in Threads, Step(t)
  PROVE  Grows
  <1> USE FrameFields DEF Grows, Inv
  <1>1. CASE Quiet  BY <1>1, QuietGrows
  <1>2. CASE InvokeRoute(t)  BY <1>2 DEF InvokeRoute, Filed, observed
  <1>3. CASE RequestGate(t)  BY <1>3 DEF RequestGate, Filed, observed
  <1>4. CASE RequestSave(t)
    <2>1. frame[t].req \in Requests /\ ~Filed(frame[t].req)
      BY <1>4 DEF RequestSave, FilingInv, Filing, RequestSteps
    <2> QED BY <1>4, <2>1 DEF RequestSave, Filed, TypeOK, observed
  <1>5. CASE RequestAudit(t) \/ RejectAudit(t) \/ Audit(t)
    BY <1>5 DEF RequestAudit, RejectAudit, Audit, Filed, observed
  <1>6. CASE ApproveGate(t)  BY <1>6 DEF ApproveGate, Filed, TypeOK
  <1>7. CASE RejectGate(t)  BY <1>7 DEF RejectGate, Filed, observed
  <1>8. CASE RejectSave(t)
    <2>1. frame[t].req \in Requests
      BY <1>8 DEF RejectSave, HandlerInv, DecideSteps
    <2> QED BY <1>8, <2>1, SaveFacts DEF RejectSave, Filed, observed, Statuses
  <1>9. CASE Call(t)
    <2>1. UNCHANGED <<rows, approvals, minted>>  BY <1>9 DEF Call, stored
    <2>2. PICK o \in Outcomes :
            effects' = [effects EXCEPT ![frame[t].req] =
                          IF Effect(o) THEN effects[frame[t].req] + 1
                                       ELSE effects[frame[t].req]]
      BY <1>9 DEF Call
    <2>3. \A r \in Requests : effects[r] > 0 => effects'[r] > 0
      BY <2>2 DEF TypeOK
    <2> QED BY <2>1, <2>3 DEF Filed
  <1>10. CASE Save(t)
    <2>1. frame[t].req \in Requests /\ frame[t].verdict \in Statuses
      BY <1>10 DEF Save, HandlerInv, SettleSteps, Statuses
    <2> QED BY <1>10, <2>1, SaveFacts DEF Save, Filed, observed
  <1> QED
    BY <1>1, <1>2, <1>3, <1>4, <1>5, <1>6, <1>7, <1>8, <1>9, <1>10, QuietSteps
       DEF Step

-----------------------------------------------------------------------------
(* The tables *)

\* A receipt of another kind or request leaves the count of executions.
LEMMA AppendFacts ==
  ASSUME TypeOK, NEW r \in Requests, NEW k \in Kinds, Append(r, k)
  PROVE  \A q \in Requests :
            receipts'[q]["executed"] =
               IF q = r /\ k = "executed" THEN receipts[q]["executed"] + 1
                                          ELSE receipts[q]["executed"]
  <1> DEFINE count == [receipts[r] EXCEPT ![k] = receipts[r][k] + 1]
  <1>1. receipts[r] \in [Kinds -> Nat] BY DEF TypeOK
  <1>2. receipts' = [receipts EXCEPT ![r] = count] BY DEF Append
  <1>3. "executed" \in Kinds  BY DEF Kinds
  <1>4. count["executed"] = IF k = "executed" THEN receipts[r]["executed"] + 1
                                              ELSE receipts[r]["executed"]
    BY <1>1, <1>3
  <1> QED BY <1>2, <1>4 DEF TypeOK

\* Every step of a handler keeps what the tables say of each request.
LEMMA TablesStep ==
  ASSUME TypeOK, Inv, NEW t \in Threads, Step(t), NEW r \in Requests
  PROVE  RowInv(r)' /\ GateInv(r)'
  <1> USE FrameFields DEF Inv
  <1>1. CASE Quiet  BY <1>1 DEF Quiet, RowInv, GateInv, Filed
  <1>2. CASE InvokeRoute(t)
    BY <1>2 DEF InvokeRoute, RowInv, GateInv, Filed, observed
  <1>3. CASE RequestGate(t)
    BY <1>3 DEF RequestGate, RowInv, GateInv, Filed, TypeOK, observed
  <1>4. CASE RequestSave(t)
    <2>1. /\ frame[t].req \in Requests /\ ~Filed(frame[t].req)
          /\ frame[t].req \in minted /\ frame[t].user \in Users
      BY <1>4 DEF RequestSave, FilingInv, Filing, RequestSteps
    <2>2. /\ rows'[frame[t].req].status = "pending"
          /\ rows'[frame[t].req].maker = frame[t].user
          /\ \A q \in Requests \ {frame[t].req} : rows'[q] = rows[q]
      BY <1>4, <2>1 DEF RequestSave, TypeOK
    <2>3. UNCHANGED <<gate, minted, receipts, effects, approvals>>
      BY <1>4 DEF RequestSave, observed
    <2> QED BY <2>1, <2>2, <2>3 DEF RowInv, GateInv, Filed
  <1>5. CASE RequestAudit(t)
    <2>1. frame[t].req \in Requests
      BY <1>5 DEF RequestAudit, FilingInv, RequestSteps
    <2>2. \A q \in Requests : receipts'[q]["executed"] = receipts[q]["executed"]
      BY <1>5, <2>1, AppendFacts DEF RequestAudit, Kinds
    <2> QED BY <1>5, <2>2 DEF RequestAudit, RowInv, GateInv, Filed, observed
  <1>6. CASE RejectAudit(t)
    <2>1. frame[t].req \in Requests
      BY <1>6 DEF RejectAudit, HandlerInv, DecideSteps
    <2>2. \A q \in Requests : receipts'[q]["executed"] = receipts[q]["executed"]
      BY <1>6, <2>1, AppendFacts DEF RejectAudit, Kinds
    <2> QED BY <1>6, <2>2 DEF RejectAudit, RowInv, GateInv, Filed, observed
  <1>7. CASE ApproveGate(t)
    <2>1. /\ frame[t].req \in Requests /\ Filed(frame[t].req)
          /\ frame[t].user \in Users
          /\ frame[t].user # rows[frame[t].req].maker
      BY <1>7 DEF ApproveGate, HandlerInv, DecideSteps
    <2>2. /\ gate' = [gate EXCEPT ![frame[t].req] = "approved"]
          /\ approvals' = [approvals EXCEPT ![frame[t].req] =
                             approvals[frame[t].req] \cup {frame[t].user}]
          /\ UNCHANGED <<rows, minted, receipts, effects>>
      BY <1>7 DEF ApproveGate
    <2> QED BY <2>1, <2>2 DEF RowInv, GateInv, Filed, TypeOK
  <1>8. CASE RejectGate(t)
    BY <1>8 DEF RejectGate, RowInv, GateInv, Filed, TypeOK, observed
  <1>9. CASE RejectSave(t)
    <2>1. frame[t].req \in Requests /\ Filed(frame[t].req)
      BY <1>9 DEF RejectSave, HandlerInv, DecideSteps
    <2>2. /\ rows'[frame[t].req].status = "rejected"
          /\ rows'[frame[t].req].maker = rows[frame[t].req].maker
          /\ \A q \in Requests \ {frame[t].req} : rows'[q] = rows[q]
      BY <1>9, <2>1, SaveFacts DEF RejectSave, Statuses
    <2>3. UNCHANGED <<gate, minted, receipts, effects, approvals>>
      BY <1>9 DEF RejectSave, observed
    <2> QED BY <2>1, <2>2, <2>3 DEF RowInv, GateInv, Filed
  <1>10. CASE Call(t)
    <2>1. /\ frame[t].req \in Requests /\ approvals[frame[t].req] # {}
      BY <1>10 DEF Call, HandlerInv, SettleSteps
    <2>2. UNCHANGED <<rows, gate, minted, receipts, approvals>>
      BY <1>10 DEF Call, stored
    <2>3. \A q \in Requests :
            /\ effects[q] > 0 => effects'[q] > 0
            /\ q # frame[t].req => effects'[q] = effects[q]
      BY <1>10, StepGrows DEF Call, Grows, TypeOK
    <2> QED BY <2>1, <2>2, <2>3 DEF RowInv, GateInv, Filed
  <1>11. CASE Save(t)
    <2>1. /\ frame[t].req \in Requests /\ Filed(frame[t].req)
          /\ approvals[frame[t].req] # {}
          /\ frame[t].approver # rows[frame[t].req].maker
          /\ frame[t].verdict \in {"executed", "failed"}
          /\ frame[t].verdict = "executed" => effects[frame[t].req] > 0
      BY <1>11 DEF Save, HandlerInv, SettleSteps
    <2>2. /\ rows'[frame[t].req].status = frame[t].verdict
          /\ rows'[frame[t].req].approver = frame[t].approver
          /\ rows'[frame[t].req].maker = rows[frame[t].req].maker
          /\ \A q \in Requests \ {frame[t].req} : rows'[q] = rows[q]
      BY <1>11, <2>1, SaveFacts DEF Save, Statuses
    <2>3. UNCHANGED <<gate, minted, receipts, effects, approvals>>
      BY <1>11 DEF Save, observed
    <2> QED BY <2>1, <2>2, <2>3 DEF RowInv, GateInv, Filed
  <1>12. CASE Audit(t)
    <2>1. /\ frame[t].req \in Requests
          /\ frame[t].verdict \in Kinds
          /\ frame[t].verdict = "executed" => effects[frame[t].req] > 0
      BY <1>12 DEF Audit, HandlerInv, SettleSteps, Kinds
    <2>2. \A q \in Requests :
            q # frame[t].req \/ frame[t].verdict # "executed"
               => receipts'[q]["executed"] = receipts[q]["executed"]
      BY <1>12, <2>1, AppendFacts DEF Audit
    <2>3. UNCHANGED <<rows, gate, minted, effects, approvals>>
      BY <1>12 DEF Audit, observed
    <2> QED BY <2>1, <2>2, <2>3 DEF RowInv, GateInv, Filed
  <1> QED
    BY <1>1, <1>2, <1>3, <1>4, <1>5, <1>6, <1>7, <1>8, <1>9, <1>10, <1>11,
       <1>12, QuietSteps DEF Step

-----------------------------------------------------------------------------
(* The handlers *)

\* Reading the tool keeps the request, the list and the approver.
LEMMA ToolReadFrame ==
  ASSUME TypeOK, Inv, NEW t \in Threads, ToolRead(t)
  PROVE  /\ OnlyFrame(t)
         /\ frame'[t].pc = "halt_check"
         /\ frame'[t].req = frame[t].req /\ frame'[t].todo = frame[t].todo
         /\ frame'[t].approver = frame[t].approver
  <1> DEFINE c == rows[frame[t].req].tool
             d == IF tools[c] = "connected" THEN c ELSE NoTool
  <1>1. frame[t].req \in Requests
    BY DEF ToolRead, Inv, HandlerInv, SettleSteps
  <1>2. d \in Tools \cup {NoTool}  BY <1>1 DEF TypeOK, Row
  <1>3. frame' = [frame EXCEPT ![t].pc = "halt_check", ![t].tool = d]
    BY DEF ToolRead
  <1> HIDE DEF d
  <1> QED BY <1>2, <1>3, ToolFrame, StepNames

\* The external call settles the verdict: EXECUTED only when it took effect.
LEMMA CallFrame ==
  ASSUME TypeOK, NEW t \in Threads, Call(t)
  PROVE  /\ OnlyFrame(t) /\ SameLocals(t)
         /\ frame'[t].pc = "save"
         /\ frame'[t].verdict \in {"executed", "failed"}
         /\ frame'[t].verdict = "executed" =>
               effects' = [effects EXCEPT ![frame[t].req] =
                                             effects[frame[t].req] + 1]
  <1>1. PICK o \in Outcomes :
          /\ frame' = [frame EXCEPT ![t].pc = "save",
                         ![t].verdict = IF o = "done" THEN "executed"
                                                      ELSE "failed"]
          /\ effects' = [effects EXCEPT ![frame[t].req] =
                           IF Effect(o) THEN effects[frame[t].req] + 1
                                        ELSE effects[frame[t].req]]
    BY DEF Call
  <1>2. CASE o = "done"
    BY <1>1, <1>2, VerdictFrame, StepNames DEF Effect
  <1>3. CASE o # "done"
    <2>1. frame' = [frame EXCEPT ![t].pc = "save", ![t].verdict = "failed"]
      BY <1>1, <1>3
    <2> QED BY <2>1, VerdictFrame, StepNames
  <1> QED BY <1>2, <1>3

\* A handler changes its own locals only.
LEMMA StepOnlyFrame ==
  ASSUME TypeOK, Inv, NEW t \in Threads, Step(t)
  PROVE  OnlyFrame(t)
  <1> USE FrameFields, StepNames, GotoFrame, ReturnFrame
  <1>1. CASE InvokeRoute(t)  BY <1>1, MintFrame DEF InvokeRoute
  <1>2. CASE NextRequest(t)  BY <1>2, PickFrame DEF NextRequest
  <1>3. CASE ToolRead(t)  BY <1>3, ToolReadFrame
  <1>4. CASE HaltCheck(t)  BY <1>4, VerdictFrame DEF HaltCheck
  <1>5. CASE Call(t)  BY <1>5, CallFrame
  <1>6. CASE InvokeTool(t)  BY <1>6 DEF InvokeTool
  <1>7. CASE \/ DirectHaltCheck(t) \/ DirectCall(t) \/ DirectAudit(t)
    BY <1>7 DEF DirectHaltCheck, DirectCall, DirectAudit
  <1>8. CASE RequestGate(t) \/ RequestSave(t) \/ RequestAudit(t)
    BY <1>8 DEF RequestGate, RequestSave, RequestAudit
  <1>9. CASE \/ ApproveGate(t) \/ RejectGate(t) \/ RejectSave(t)
             \/ RejectAudit(t)
    BY <1>9 DEF ApproveGate, RejectGate, RejectSave, RejectAudit
  <1>10. CASE GateRead(t) \/ Save(t) \/ Audit(t)
    BY <1>10 DEF GateRead, Save, Audit
  <1> QED
    BY <1>1, <1>2, <1>3, <1>4, <1>5, <1>6, <1>7, <1>8, <1>9, <1>10 DEF Step

\* A thread that is not in a handler satisfies its invariants.
LEMMA IdleInv ==
  ASSUME NEW t \in Threads, frame'[t] = IdleFrame
  PROVE  FilingInv(t)' /\ HandlerInv(t)' /\ HaltInv(t)' /\ ~Filing(t)'
  BY DEF IdleFrame, FilingInv, HandlerInv, HaltInv, PastHaltCheck, Filing,
         InvokeSteps, RequestSteps, DecideSteps, SettleSteps

\* What another thread knows survives the growth of the tables.
LEMMA OthersHandlerInv ==
  ASSUME TypeOK, Inv, Grows, NEW s \in Threads, frame'[s] = frame[s]
  PROVE  HandlerInv(s)'
  <1> USE FrameFields DEF Inv, HandlerInv, Grows
  <1>1. \A r \in frame[s].todo : Filed(r)'
    BY DEF Filed
  <1>2. CASE frame[s].req \in Requests /\ Filed(frame[s].req)
    <2>1. Filed(frame[s].req)'  BY <1>2 DEF Filed
    <2>2. rows'[frame[s].req].maker = rows[frame[s].req].maker
      BY <1>2
    <2>3. /\ approvals[frame[s].req] # {} => approvals'[frame[s].req] # {}
          /\ effects[frame[s].req] > 0 => effects'[frame[s].req] > 0
      BY <1>2
    <2> QED BY <1>1, <1>2, <2>1, <2>2, <2>3
  <1>3. CASE ~(frame[s].req \in Requests /\ Filed(frame[s].req))
    <2>1. frame[s].pc \notin DecideSteps \cup (SettleSteps \ {"next"})
      BY <1>3
    <2> QED BY <1>1, <2>1 DEF DecideSteps, SettleSteps
  <1> QED BY <1>2, <1>3

\* A handler that keeps its request, its list and its approver and moves to a
\* step whose precondition it meets.
SettlePrecondition(t, step) ==
    /\ step # "dec_approve"
    /\ step \in DecideSteps \cup (SettleSteps \ {"next"}) =>
          frame[t].req \in Requests /\ Filed(frame[t].req)
    /\ step \in SettleSteps \ {"next"} =>
          frame[t].approver # rows[frame[t].req].maker
    /\ step \in {"tool_read", "halt_check", "call", "save", "audit"} =>
          approvals[frame[t].req] # {}

\* Such a move preserves what the handler knows.
LEMMA MoveHandlerInv ==
  ASSUME TypeOK, Inv, Grows, NEW t \in Threads, NEW step \in Steps,
         frame'[t].pc = step, frame'[t].req = frame[t].req,
         frame'[t].todo = frame[t].todo,
         frame'[t].approver = frame[t].approver,
         SettlePrecondition(t, step),
         step \in {"save", "audit"} =>
            /\ frame'[t].verdict # "pending"
            /\ frame'[t].verdict = "executed" => effects'[frame[t].req] > 0
  PROVE  HandlerInv(t)'
  <1>1. /\ frame[t].todo # {} => frame[t].approver = NoUser
        /\ \A r \in frame[t].todo : r \in Requests /\ Filed(r)
    BY FrameFields DEF Inv, HandlerInv
  <1>2. \A r \in frame[t].todo : Filed(r)'
    BY <1>1 DEF Grows, Filed
  <1>3. ASSUME frame[t].req \in Requests, Filed(frame[t].req)
        PROVE  /\ rows'[frame[t].req].status # "absent"
               /\ rows'[frame[t].req].maker = rows[frame[t].req].maker
               /\ approvals[frame[t].req] # {} => approvals'[frame[t].req] # {}
    BY <1>3 DEF Grows, Filed
  <1>4. CASE step \in DecideSteps \cup (SettleSteps \ {"next"})
    <2>1. frame[t].req \in Requests /\ Filed(frame[t].req)
      BY <1>4 DEF SettlePrecondition
    <2>2. /\ rows'[frame[t].req].status # "absent"
          /\ rows'[frame[t].req].maker = rows[frame[t].req].maker
          /\ approvals[frame[t].req] # {} => approvals'[frame[t].req] # {}
      BY <1>3, <2>1
    <2> QED BY <1>1, <1>2, <2>1, <2>2 DEF HandlerInv, SettlePrecondition, Filed
  <1>5. CASE step \notin DecideSteps \cup (SettleSteps \ {"next"})
    <2>1. /\ step \notin {"dec_approve", "tool_read", "halt_check", "call",
                          "save", "audit"}
      BY <1>5 DEF DecideSteps, SettleSteps
    <2> QED BY <1>1, <1>2, <1>5, <2>1 DEF HandlerInv, Filed
  <1> QED BY <1>4, <1>5

\* The same for a plain Goto.
LEMMA GotoHandlerInv ==
  ASSUME TypeOK, Inv, Grows, NEW t \in Threads, NEW step \in Steps,
         Goto(t, step), SettlePrecondition(t, step),
         step \in {"save", "audit"} =>
            /\ frame[t].verdict # "pending"
            /\ frame[t].verdict = "executed" => effects'[frame[t].req] > 0
  PROVE  HandlerInv(t)'
  BY GotoFrame, MoveHandlerInv DEF SameLocals

\* A step of a desk listing to its next pending request.
LEMMA PickHandlerInv ==
  ASSUME TypeOK, Inv, NEW t \in Threads, NextRequest(t),
         NEW r \in frame[t].todo,
         frame' = [frame EXCEPT ![t].pc = "gate_read", ![t].req = r,
                                ![t].todo = frame[t].todo \ {r},
                                ![t].verdict = "pending"]
  PROVE  HandlerInv(t)'
  <1>1. /\ frame'[t].pc = "gate_read" /\ frame'[t].req = r
        /\ r \in Requests
        /\ frame'[t].todo = frame[t].todo \ {r}
        /\ frame'[t].approver = frame[t].approver
    BY ZenonT(60), PickFrame, StepNames
  <1>2. frame[t].approver = NoUser /\ \A q \in frame[t].todo : Filed(q)
    BY DEF Inv, HandlerInv
  <1>3. UNCHANGED rows  BY DEF NextRequest, stored
  <1>4. Filed(r) /\ rows[r].maker # NoUser
    BY <1>1, <1>2, ConstantsAssumption DEF Inv, RowInv
  <1> QED BY <1>1, <1>2, <1>3, <1>4 DEF HandlerInv, Filed, DecideSteps

\* The external call leaves the handler ready to save its verdict.
LEMMA CallHandlerInv ==
  ASSUME TypeOK, Inv, Grows, NEW t \in Threads, Call(t)
  PROVE  HandlerInv(t)'
  <1>1. frame[t].req \in Requests /\ SettlePrecondition(t, "save")
    BY DEF Call, Inv, HandlerInv, SettlePrecondition, SettleSteps
  <1>2. frame'[t].verdict = "executed" => effects'[frame[t].req] > 0
    BY <1>1, CallFrame DEF TypeOK
  <1> QED BY <1>1, <1>2, CallFrame, MoveHandlerInv, StepNames DEF SameLocals

\* No step of any handler invalidates what a handler in progress relies on.
LEMMA HandlerStep ==
  ASSUME TypeOK, Inv, NEW t \in Threads, Step(t), NEW s \in Threads
  PROVE  HandlerInv(s)'
  <1>1. OnlyFrame(t) /\ Grows  BY StepOnlyFrame, StepGrows
  <1>2. CASE s # t  BY <1>1, <1>2, OthersHandlerInv DEF OnlyFrame
  <1>3. HandlerInv(t)'
    <2>1. ASSUME Return(t)  PROVE HandlerInv(t)'
      BY <2>1, ReturnFrame, IdleInv
    <2>2. ASSUME NEW p \in InvokeSteps \cup RequestSteps, Goto(t, p)
          PROVE  HandlerInv(t)'
      <3>1. SettlePrecondition(t, p) /\ p \in Steps /\ p \notin {"save", "audit"}
        BY DEF SettlePrecondition, Steps, InvokeSteps, RequestSteps,
               DecideSteps, SettleSteps
      <3> QED BY <1>1, <2>2, <3>1, GotoHandlerInv
    <2>3. CASE InvokeTool(t)
      BY <2>1, <2>2, <2>3 DEF InvokeTool, InvokeSteps
    <2>4. CASE InvokeRoute(t)
      <3>1. ASSUME NEW r \in Requests,
                   frame' = [frame EXCEPT ![t].pc = "req_gate", ![t].req = r]
            PROVE  HandlerInv(t)'
        <4>1. /\ frame'[t].pc = "req_gate" /\ frame'[t].todo = frame[t].todo
              /\ frame'[t].approver = frame[t].approver
          BY <3>1, MintFrame, StepNames
        <4>2. \A q \in frame[t].todo : Filed(q)'
          BY <1>1, FrameFields DEF Inv, HandlerInv, Grows, Filed
        <4> QED BY <4>1, <4>2 DEF Inv, HandlerInv, DecideSteps, SettleSteps
      <3>2. CASE \E r \in Requests :
                   frame' = [frame EXCEPT ![t].pc = "req_gate", ![t].req = r]
        BY <3>1, <3>2
      <3>3. CASE Goto(t, "dir_halt") \/ Goto(t, "dir_call") \/ Return(t)
        BY <2>1, <2>2, <3>3 DEF InvokeSteps
      <3> QED BY <2>4, <3>2, <3>3 DEF InvokeRoute
    <2>5. CASE DirectHaltCheck(t) \/ DirectCall(t) \/ DirectAudit(t)
      BY <2>1, <2>2, <2>5 DEF DirectHaltCheck, DirectCall, DirectAudit,
         InvokeSteps
    <2>6. CASE RequestGate(t) \/ RequestSave(t) \/ RequestAudit(t)
      BY <2>1, <2>2, <2>6 DEF RequestGate, RequestSave, RequestAudit,
         RequestSteps
    <2>7. CASE ApproveGate(t)
      <3>1. SettlePrecondition(t, "gate_read") /\ Goto(t, "gate_read")
        BY <2>7 DEF ApproveGate, SettlePrecondition, Inv, HandlerInv,
           DecideSteps
      <3> QED BY <1>1, <3>1, GotoHandlerInv, StepNames
    <2>8. CASE RejectGate(t)
      <3>1. SettlePrecondition(t, "rej_save") /\ Goto(t, "rej_save")
        BY <2>8 DEF RejectGate, SettlePrecondition, Inv, HandlerInv,
           DecideSteps, SettleSteps
      <3> QED BY <1>1, <3>1, GotoHandlerInv, StepNames
    <2>9. CASE RejectSave(t)
      <3>1. SettlePrecondition(t, "rej_audit") /\ Goto(t, "rej_audit")
        BY <2>9 DEF RejectSave, SettlePrecondition, Inv, HandlerInv,
           DecideSteps, SettleSteps
      <3> QED BY <1>1, <3>1, GotoHandlerInv, StepNames
    <2>10. CASE RejectAudit(t)  BY <2>1, <2>10 DEF RejectAudit
    <2>11. CASE NextRequest(t)
      BY <2>1, <2>11, PickHandlerInv DEF NextRequest
    <2>12. CASE GateRead(t)
      <3>1. /\ frame[t].pc = "gate_read" /\ frame[t].req \in Requests
            /\ SettlePrecondition(t, "next")
            /\ gate[frame[t].req] = "approved"
                  => SettlePrecondition(t, "tool_read")
        BY <2>12 DEF GateRead, SettlePrecondition, Inv, HandlerInv, GateInv,
           DecideSteps, SettleSteps
      <3> QED BY <1>1, <2>12, <3>1, GotoHandlerInv, StepNames DEF GateRead
    <2>13. CASE ToolRead(t)
      <3>1. SettlePrecondition(t, "halt_check")
        BY <2>13 DEF ToolRead, SettlePrecondition, Inv, HandlerInv, SettleSteps
      <3> QED BY <1>1, <2>13, <3>1, ToolReadFrame, MoveHandlerInv, StepNames
    <2>14. CASE HaltCheck(t)
      <3>1. SettlePrecondition(t, "call") /\ SettlePrecondition(t, "save")
        BY <2>14 DEF HaltCheck, SettlePrecondition, Inv, HandlerInv,
           DecideSteps, SettleSteps
      <3>2. CASE Goto(t, "call")
        BY <1>1, <3>1, <3>2, GotoHandlerInv, StepNames
      <3>3. CASE frame' = [frame EXCEPT ![t].pc = "save",
                                        ![t].verdict = "failed"]
        <4>1. /\ SameLocals(t) /\ frame'[t].pc = "save"
              /\ frame'[t].verdict = "failed"
          BY <3>3, VerdictFrame, StepNames
        <4> QED BY <1>1, <3>1, <4>1, MoveHandlerInv, StepNames DEF SameLocals
      <3> QED BY <2>14, <3>2, <3>3 DEF HaltCheck
    <2>15. CASE Call(t)  BY <1>1, <2>15, CallHandlerInv
    <2>16. CASE Save(t)
      <3>1. /\ SettlePrecondition(t, "audit") /\ Goto(t, "audit")
            /\ frame[t].verdict # "pending" /\ UNCHANGED effects
            /\ frame[t].verdict = "executed" => effects[frame[t].req] > 0
        BY <2>16 DEF Save, SettlePrecondition, Inv, HandlerInv, SettleSteps,
           DecideSteps, observed
      <3> QED BY <1>1, <3>1, GotoHandlerInv, StepNames
    <2>17. CASE Audit(t)
      <3>1. SettlePrecondition(t, "next") /\ Goto(t, "next")
        BY <2>17 DEF Audit, SettlePrecondition, DecideSteps, SettleSteps
      <3> QED BY <1>1, <3>1, GotoHandlerInv, StepNames
    <2> QED
      BY <2>3, <2>4, <2>5, <2>6, <2>7, <2>8, <2>9, <2>10, <2>11, <2>12,
         <2>13, <2>14, <2>15, <2>16, <2>17 DEF Step
  <1> QED BY <1>2, <1>3

\* Only the handler that minted the id files the row.
LEMMA NewlyFiled ==
  ASSUME TypeOK, Inv, NEW t \in Threads, Step(t), NEW r \in Requests,
         ~Filed(r), rows'[r].status # "absent"
  PROVE  frame[t].pc = "req_save" /\ r = frame[t].req
  <1> USE FrameFields DEF Inv
  <1>1. CASE UNCHANGED rows  BY <1>1 DEF Filed
  <1>2. CASE RequestSave(t)  BY <1>2 DEF RequestSave, TypeOK, Filed
  <1>3. CASE RejectSave(t)
    <2>1. frame[t].req \in Requests /\ Filed(frame[t].req)
      BY <1>3 DEF RejectSave, HandlerInv, DecideSteps
    <2> QED BY <1>3, <2>1, SaveFacts DEF RejectSave, Statuses, Filed
  <1>4. CASE Save(t)
    <2>1. /\ frame[t].req \in Requests /\ Filed(frame[t].req)
          /\ frame[t].verdict \in Statuses
      BY <1>4 DEF Save, HandlerInv, SettleSteps, Statuses
    <2> QED BY <1>4, <2>1, SaveFacts DEF Save, Filed
  <1>5. ASSUME ~RequestSave(t), ~RejectSave(t), ~Save(t)
        PROVE  UNCHANGED rows
    BY <1>5, QuietSteps DEF Step, Quiet, InvokeRoute, RequestGate,
       RequestAudit, ApproveGate, RejectGate, RejectAudit, Call, Audit, stored
  <1> QED BY <1>1, <1>2, <1>3, <1>4, <1>5

\* Routing a write to the gate gives its handler a fresh id.
LEMMA RouteFrame ==
  ASSUME TypeOK, NEW t \in Threads, NEW r \in Requests \ minted,
         frame' = [frame EXCEPT ![t].pc = "req_gate", ![t].req = r]
  PROVE  /\ frame'[t].req = r
         /\ frame'[t].user = frame[t].user /\ frame'[t].tool = frame[t].tool
  <1>1. r \in Requests  OBVIOUS
  <1>2. "req_gate" \in Steps  BY StepNames
  <1> QED BY <1>1, <1>2, MintFrame

\* The steps after which a handler still holds an id that is not filed.
LEMMA FilingFrame ==
  ASSUME TypeOK, Inv, NEW t \in Threads, Step(t), Filing(t)'
  PROVE  \/ /\ InvokeRoute(t)
            /\ frame'[t].req \in Requests \ minted
            /\ frame'[t].req \in minted'
            /\ frame'[t].user = frame[t].user
            /\ frame'[t].tool = frame[t].tool
            /\ frame[t].pc = "inv_policy"
            /\ UNCHANGED rows
         \/ /\ RequestGate(t) /\ SameLocals(t)
            /\ frame[t].pc = "req_gate"
            /\ UNCHANGED <<rows, minted>>
  <1>1. CASE InvokeRoute(t)
    <2>1. ASSUME NEW r \in Requests \ minted, minted' = minted \cup {r},
                 frame' = [frame EXCEPT ![t].pc = "req_gate", ![t].req = r]
          PROVE  /\ frame'[t].req \in Requests \ minted
                 /\ frame'[t].req \in minted'
                 /\ frame'[t].user = frame[t].user
                 /\ frame'[t].tool = frame[t].tool
      <3>1. /\ frame'[t].req = r
            /\ frame'[t].user = frame[t].user
            /\ frame'[t].tool = frame[t].tool
        BY <2>1, RouteFrame
      <3>2. r \in minted'  BY <2>1
      <3> QED BY <3>1, <3>2
    <2>2. CASE Goto(t, "dir_halt") \/ Goto(t, "dir_call") \/ Return(t)
      BY <2>2, GotoFrame, ReturnFrame, StepNames, IdleInv DEF Filing
    <2> QED BY <1>1, <2>1, <2>2 DEF InvokeRoute
  <1> USE FrameFields, StepNames, GotoFrame, ReturnFrame
  <1>2. CASE RequestGate(t)  BY <1>2 DEF RequestGate
  <1>3. CASE \/ InvokeTool(t) \/ DirectHaltCheck(t) \/ DirectCall(t)
             \/ DirectAudit(t)
    BY <1>3, IdleInv DEF InvokeTool, DirectHaltCheck, DirectCall, DirectAudit,
       Filing
  <1>4. CASE RequestSave(t) \/ RequestAudit(t)
    BY <1>4, IdleInv DEF RequestSave, RequestAudit, Filing
  <1>5. CASE \/ ApproveGate(t) \/ RejectGate(t) \/ RejectSave(t)
             \/ RejectAudit(t)
    BY <1>5, IdleInv DEF ApproveGate, RejectGate, RejectSave, RejectAudit, Filing
  <1>6. CASE NextRequest(t)  BY <1>6, IdleInv, PickFrame DEF NextRequest, Filing
  <1>7. CASE GateRead(t) \/ Save(t) \/ Audit(t)
    BY <1>7 DEF GateRead, Save, Audit, Filing
  <1>8. CASE ToolRead(t)  BY <1>8, ToolReadFrame DEF Filing
  <1>9. CASE HaltCheck(t)  BY <1>9, VerdictFrame DEF HaltCheck, Filing
  <1>10. CASE Call(t)  BY <1>10, CallFrame DEF Filing
  <1> QED
    BY <1>1, <1>2, <1>3, <1>4, <1>5, <1>6, <1>7, <1>8, <1>9, <1>10 DEF Step

\* A desk listing goes on to its next request or ends.
LEMMA NextFrame ==
  ASSUME TypeOK, NEW t \in Threads, NextRequest(t)
  PROVE  frame'[t] = IdleFrame \/ frame'[t].pc = "gate_read"
  <1>1. ASSUME NEW r \in frame[t].todo,
               frame' = [frame EXCEPT ![t].pc = "gate_read", ![t].req = r,
                                      ![t].todo = frame[t].todo \ {r},
                                      ![t].verdict = "pending"]
        PROVE  frame'[t].pc = "gate_read"
    BY <1>1, PickFrame, StepNames
  <1> QED BY <1>1, ReturnFrame DEF NextRequest

\* The steps after which a handler is still invoking, or has filed its row.
LEMMA RequestingFrame ==
  ASSUME TypeOK, Inv, NEW t \in Threads, Step(t),
         frame'[t].pc \in InvokeSteps \cup {"req_audit"}
  PROVE  /\ SameLocals(t)
         /\ frame[t].pc \in InvokeSteps \cup RequestSteps
         /\ frame'[t].pc = "req_audit" => frame[t].pc \in RequestSteps
  <1> USE FrameFields, StepNames, GotoFrame, ReturnFrame
  <1> USE DEF InvokeSteps, RequestSteps, IdleFrame
  <1>1. CASE InvokeRoute(t)
    <2>1. ASSUME NEW r \in Requests \ minted,
                 frame' = [frame EXCEPT ![t].pc = "req_gate", ![t].req = r]
          PROVE  FALSE
      <3>1. frame'[t].pc = "req_gate"  BY <2>1, MintFrame
      <3> QED BY <3>1
    <2>2. CASE Goto(t, "dir_halt") \/ Goto(t, "dir_call") \/ Return(t)
      BY <1>1, <2>2 DEF InvokeRoute
    <2> QED BY <1>1, <2>1, <2>2 DEF InvokeRoute
  <1>2. CASE InvokeTool(t)  BY <1>2 DEF InvokeTool
  <1>3. CASE DirectHaltCheck(t)  BY <1>3 DEF DirectHaltCheck
  <1>4. CASE DirectCall(t)  BY <1>4 DEF DirectCall
  <1>5. CASE \/ DirectAudit(t) \/ RequestGate(t) \/ RequestSave(t)
             \/ RequestAudit(t)
    BY <1>5 DEF DirectAudit, RequestGate, RequestSave, RequestAudit
  <1>6. CASE \/ ApproveGate(t) \/ RejectGate(t) \/ RejectSave(t)
             \/ RejectAudit(t)
    BY <1>6 DEF ApproveGate, RejectGate, RejectSave, RejectAudit
  <1>7. CASE NextRequest(t)  BY <1>7, NextFrame
  <1>8. CASE GateRead(t) \/ Save(t) \/ Audit(t)
    BY <1>8 DEF GateRead, Save, Audit
  <1>9. CASE ToolRead(t)  BY <1>9, ToolReadFrame
  <1>10. CASE HaltCheck(t)  BY <1>10, VerdictFrame DEF HaltCheck
  <1>11. CASE Call(t)  BY <1>11, CallFrame
  <1> QED
    BY <1>1, <1>2, <1>3, <1>4, <1>5, <1>6, <1>7, <1>8, <1>9, <1>10, <1>11
       DEF Step

\* A minted id stays unfiled until its own handler files it.
LEMMA FilingStep ==
  ASSUME TypeOK, Inv, NEW t \in Threads, Step(t), NEW s \in Threads
  PROVE  FilingInv(s)'
  <1>1. OnlyFrame(t) /\ Grows  BY StepOnlyFrame, StepGrows
  <1>2. CASE s # t
    <2>1. frame'[s] = frame[s] /\ FilingInv(s)  BY <1>1, <1>2 DEF OnlyFrame, Inv
    <2>2. ASSUME Filing(s)
          PROVE  frame[s].req \in minted' /\ ~Filed(frame[s].req)'
      <3>1. /\ frame[s].req \in Requests /\ frame[s].req \in minted
            /\ ~Filed(frame[s].req)
        BY <2>1, <2>2 DEF FilingInv, Filing, RequestSteps
      <3>2. CASE rows'[frame[s].req].status # "absent"
        <4>1. frame[t].pc = "req_save" /\ frame[s].req = frame[t].req
          BY <3>1, <3>2, NewlyFiled
        <4> QED BY <1>2, <2>2, <4>1 DEF Inv, UniqueIds, Filing
      <3>3. CASE rows'[frame[s].req].status = "absent"
        BY <1>1, <2>1, <3>1, <3>3 DEF Grows, Filed
      <3> QED BY <3>2, <3>3
    <2> QED BY <2>1, <2>2 DEF FilingInv, Filing, Filed
  <1>3. ASSUME Filing(t)'  PROVE FilingInv(t)'
    <2>1. CASE /\ InvokeRoute(t)
               /\ frame'[t].req \in Requests \ minted
               /\ frame'[t].req \in minted'
               /\ frame'[t].user = frame[t].user
               /\ frame'[t].tool = frame[t].tool
               /\ frame[t].pc = "inv_policy"
               /\ UNCHANGED rows
      <3>1. frame[t].user \in Users /\ frame[t].tool \in Tools
        BY <2>1 DEF Inv, FilingInv, InvokeSteps
      <3>2. ~Filed(frame'[t].req)  BY <2>1 DEF Inv, RowInv
      <3> QED BY <2>1, <3>1, <3>2 DEF FilingInv, Filed
    <2>2. CASE /\ RequestGate(t) /\ SameLocals(t)
               /\ frame[t].pc = "req_gate"
               /\ UNCHANGED <<rows, minted>>
      <3>1. /\ frame[t].user \in Users /\ frame[t].tool \in Tools
            /\ frame[t].req \in Requests /\ frame[t].req \in minted
            /\ ~Filed(frame[t].req)
        BY <2>2 DEF Inv, FilingInv, Filing, RequestSteps
      <3> QED BY <2>2, <3>1 DEF FilingInv, SameLocals, Filed
    <2> QED BY <1>3, <2>1, <2>2, FilingFrame
  <1>4. ASSUME ~Filing(t)'  PROVE FilingInv(t)'
    <2>1. CASE frame'[t].pc \in InvokeSteps \cup {"req_audit"}
      BY <1>4, <2>1, RequestingFrame
      DEF Inv, FilingInv, SameLocals, RequestSteps, InvokeSteps
    <2>2. CASE frame'[t].pc \notin InvokeSteps \cup {"req_audit"}
      BY <1>4, <2>2 DEF FilingInv, Filing, RequestSteps
    <2> QED BY <2>1, <2>2
  <1> QED BY <1>2, <1>3, <1>4

\* No two handlers file the same id.
LEMMA UniqueStep ==
  ASSUME TypeOK, Inv, NEW t \in Threads, Step(t)
  PROVE  UniqueIds'
  <1>1. OnlyFrame(t)  BY StepOnlyFrame
  <1>2. ASSUME NEW s \in Threads \ {t}, Filing(s)', Filing(t)'
        PROVE  frame'[s].req # frame'[t].req
    <2>1. frame'[s] = frame[s] /\ Filing(s)  BY <1>1, <1>2 DEF OnlyFrame, Filing
    <2>2. frame[s].req \in minted  BY <2>1 DEF Inv, FilingInv
    <2>3. CASE frame'[t].req \in Requests \ minted  BY <2>1, <2>2, <2>3
    <2>4. CASE SameLocals(t) /\ frame[t].pc = "req_gate"
      BY <2>1, <2>4 DEF SameLocals, Inv, UniqueIds, Filing
    <2> QED BY <1>2, <2>3, <2>4, FilingFrame
  <1>3. ASSUME NEW s \in Threads \ {t}, NEW q \in Threads \ {t},
               Filing(s)', Filing(q)', s # q
        PROVE  frame'[s].req # frame'[q].req
    BY <1>1, <1>3 DEF OnlyFrame, Inv, UniqueIds, Filing
  <1> QED BY <1>2, <1>3 DEF UniqueIds

\* A step leaves the switch alone; only an external call ends a drain.
LEMMA SwitchStep ==
  ASSUME NEW t \in Threads, Step(t)
  PROVE  UNCHANGED halted /\ draining \ {t} \subseteq draining'
  BY DEF Step, InvokeTool, InvokeRoute, DirectHaltCheck, DirectCall,
     DirectAudit, RequestGate, RequestSave, RequestAudit, ApproveGate,
     RejectGate, RejectSave, RejectAudit, NextRequest, GateRead, ToolRead,
     HaltCheck, Call, Save, Audit

\* While the switch is on no handler passes its halt check anew.
LEMMA PastFrame ==
  ASSUME TypeOK, Inv, NEW t \in Threads, Step(t), halted, PastHaltCheck(t)'
  PROVE  PastHaltCheck(t) /\ UNCHANGED draining
  <1> USE FrameFields, StepNames, GotoFrame, ReturnFrame
  <1> USE DEF PastHaltCheck, IdleFrame
  <1>1. CASE InvokeRoute(t)  BY <1>1 DEF InvokeRoute
  <1>2. CASE InvokeTool(t)  BY <1>2 DEF InvokeTool
  <1>3. CASE DirectHaltCheck(t)  BY <1>3 DEF DirectHaltCheck
  <1>4. CASE DirectCall(t)  BY <1>4 DEF DirectCall
  <1>5. ASSUME NEW p \in Steps \ {"call", "dir_call", "inv_tool", "inv_policy"},
               Goto(t, p) \/ Return(t)
        PROVE  ~PastHaltCheck(t)'
    BY <1>5
  <1>6. \/ DirectAudit(t) \/ RequestGate(t) \/ RequestSave(t)
        \/ RequestAudit(t) \/ ApproveGate(t) \/ RejectGate(t)
        \/ RejectSave(t) \/ RejectAudit(t)
        => \E p \in {"idle", "req_save", "req_audit", "gate_read", "rej_save",
                     "rej_audit"} : Goto(t, p) \/ Return(t)
    BY DEF DirectAudit, RequestGate, RequestSave, RequestAudit, ApproveGate,
           RejectGate, RejectSave, RejectAudit
  <1>7. CASE NextRequest(t)  BY <1>7, NextFrame
  <1>8. CASE GateRead(t) \/ Save(t) \/ Audit(t)
    BY <1>8 DEF GateRead, Save, Audit
  <1>9. CASE ToolRead(t)  BY <1>9, ToolReadFrame
  <1>10. CASE HaltCheck(t)  BY <1>10, VerdictFrame DEF HaltCheck
  <1>11. CASE Call(t)  BY <1>11, CallFrame
  <1>12. ~(\/ DirectAudit(t) \/ RequestGate(t) \/ RequestSave(t)
           \/ RequestAudit(t) \/ ApproveGate(t) \/ RejectGate(t)
           \/ RejectSave(t) \/ RejectAudit(t))
    BY <1>5, <1>6
  <1> QED
    BY <1>1, <1>2, <1>3, <1>4, <1>7, <1>8, <1>9, <1>10, <1>11, <1>12 DEF Step

\* No step of any handler lets one past the switch unnoticed.
LEMMA HaltStep ==
  ASSUME TypeOK, Inv, NEW t \in Threads, Step(t), NEW s \in Threads
  PROVE  HaltInv(s)'
  <1>1. OnlyFrame(t) /\ UNCHANGED halted /\ draining \ {t} \subseteq draining'
    BY StepOnlyFrame, SwitchStep
  <1>2. CASE s # t
    BY <1>1, <1>2 DEF Inv, HaltInv, PastHaltCheck, OnlyFrame
  <1>3. HaltInv(t)'
    BY <1>1, PastFrame DEF Inv, HaltInv
  <1> QED BY <1>2, <1>3

\* Every step of a handler preserves the invariant.
LEMMA StepInv ==
  ASSUME TypeOK, Inv, NEW t \in Threads, Step(t)
  PROVE  Inv'
  BY TablesStep, FilingStep, HandlerStep, HaltStep, UniqueStep DEF Inv

-----------------------------------------------------------------------------
(* The starts of handlers and the environment *)

\* The tables as the invariant sees them.
SameTables == UNCHANGED <<rows, gate, minted, receipts, effects, approvals>>

\* A thread whose frame stays keeps what it knows while the tables stay.
LEMMA SameThread ==
  ASSUME SameTables, NEW s \in Threads, frame'[s] = frame[s],
         FilingInv(s) /\ HandlerInv(s)
  PROVE  FilingInv(s)' /\ HandlerInv(s)'
  BY DEF SameTables, FilingInv, HandlerInv, Filing, Filed

\* What the tables say of a request depends on the tables only.
LEMMA SameTablesInv ==
  ASSUME Inv, SameTables, NEW r \in Requests
  PROVE  RowInv(r)' /\ GateInv(r)'
  BY DEF Inv, SameTables, RowInv, GateInv, Filed

\* What the start of a handler changes, and what its thread knows after it.
Started(t) ==
    /\ SameTables /\ UNCHANGED <<halted, draining>>
    /\ OnlyFrame(t) /\ ~Filing(t)'
    /\ FilingInv(t)' /\ HandlerInv(t)' /\ HaltInv(t)'

\* What starts does not file, and what it holds is filed.
LEMMA StartInv ==
  ASSUME TypeOK, Inv, NEW t \in Threads, Start(t)
  PROVE  Inv'
  <1>1. Started(t)
    <2> USE DEF Started
    <2>1. ASSUME NEW u \in Users, NEW c \in Tools, NEW d \in BOOLEAN,
                 Invoke(t, u, c, d)
          PROVE  Started(t)
      <3> DEFINE f == [IdleFrame EXCEPT !.pc = "inv_tool", !.user = u,
                                        !.tool = c, !.direct = d]
      <3>1. f \in Frame  BY StepNames DEF IdleFrame, Frame
      <3>2. /\ f.pc = "inv_tool" /\ f.user = u /\ f.tool = c /\ f.todo = {}
        BY DEF IdleFrame
      <3>3. OnlyFrame(t) /\ frame'[t] = f
        BY <2>1, <3>1, StartFrame DEF Invoke
      <3>4. SameTables /\ UNCHANGED <<halted, draining>> /\ ~halted
        BY <2>1 DEF Invoke, SameTables, stored, observed
      <3> HIDE DEF f
      <3> QED
        BY <3>2, <3>3, <3>4 DEF Filing, FilingInv, HandlerInv, HaltInv,
           RequestSteps, DecideSteps, SettleSteps
    <2>2. ASSUME NEW u \in Users, NEW r \in Requests, NEW a \in BOOLEAN,
                 Decide(t, u, r, a)
          PROVE  Started(t)
      <3> DEFINE f == [IdleFrame EXCEPT
                         !.pc = IF a THEN "dec_approve" ELSE "dec_reject",
                         !.user = u, !.req = r, !.approver = u]
      <3>1. f \in Frame  BY StepNames DEF IdleFrame, Frame
      <3>2. /\ f.pc = IF a THEN "dec_approve" ELSE "dec_reject"
            /\ f.user = u /\ f.req = r /\ f.approver = u /\ f.todo = {}
        BY DEF IdleFrame
      <3>3. OnlyFrame(t) /\ frame'[t] = f
        BY <2>2, <3>1, StartFrame DEF Decide
      <3>4. SameTables /\ UNCHANGED <<halted, draining>>
        BY <2>2 DEF Decide, SameTables, stored, observed
      <3>5. Filed(r) /\ (a => u # rows[r].maker)
        BY <2>2 DEF Decide, Pending, Filed
      <3> HIDE DEF f
      <3>6. ~Filing(t)' /\ FilingInv(t)' /\ HaltInv(t)'
        BY <3>2, <3>3 DEF Filing, FilingInv, HaltInv, PastHaltCheck,
           InvokeSteps, RequestSteps
      <3>7. HandlerInv(t)'
        BY <3>2, <3>3, <3>4, <3>5 DEF HandlerInv, SameTables, Filed,
           SettleSteps, DecideSteps
      <3> QED BY <3>3, <3>4, <3>6, <3>7
    <2>3. ASSUME NEW u \in Users, ListDesk(t, u)
          PROVE  Started(t)
      <3> DEFINE desk == {r \in Requests : Pending(r) /\ rows[r].maker = u}
      <3> DEFINE f == [IdleFrame EXCEPT !.pc = "next", !.user = u,
                                        !.todo = desk]
      <3>1. f \in Frame  BY StepNames DEF IdleFrame, Frame
      <3>2. f.pc = "next" /\ f.approver = NoUser /\ f.todo = desk
        BY DEF IdleFrame
      <3>3. OnlyFrame(t) /\ frame'[t] = f
        BY <2>3, <3>1, StartFrame DEF ListDesk
      <3>4. SameTables /\ UNCHANGED <<halted, draining>>
        BY <2>3 DEF ListDesk, SameTables, stored, observed
      <3>5. \A r \in desk : Filed(r)  BY DEF Pending, Filed
      <3> HIDE DEF f, desk
      <3>6. ~Filing(t)' /\ FilingInv(t)' /\ HaltInv(t)'
        BY <3>2, <3>3 DEF Filing, FilingInv, HaltInv, PastHaltCheck,
           InvokeSteps, RequestSteps
      <3>7. HandlerInv(t)'
        BY <3>2, <3>3, <3>4, <3>5 DEF HandlerInv, SameTables, Filed,
           SettleSteps, DecideSteps
      <3> QED BY <3>3, <3>4, <3>6, <3>7
    <2> QED BY <2>1, <2>2, <2>3 DEF Start
  <1>2. \A r \in Requests : RowInv(r)' /\ GateInv(r)'
    BY <1>1, SameTablesInv DEF Started
  <1>3. ASSUME NEW s \in Threads \ {t}
        PROVE  FilingInv(s)' /\ HandlerInv(s)' /\ HaltInv(s)'
    <2>1. frame'[s] = frame[s]  BY <1>1 DEF Started, OnlyFrame
    <2>2. FilingInv(s)' /\ HandlerInv(s)'
      BY <1>1, <2>1, SameThread DEF Started, Inv
    <2>3. HaltInv(s)'
      BY <1>1, <2>1 DEF Started, Inv, HaltInv, PastHaltCheck
    <2> QED BY <2>2, <2>3
  <1>4. UniqueIds'
    BY <1>1 DEF Started, Inv, UniqueIds, OnlyFrame, Filing
  <1> QED BY <1>1, <1>2, <1>3, <1>4 DEF Started, Inv

\* Crashes, failed calls, the desk and the switch preserve the invariant.
LEMMA EnvironmentInv ==
  ASSUME TypeOK, Inv, Environment
  PROVE  Inv'
  <1>1. SameTables
    BY DEF Environment, Connect, Disconnect, SetOrgPolicy, Activate, Deactivate,
           Abort, Crash, SameTables, stored, observed
  <1>2. ASSUME NEW s \in Threads
        PROVE  frame'[s] = frame[s] \/ frame'[s] = IdleFrame
    BY ReturnFrame DEF Environment, Connect, Disconnect, SetOrgPolicy, Activate,
       Deactivate, Abort, Crash, OnlyFrame
  <1>3. ASSUME NEW s \in Threads, frame'[s] = frame[s]
        PROVE  HaltInv(s)'
    <2> USE <1>3 DEF Inv, HaltInv, PastHaltCheck
    <2>1. ASSUME NEW c \in Tools, Connect(c) \/ Disconnect(c)
          PROVE  HaltInv(s)'
      BY <2>1 DEF Connect, Disconnect
    <2>2. CASE SetOrgPolicy  BY <2>2 DEF SetOrgPolicy
    <2>3. CASE Activate  BY <2>3 DEF Activate
    <2>4. CASE Deactivate \/ Crash  BY <2>4 DEF Deactivate, Crash
    <2>5. ASSUME NEW q \in Threads, Abort(q)  PROVE HaltInv(s)'
      <3>1. CASE s = q
        BY <2>5, <3>1, ReturnFrame DEF Abort, IdleFrame
      <3>2. CASE s # q
        BY <2>5, <3>2 DEF Abort
      <3> QED BY <3>1, <3>2
    <2> QED BY <2>1, <2>2, <2>3, <2>4, <2>5 DEF Environment
  <1>4. ASSUME NEW s \in Threads
        PROVE  FilingInv(s)' /\ HandlerInv(s)' /\ HaltInv(s)'
    BY <1>1, <1>2, <1>3, <1>4, SameThread, IdleInv DEF Inv
  <1>5. UniqueIds'
    BY <1>2, IdleInv DEF Inv, UniqueIds, Filing
  <1>6. \A r \in Requests : RowInv(r)' /\ GateInv(r)'
    BY <1>1, SameTablesInv
  <1> QED BY <1>4, <1>5, <1>6 DEF Inv

\* The invariant holds of the empty tables.
LEMMA InitInv == Init => Inv
  BY DEF Init, Inv, RowInv, GateInv, FilingInv, HandlerInv, HaltInv, UniqueIds,
     Filing, Filed, AbsentRow, IdleFrame, PastHaltCheck, InvokeSteps,
     RequestSteps, DecideSteps, SettleSteps, Kinds

\* Nothing changes in a stuttering step.
LEMMA StutterInv == TypeOK /\ Inv /\ UNCHANGED vars => TypeOK' /\ Inv'
  BY DEF vars, TypeOK, Inv, RowInv, GateInv, FilingInv, HandlerInv, HaltInv,
     UniqueIds, Filing, Filed, PastHaltCheck

-----------------------------------------------------------------------------
(* Theorems *)

\* Types and the inductive invariant hold in every reachable state.
THEOREM Invariance == Spec => [](TypeOK /\ Inv)
  <1>1. Init => TypeOK /\ Inv  BY InitTypeOK, InitInv
  <1>2. TypeOK /\ Inv /\ [Next]_vars => TypeOK' /\ Inv'
    BY StepTypeOK, StartTypeOK, EnvironmentTypeOK, StepInv, StartInv,
       EnvironmentInv, StutterInv DEF Next
  <1> QED BY <1>1, <1>2, PTL DEF Spec

\* Every variable keeps its type, whatever handlers overlap or fail.
THEOREM TypeCorrect == Spec => []TypeOK
  BY Invariance, PTL

\* No governed write reaches the external system without an approval recorded
\* by a governor other than its maker.
THEOREM GovernedEffect == Spec => []ApprovedBeforeEffect
  <1>1. TypeOK /\ Inv => ApprovedBeforeEffect
    BY DEF TypeOK, Inv, GateInv, ApprovedBeforeEffect
  <1> QED BY <1>1, Invariance, PTL

\* A settled row was approved, and never names its maker as the approver.
THEOREM MakerIsNotChecker == Spec => []SettledByAnotherGovernor
  <1>1. TypeOK /\ Inv => SettledByAnotherGovernor
    BY DEF Inv, RowInv, SettledByAnotherGovernor
  <1> QED BY <1>1, Invariance, PTL

\* EXECUTED, on the row or in the trail, is only said of a write that happened.
THEOREM ExecutedHappened == Spec => []ExecutedIsTrue
  <1>1. TypeOK /\ Inv => ExecutedIsTrue
    BY DEF Inv, RowInv, GateInv, ExecutedIsTrue
  <1> QED BY <1>1, Invariance, PTL

\* After the switch is turned on only the handlers that had passed their last
\* check make an external call.
THEOREM SwitchDrains == Spec => []HaltDrains
  <1>1. TypeOK /\ Inv => HaltDrains
    BY DEF Inv, HaltInv, HaltDrains, PastHaltCheck
  <1> QED BY <1>1, Invariance, PTL

\* Every handler that saves a filed row saves it settled.
LEMMA StepNeverReopens ==
  ASSUME TypeOK, Inv, NEW t \in Threads, Step(t), NEW r \in Requests,
         rows[r].status \in {"executed", "failed", "rejected"}
  PROVE  rows'[r].status \in {"executed", "failed", "rejected"}
  <1> USE FrameFields DEF Inv
  <1>1. CASE UNCHANGED rows  BY <1>1
  <1>2. CASE RequestSave(t)
    BY <1>2 DEF RequestSave, FilingInv, Filing, RequestSteps, Filed, TypeOK
  <1>3. CASE RejectSave(t)
    <2>1. frame[t].req \in Requests
      BY <1>3 DEF RejectSave, HandlerInv, DecideSteps
    <2> QED BY <1>3, <2>1, SaveFacts DEF RejectSave, Statuses
  <1>4. CASE Save(t)
    <2>1. frame[t].req \in Requests /\ frame[t].verdict \in {"executed", "failed"}
      BY <1>4 DEF Save, HandlerInv, SettleSteps
    <2> QED BY <1>4, <2>1, SaveFacts DEF Save, Statuses
  <1>5. ASSUME ~RequestSave(t), ~RejectSave(t), ~Save(t)
        PROVE  UNCHANGED rows
    BY <1>5, QuietSteps DEF Step, Quiet, InvokeRoute, RequestGate,
       RequestAudit, ApproveGate, RejectGate, RejectAudit, Call, Audit, stored
  <1> QED BY <1>1, <1>2, <1>3, <1>4, <1>5

\* The start of a handler only reads.
LEMMA StartTables ==
  ASSUME NEW t \in Threads, Start(t)
  PROVE  SameTables
  BY DEF Start, Invoke, Decide, ListDesk, SameTables, stored, observed

\* The environment changes no request, gate record, receipt or effect.
LEMMA EnvironmentTables == Environment => SameTables
  BY DEF Environment, Connect, Disconnect, SetOrgPolicy, Activate, Deactivate,
         Abort, Crash, SameTables, stored, observed

\* A settled request is never put back to PENDING by a stale snapshot.
THEOREM SettledForGood == Spec => NeverReopened
  <1>1. TypeOK /\ Inv /\ [Next]_vars =>
          [\A r \in Requests :
             rows[r].status \in {"executed", "failed", "rejected"} =>
                rows'[r].status \in {"executed", "failed", "rejected"}]_rows
    BY StepNeverReopens, StartTables, EnvironmentTables
       DEF Next, vars, SameTables
  <1> QED BY <1>1, Invariance, PTL DEF Spec, NeverReopened

-----------------------------------------------------------------------------
(* Refinement *)

\* A step of a handler is a step of the abstract gate, or changes nothing there.
LEMMA StepImplements ==
  ASSUME TypeOK, Inv, NEW t \in Threads, Step(t)
  PROVE  [Gate!Next]_(Gate!vars)
  <1> USE FrameFields DEF Inv, Gate!vars
  <1>1. CASE UNCHANGED <<rows, approvals, effects>>
    BY <1>1 DEF Makers
  <1>2. CASE RequestSave(t)
    <2>1. /\ frame[t].req \in Requests /\ frame[t].user \in Users
          /\ Makers[frame[t].req] = NoUser
      BY <1>2 DEF RequestSave, FilingInv, Filing, RequestSteps, RowInv, Makers
    <2>2. Makers' = [Makers EXCEPT ![frame[t].req] = frame[t].user]
      BY <1>2, <2>1 DEF RequestSave, Makers, TypeOK
    <2>3. Gate!File(frame[t].req, frame[t].user)
      BY <1>2, <2>1, <2>2 DEF RequestSave, observed, Gate!File
    <2> QED BY <2>1, <2>3 DEF Gate!Next
  <1>3. CASE ApproveGate(t)
    <2>1. /\ frame[t].req \in Requests /\ frame[t].user \in Users
          /\ frame[t].user # rows[frame[t].req].maker
          /\ rows[frame[t].req].maker \in Users
      BY <1>3 DEF ApproveGate, HandlerInv, DecideSteps, RowInv
    <2>2. Gate!Authorise(frame[t].req, frame[t].user)
      BY <1>3, <2>1 DEF ApproveGate, Gate!Authorise, Makers
    <2> QED BY <2>1, <2>2 DEF Gate!Next
  <1>4. CASE RejectSave(t) \/ Save(t)
    <2>1. frame[t].req \in Requests /\ frame[t].verdict \in Statuses
      BY <1>4 DEF RejectSave, Save, HandlerInv, DecideSteps, SettleSteps, Statuses
    <2>2. \A r \in Requests : rows'[r].maker = rows[r].maker
      BY <1>4, <2>1, SaveFacts DEF RejectSave, Save, Statuses
    <2>3. UNCHANGED Makers  BY <2>2 DEF Makers
    <2> QED BY <1>4, <2>3 DEF RejectSave, Save, observed
  <1>5. CASE Call(t)
    <2>1. frame[t].req \in Requests /\ approvals[frame[t].req] # {}
      BY <1>5 DEF Call, HandlerInv, SettleSteps
    <2>2. UNCHANGED <<Makers, approvals>>
      BY <1>5 DEF Call, stored, Makers
    <2>3. \/ effects' = [effects EXCEPT ![frame[t].req] =
                                           effects[frame[t].req] + 1]
          \/ effects' = effects
      BY <1>5 DEF Call, TypeOK
    <2>4. CASE effects' = effects  BY <2>2, <2>4
    <2>5. CASE effects' # effects
      <3>1. Gate!TakeEffect(frame[t].req)
        BY <2>1, <2>2, <2>3, <2>5 DEF Gate!TakeEffect
      <3> QED BY <2>1, <3>1 DEF Gate!Next
    <2> QED BY <2>4, <2>5
  <1>6. ASSUME ~RequestSave(t), ~ApproveGate(t), ~RejectSave(t), ~Save(t),
               ~Call(t)
        PROVE  UNCHANGED <<rows, approvals, effects>>
    BY <1>6, QuietSteps DEF Step, Quiet, InvokeRoute, RequestGate,
       RequestAudit, RejectGate, RejectAudit, Audit, stored, observed
  <1> QED BY <1>1, <1>2, <1>3, <1>4, <1>5, <1>6

\* The handlers, with all their interleavings, crashes and lost answers,
\* implement the gate that governance.py promises.
THEOREM Refinement == Spec => ImplementsGate
  <1>1. Init => Gate!Init
    BY DEF Init, Gate!Init, Makers, AbsentRow
  <1>2. TypeOK /\ Inv /\ [Next]_vars => [Gate!Next]_(Gate!vars)
    <2>1. SameTables => UNCHANGED Gate!vars
      BY DEF SameTables, Gate!vars, Makers
    <2> QED
      BY <2>1, StepImplements, StartTables, EnvironmentTables
         DEF Next, vars, SameTables
  <1> QED
    BY <1>1, <1>2, Invariance, PTL DEF Spec, ImplementsGate, Gate!Spec

\* Approval before effect, somebody else's decision, and rows that tell the
\* truth, together: what the run checks on two handlers holds for any number.
THEOREM Governed == Spec => []EffectsAreGoverned
  BY GovernedEffect, MakerIsNotChecker, ExecutedHappened, PTL DEF EffectsAreGoverned

-----------------------------------------------------------------------------
(* The trail *)

\* Thread t saw the write of r succeed and has not written its receipt yet; the
\* threads of which that is true are what keeps the receipts behind the effects.
Owes(t, r) == /\ frame[t].pc \in {"save", "audit"}
              /\ frame[t].verdict = "executed" /\ frame[t].req = r
Owing(r) == {t \in Threads : Owes(t, r)}

\* Every receipt of an execution, written or still owed, has an effect of its own.
TrailInv ==
    /\ \A r \in Requests :
          /\ IsFiniteSet(Owing(r))
          /\ receipts[r]["executed"] + Cardinality(Owing(r)) <= effects[r]
    /\ SettledIsReceipted

\* Saving a row takes its handler to the receipt; the other locals stay.
LEMMA SaveMoves ==
  ASSUME TypeOK, NEW t \in Threads, Save(t)
  PROVE  frame'[t].pc = "audit" /\ frame'[t].verdict = frame[t].verdict /\ SameLocals(t)
  BY GotoFrame, StepNames DEF Save

\* Only a call that was answered makes a handler owe a receipt.
LEMMA OwesStep ==
  ASSUME TypeOK, Inv, NEW t \in Threads, Step(t), ~Call(t), NEW r \in Requests, Owes(t, r)'
  PROVE  Owes(t, r) /\ Save(t)
  <1> USE FrameFields, StepNames, GotoFrame, ReturnFrame DEF Owes
  <1> USE DEF IdleFrame
  <1>1. CASE Save(t)  BY <1>1, SaveMoves DEF Save, SameLocals
  <1>2. CASE InvokeRoute(t)
    <2>1. ASSUME NEW q \in Requests \ minted,
                 frame' = [frame EXCEPT ![t].pc = "req_gate", ![t].req = q]
          PROVE  frame'[t].pc = "req_gate"
      BY <2>1, MintFrame
    <2> QED BY <1>2, <2>1 DEF InvokeRoute
  <1>3. CASE NextRequest(t)  BY <1>3, NextFrame
  <1>4. CASE ToolRead(t)  BY <1>4, ToolReadFrame
  <1>5. CASE HaltCheck(t)  BY <1>5, VerdictFrame DEF HaltCheck
  <1>6. CASE InvokeTool(t)  BY <1>6 DEF InvokeTool
  <1>7. CASE DirectHaltCheck(t) \/ DirectCall(t) \/ DirectAudit(t)
    BY <1>7 DEF DirectHaltCheck, DirectCall, DirectAudit
  <1>8. CASE RequestGate(t) \/ RequestSave(t) \/ RequestAudit(t)
    BY <1>8 DEF RequestGate, RequestSave, RequestAudit
  <1>9. CASE ApproveGate(t) \/ RejectGate(t) \/ RejectSave(t) \/ RejectAudit(t)
    BY <1>9 DEF ApproveGate, RejectGate, RejectSave, RejectAudit
  <1>10. CASE GateRead(t) \/ Audit(t)  BY <1>10 DEF GateRead, Audit
  <1> QED
    BY <1>1, <1>2, <1>3, <1>4, <1>5, <1>6, <1>7, <1>8, <1>9, <1>10 DEF Step

\* An answered call owes one receipt more, and has had one effect more.
LEMMA CallOwes ==
  ASSUME TypeOK, Inv, NEW t \in Threads, Call(t), NEW r \in Requests
  PROVE  /\ ~Owes(t, r) /\ UNCHANGED receipts
         /\ effects'[r] >= effects[r]
         /\ Owes(t, r)' => effects'[r] = effects[r] + 1
  <1>1. ~Owes(t, r) /\ UNCHANGED receipts /\ frame[t].req \in Requests
    BY DEF Call, Owes, stored, Inv, HandlerInv, SettleSteps
  <1>2. PICK o \in Outcomes :
          effects' = [effects EXCEPT ![frame[t].req] =
                        IF Effect(o) THEN effects[frame[t].req] + 1
                                     ELSE effects[frame[t].req]]
    BY DEF Call
  <1>3. effects'[r] >= effects[r]
    BY <1>1, <1>2 DEF TypeOK
  <1>4. Owes(t, r)' => effects'[r] = effects[r] + 1
    BY <1>1, CallFrame DEF Owes, SameLocals, TypeOK
  <1> QED BY <1>1, <1>3, <1>4

\* The other steps of a handler reach nothing outside.
LEMMA OtherEffects ==
  ASSUME NEW t \in Threads, Step(t), ~Call(t)
  PROVE  UNCHANGED effects
  BY QuietSteps DEF Step, Quiet, InvokeRoute, RequestGate, RequestSave, RequestAudit,
     ApproveGate, RejectGate, RejectSave, RejectAudit, Save, Audit, observed

\* Receipts are only appended, and one of an execution by a handler that owes it.
LEMMA ReceiptStep ==
  ASSUME TypeOK, Inv, NEW t \in Threads, Step(t), NEW r \in Requests
  PROVE  /\ receipts'[r]["executed"] = IF Audit(t) /\ Owes(t, r)
                                         THEN receipts[r]["executed"] + 1
                                         ELSE receipts[r]["executed"]
         /\ receipts'[r]["failed"] >= receipts[r]["failed"]
         /\ receipts'[r]["rejected"] >= receipts[r]["rejected"]
  <1>t. receipts[r] \in [Kinds -> Nat] /\ {"executed", "failed", "rejected"} \subseteq Kinds
    BY DEF TypeOK, Kinds
  <1>1. ASSUME NEW q \in Requests, NEW k \in Kinds, Append(q, k)
        PROVE  /\ receipts'[r]["failed"] >= receipts[r]["failed"]
               /\ receipts'[r]["rejected"] >= receipts[r]["rejected"]
    <2> DEFINE count == [receipts[q] EXCEPT ![k] = receipts[q][k] + 1]
    <2>1. receipts[q] \in [Kinds -> Nat] /\ receipts' = [receipts EXCEPT ![q] = count]
      BY <1>1 DEF TypeOK, Append
    <2>2. \A kind \in Kinds : count[kind] >= receipts[q][kind]
      BY <2>1
    <2> HIDE DEF count
    <2> QED BY <1>t, <2>1, <2>2 DEF TypeOK
  <1>2. CASE Audit(t)
    <2>1. /\ frame[t].req \in Requests /\ frame[t].verdict \in {"executed", "failed"}
          /\ frame[t].pc = "audit" /\ Append(frame[t].req, frame[t].verdict)
      BY <1>2, FrameFields DEF Audit, Inv, HandlerInv, SettleSteps
    <2> QED BY <1>1, <1>2, <2>1, AppendFacts DEF Kinds, Owes
  <1>3. CASE RejectAudit(t)
    <2>1. ~Audit(t) /\ frame[t].req \in Requests /\ Append(frame[t].req, "rejected")
      BY <1>3 DEF Audit, RejectAudit, Inv, HandlerInv, DecideSteps
    <2> QED BY <1>1, <2>1, AppendFacts DEF Kinds
  <1>4. CASE RequestAudit(t)
    <2>1. ~Audit(t) /\ frame[t].req \in Requests /\ Append(frame[t].req, "requested")
      BY <1>4 DEF Audit, RequestAudit, Inv, FilingInv, RequestSteps
    <2> QED BY <1>1, <2>1, AppendFacts DEF Kinds
  <1>5. CASE ~Audit(t) /\ ~RejectAudit(t) /\ ~RequestAudit(t)
    <2>1. UNCHANGED receipts
      BY <1>5, QuietSteps DEF Step, Quiet, InvokeRoute, RequestGate, RequestSave,
         ApproveGate, RejectGate, RejectSave, Save, Call, stored
    <2> QED BY <1>t, <1>5, <2>1
  <1> QED BY <1>2, <1>3, <1>4, <1>5

\* No receipt without an effect of its own, after every step of a handler.
LEMMA StepTrail ==
  ASSUME TypeOK, Inv, TrailInv, NEW t \in Threads, Step(t), NEW r \in Requests
  PROVE  /\ IsFiniteSet(Owing(r)')
         /\ receipts'[r]["executed"] + Cardinality(Owing(r)') <= effects'[r]
  <1> DEFINE n == Cardinality(Owing(r))
             m == Cardinality(Owing(r)')
  <1>1. /\ IsFiniteSet(Owing(r)) /\ n \in Nat
        /\ receipts[r]["executed"] + n <= effects[r]
    BY FS_CardinalityType DEF TrailInv
  <1>2. receipts[r]["executed"] \in Nat /\ effects[r] \in Nat
    BY DEF TypeOK, Kinds
  <1>3. \A s \in Threads \ {t} : Owes(s, r)' <=> Owes(s, r)
    BY StepOnlyFrame DEF OnlyFrame, Owes
  <1>4. CASE Call(t)
    <2>1. CASE Owes(t, r)'
      <3>1. Owing(r)' = Owing(r) \cup {t} /\ t \notin Owing(r)
        BY <1>3, <1>4, <2>1, CallOwes DEF Owing
      <3>2. IsFiniteSet(Owing(r)') /\ m = n + 1
        BY <1>1, <3>1, FS_AddElement
      <3>3. effects'[r] = effects[r] + 1 /\ receipts' = receipts
        BY <1>4, <2>1, CallOwes
      <3> HIDE DEF n, m
      <3> QED BY <1>1, <1>2, <3>2, <3>3 DEF m
    <2>2. CASE ~Owes(t, r)'
      <3>1. Owing(r)' = Owing(r)
        BY <1>3, <1>4, <2>2, CallOwes DEF Owing
      <3>2. effects'[r] >= effects[r] /\ receipts' = receipts /\ effects'[r] \in Nat
        BY <1>4, CallOwes, StepTypeOK DEF TypeOK
      <3> HIDE DEF n, m
      <3> QED BY <1>1, <1>2, <3>1, <3>2 DEF n
    <2> QED BY <2>1, <2>2
  <1>5. CASE Audit(t) /\ Owes(t, r)
    <2>1. ~Save(t) /\ ~Call(t)
      BY <1>5 DEF Audit, Save, Call
    <2>2. Owing(r)' = Owing(r) \ {t} /\ t \in Owing(r)
      BY <1>3, <1>5, <2>1, OwesStep DEF Owing
    <2>3. IsFiniteSet(Owing(r)') /\ m = n - 1
      BY <1>1, <2>2, FS_RemoveElement
    <2>4. receipts'[r]["executed"] = receipts[r]["executed"] + 1 /\ effects' = effects
      BY <1>5, <2>1, ReceiptStep, OtherEffects
    <2> HIDE DEF n, m
    <2> QED BY <1>1, <1>2, <2>3, <2>4 DEF m
  <1>6. CASE ~Call(t) /\ ~(Audit(t) /\ Owes(t, r))
    <2>1. Owing(r)' \subseteq Owing(r)
      BY <1>3, <1>6, OwesStep DEF Owing
    <2>2. IsFiniteSet(Owing(r)') /\ m <= n /\ m \in Nat
      BY <1>1, <2>1, FS_Subset, FS_CardinalityType
    <2>3. receipts'[r]["executed"] = receipts[r]["executed"] /\ effects' = effects
      BY <1>6, ReceiptStep, OtherEffects
    <2> HIDE DEF n, m
    <2> QED BY <1>1, <1>2, <2>2, <2>3 DEF m
  <1> QED BY <1>4, <1>5, <1>6

\* A settled request has its receipt, or the handler that settled it is about to
\* write it, after every step of a handler.
LEMMA StepReceipted ==
  ASSUME TypeOK, Inv, SettledIsReceipted, NEW t \in Threads, Step(t)
  PROVE  SettledIsReceipted'
  <1> DEFINE Settled(r) == rows[r].status \in {"executed", "failed", "rejected"}
             Sum(r) == receipts[r]["executed"] + receipts[r]["failed"]
                                               + receipts[r]["rejected"]
             Owed(r, s) == frame[s].pc \in {"audit", "rej_audit"} /\ frame[s].req = r
  <1>1. SUFFICES ASSUME NEW r \in Requests, faults' = 0, Settled(r)'
                 PROVE  Sum(r)' > 0 \/ \E s \in Threads : Owed(r, s)'
    BY DEF SettledIsReceipted
  <1>2. faults = 0
    BY <1>1, QuietSteps DEF Step, InvokeTool, DirectHaltCheck, DirectCall, DirectAudit,
       NextRequest, GateRead, ToolRead, HaltCheck, InvokeRoute, RequestGate, RequestSave,
       RequestAudit, ApproveGate, RejectGate, RejectSave, RejectAudit, Save, Call, Audit
  <1>3. /\ receipts[r]["executed"] \in Nat /\ receipts[r]["failed"] \in Nat
        /\ receipts[r]["rejected"] \in Nat
        /\ receipts'[r]["executed"] \in Nat /\ receipts'[r]["failed"] \in Nat
        /\ receipts'[r]["rejected"] \in Nat
    BY StepTypeOK DEF TypeOK, Kinds
  <1>4. /\ receipts'[r]["executed"] >= receipts[r]["executed"]
        /\ receipts'[r]["failed"] >= receipts[r]["failed"]
        /\ receipts'[r]["rejected"] >= receipts[r]["rejected"]
    BY <1>3, ReceiptStep
  <1>5. CASE ~Settled(r)
    <2>1. Save(t) \/ RejectSave(t)
      <3>1. ASSUME RequestSave(t)  PROVE FALSE
        BY <1>1, <1>5, <3>1 DEF RequestSave, TypeOK
      <3> QED
        BY <1>1, <1>5, <3>1, QuietSteps DEF Step, Quiet, InvokeRoute, RequestGate,
           RequestAudit, ApproveGate, RejectGate, RejectAudit, Call, Audit, stored
    <2>2. CASE Save(t)
      <3>1. frame[t].req \in Requests /\ frame[t].verdict \in Statuses
        BY <2>2, FrameFields DEF Save, Inv, HandlerInv, SettleSteps, Statuses
      <3>2. frame[t].req = r
        BY <1>1, <1>5, <2>2, <3>1, SaveFacts, FrameFields DEF Save
      <3> QED BY <2>2, <3>2, SaveMoves DEF SameLocals
    <2>3. CASE RejectSave(t)
      <3>1. frame[t].req \in Requests
        BY <2>3 DEF RejectSave, Inv, HandlerInv, DecideSteps
      <3>2. frame[t].req = r
        BY <1>1, <1>5, <2>3, <3>1, SaveFacts, FrameFields DEF RejectSave, Statuses
      <3>3. frame'[t].pc = "rej_audit" /\ SameLocals(t)
        BY <2>3, GotoFrame, StepNames DEF RejectSave
      <3> QED BY <3>2, <3>3 DEF SameLocals
    <2> QED BY <2>1, <2>2, <2>3
  <1>6. CASE Settled(r) /\ Sum(r) > 0
    <2> HIDE DEF Settled
    <2> QED BY <1>3, <1>4, <1>6
  <1>7. CASE Settled(r) /\ \E s \in Threads : Owed(r, s)
    <2>1. PICK s \in Threads : Owed(r, s)  BY <1>7
    <2>2. CASE s # t
      <3>1. frame'[s] = frame[s]  BY <2>2, StepOnlyFrame DEF OnlyFrame
      <3> QED BY <2>1, <3>1
    <2>3. CASE s = t
      <3>1. Audit(t) \/ RejectAudit(t)
        BY <2>1, <2>3 DEF Step, InvokeTool, DirectHaltCheck, DirectCall, DirectAudit,
           NextRequest, GateRead, ToolRead, HaltCheck, InvokeRoute, RequestGate,
           RequestSave, RequestAudit, ApproveGate, RejectGate, RejectSave, Save, Call
      <3>2. \E k \in {"executed", "failed", "rejected"} : Append(r, k)
        BY <2>1, <2>3, <3>1, FrameFields DEF Audit, RejectAudit, Inv, HandlerInv
      <3>3. \E k \in {"executed", "failed", "rejected"} :
               receipts'[r][k] = receipts[r][k] + 1
        BY <3>2 DEF Append, TypeOK, Kinds
      <3> HIDE DEF Settled, Owed
      <3> QED BY <1>3, <1>4, <3>3
    <2> QED BY <2>2, <2>3
  <1>8. Settled(r) => Sum(r) > 0 \/ \E s \in Threads : Owed(r, s)
    BY <1>2 DEF SettledIsReceipted
  <1> QED BY <1>5, <1>6, <1>7, <1>8

\* The start of a handler, the environment and a crash leave no receipt owed that
\* was not owed before.
LEMMA QuietTrail ==
  ASSUME TypeOK, Inv, TrailInv, (\E t \in Threads : Start(t)) \/ Environment
  PROVE  TrailInv'
  <1> DEFINE Same(s)  == frame'[s] = frame[s]
             Began(s) == /\ frame[s].pc = "idle"
                         /\ frame'[s].pc \notin {"save", "audit", "rej_audit"}
             Lost(s)  == frame'[s] = IdleFrame /\ faults' # 0
  <1>1. SameTables /\ UNCHANGED receipts
    BY StartTables, EnvironmentTables DEF SameTables
  <1>2. ASSUME NEW s \in Threads
        PROVE  Same(s) \/ Began(s) \/ Lost(s)
    <2>1. ASSUME NEW t \in Threads, Start(t)
          PROVE  Same(s) \/ Began(s)
      <3>1. ASSUME NEW f \in Frame, frame' = [frame EXCEPT ![t] = f],
                   f.pc \notin {"save", "audit", "rej_audit"}, frame[t].pc = "idle"
            PROVE  Same(s) \/ Began(s)
        BY <3>1, StartFrame DEF OnlyFrame
      <3>2. ASSUME NEW u \in Users, NEW c \in Tools, NEW d \in BOOLEAN, Invoke(t, u, c, d)
            PROVE  Same(s) \/ Began(s)
        <4> DEFINE f == [IdleFrame EXCEPT !.pc = "inv_tool", !.user = u, !.tool = c,
                                          !.direct = d]
        <4>1. f \in Frame /\ f.pc = "inv_tool"  BY StepNames DEF IdleFrame, Frame
        <4>2. frame' = [frame EXCEPT ![t] = f] /\ frame[t].pc = "idle"  BY <3>2 DEF Invoke
        <4> HIDE DEF f
        <4> QED BY <3>1, <4>1, <4>2
      <3>3. ASSUME NEW u \in Users, NEW r \in Requests, NEW a \in BOOLEAN, Decide(t, u, r, a)
            PROVE  Same(s) \/ Began(s)
        <4> DEFINE f == [IdleFrame EXCEPT !.pc = IF a THEN "dec_approve" ELSE "dec_reject",
                                          !.user = u, !.req = r, !.approver = u]
        <4>1. f \in Frame /\ f.pc \in {"dec_approve", "dec_reject"}
          BY StepNames DEF IdleFrame, Frame
        <4>2. frame' = [frame EXCEPT ![t] = f] /\ frame[t].pc = "idle"  BY <3>3 DEF Decide
        <4> HIDE DEF f
        <4> QED BY <3>1, <4>1, <4>2
      <3>4. ASSUME NEW u \in Users, ListDesk(t, u)
            PROVE  Same(s) \/ Began(s)
        <4> DEFINE f == [IdleFrame EXCEPT !.pc = "next", !.user = u,
                           !.todo = {r \in Requests : Pending(r) /\ rows[r].maker = u}]
        <4>1. f \in Frame /\ f.pc = "next"  BY StepNames DEF IdleFrame, Frame
        <4>2. frame' = [frame EXCEPT ![t] = f] /\ frame[t].pc = "idle"  BY <3>4 DEF ListDesk
        <4> HIDE DEF f
        <4> QED BY <3>1, <4>1, <4>2
      <3> QED BY <2>1, <3>2, <3>3, <3>4 DEF Start
    <2>2. ASSUME NEW t \in Threads, Abort(t)
          PROVE  Same(s) \/ Lost(s)
      BY <2>2, ReturnFrame DEF Abort, OnlyFrame, TypeOK
    <2>3. CASE Crash  BY <2>3 DEF Crash, TypeOK
    <2>4. CASE (\E c \in Tools : Connect(c) \/ Disconnect(c)) \/ SetOrgPolicy
                 \/ Activate \/ Deactivate
      BY <2>4 DEF Connect, Disconnect, SetOrgPolicy, Activate, Deactivate
    <2> QED BY <2>1, <2>2, <2>3, <2>4 DEF Environment
  <1>3. faults' # 0 \/ faults' = faults
    <2>1. ASSUME NEW t \in Threads, Start(t)  PROVE faults' = faults
      BY <2>1 DEF Start, Invoke, Decide, ListDesk
    <2>2. CASE Environment
      <3>1. faults' = faults \/ faults' = faults + 1
        BY <2>2 DEF Environment, Connect, Disconnect, SetOrgPolicy, Activate, Deactivate,
           Abort, Crash
      <3>2. faults \in Nat  BY ConstantsAssumption DEF TypeOK
      <3> QED BY <3>1, <3>2
    <2> QED BY <2>1, <2>2
  <1>4. ASSUME NEW r \in Requests
        PROVE  /\ IsFiniteSet(Owing(r)')
               /\ receipts'[r]["executed"] + Cardinality(Owing(r)') <= effects'[r]
    <2>1. Owing(r)' \subseteq Owing(r)
      BY <1>2 DEF Owing, Owes, IdleFrame
    <2>2. /\ IsFiniteSet(Owing(r)') /\ Cardinality(Owing(r)') <= Cardinality(Owing(r))
          /\ Cardinality(Owing(r)) \in Nat /\ Cardinality(Owing(r)') \in Nat
      BY <2>1, FS_Subset, FS_CardinalityType DEF TrailInv
    <2>3. receipts[r]["executed"] \in Nat /\ effects[r] \in Nat
      BY DEF TypeOK, Kinds
    <2> QED BY <1>1, <2>2, <2>3 DEF TrailInv, SameTables
  <1>5. SettledIsReceipted'
    <2>1. CASE faults' # 0  BY <2>1 DEF SettledIsReceipted
    <2>2. CASE faults' = 0
      <3>1. \A s \in Threads : frame[s].pc \in {"audit", "rej_audit"} => frame'[s] = frame[s]
        BY <1>2, <2>2
      <3> QED BY <1>1, <1>3, <2>2, <3>1 DEF SettledIsReceipted, TrailInv, SameTables
    <2> QED BY <2>1, <2>2
  <1> QED BY <1>4, <1>5 DEF TrailInv

\* The empty trail owes nothing.
LEMMA InitTrail == Init => TrailInv
  <1> SUFFICES ASSUME Init PROVE TrailInv  OBVIOUS
  <1>1. ASSUME NEW r \in Requests
        PROVE  IsFiniteSet(Owing(r)) /\ Cardinality(Owing(r)) = 0
    <2>1. Owing(r) = {}  BY DEF Owing, Owes, Init, IdleFrame
    <2> QED BY <2>1, FS_EmptySet
  <1>2. \A r \in Requests : receipts[r]["executed"] = 0 /\ effects[r] = 0
    BY DEF Init, Kinds
  <1>3. SettledIsReceipted  BY DEF Init, SettledIsReceipted, AbsentRow
  <1> QED BY <1>1, <1>2, <1>3 DEF TrailInv

\* Every write_executed receipt stands for an effect of its own, and without faults
\* no settled request is left without a receipt, whatever handlers overlap.
THEOREM TrailIsTrue == Spec => []ReceiptsAreTrue
  <1>1. Init => TrailInv  BY InitTrail
  <1>2. TypeOK /\ Inv /\ TrailInv /\ [Next]_vars => TrailInv'
    <2>1. ASSUME TypeOK, TrailInv, UNCHANGED vars  PROVE TrailInv'
      BY <2>1 DEF vars, TrailInv, Owing, Owes, SettledIsReceipted
    <2>2. ASSUME TypeOK, Inv, TrailInv, NEW t \in Threads, Step(t)  PROVE TrailInv'
      BY <2>2, StepTrail, StepReceipted DEF TrailInv
    <2> QED BY <2>1, <2>2, QuietTrail DEF Next
  <1>3. TypeOK /\ TrailInv => ReceiptsAreTrue
    <2> SUFFICES ASSUME TypeOK, TrailInv, NEW r \in Requests
                 PROVE  receipts[r]["executed"] <= effects[r]
      BY DEF TrailInv, ReceiptsAreTrue, ReceiptsNeverOutrunEffects
    <2>1. receipts[r]["executed"] \in Nat /\ effects[r] \in Nat
      BY DEF TypeOK, Kinds
    <2> QED BY <2>1, FS_CardinalityType DEF TrailInv
  <1> QED BY <1>1, <1>2, <1>3, Invariance, PTL DEF Spec

-----------------------------------------------------------------------------
(* One handler at a time                                                     *)

\* What decide_write_back says of itself ("executes once") is true of a process
\* with a single worker that never stops half-way; the races of the runs are what
\* breaks it.
OneHandler == (\A t, s \in Threads : t = s) /\ MaxFaults = 0

\* The handler holds a request between reading it and saving it.
Holds(t) == frame[t].pc \in {"dec_approve", "dec_reject", "rej_save", "gate_read",
                             "tool_read", "halt_check", "call", "save"}

\* A request that took effect is settled as done, or about to be by the handler
\* that called; and what that handler holds, or will hold, is still pending.
EffectInv(r) ==
    /\ effects[r] <= 1
    /\ effects[r] > 0 => \/ rows[r].status \in {"executed", "failed"}
                         \/ \E t \in Threads : frame[t].pc = "save" /\ frame[t].req = r
HeldInv(t) ==
    /\ Holds(t) => Pending(frame[t].req)
    /\ \A r \in frame[t].todo : Pending(r) /\ (Holds(t) => r # frame[t].req)
SerialInv == (\A r \in Requests : EffectInv(r)) /\ (\A t \in Threads : HeldInv(t))

\* How a handler that goes on holding a request came to hold it.
LEMMA HoldsStep ==
  ASSUME TypeOK, Inv, SerialInv, NEW t \in Threads, Step(t)
  PROVE  /\ \A r \in frame'[t].todo : r \in frame[t].todo
         /\ Holds(t)' =>
              \/ Holds(t) /\ frame'[t].req = frame[t].req /\ ~RejectSave(t) /\ ~Save(t)
              \/ /\ NextRequest(t) /\ frame'[t].req \in frame[t].todo
                 /\ frame'[t].req \notin frame'[t].todo
  <1>0. ASSUME NEW r \in frame[t].todo,
               frame' = [frame EXCEPT ![t].pc = "gate_read", ![t].req = r,
                                      ![t].todo = frame[t].todo \ {r},
                                      ![t].verdict = "pending"]
        PROVE  frame'[t].req = r /\ frame'[t].todo = frame[t].todo \ {r}
    BY <1>0, PickFrame, StepNames
  <1> USE FrameFields, StepNames, GotoFrame, ReturnFrame DEF Holds, SameLocals
  <1> USE DEF IdleFrame
  <1>1. CASE Save(t) \/ RejectSave(t)  BY <1>1 DEF Save, RejectSave
  <1>2. CASE InvokeRoute(t)
    <2>1. ASSUME NEW q \in Requests \ minted,
                 frame' = [frame EXCEPT ![t].pc = "req_gate", ![t].req = q]
          PROVE  frame'[t].pc = "req_gate" /\ frame'[t].todo = frame[t].todo
      BY <2>1, MintFrame
    <2> QED BY <1>2, <2>1 DEF InvokeRoute
  <1>3. CASE NextRequest(t)
    <2>1. CASE frame[t].todo = {}  BY <1>3, <2>1 DEF NextRequest
    <2>2. CASE frame[t].todo # {}
      <3>1. PICK r \in frame[t].todo :
               frame' = [frame EXCEPT ![t].pc = "gate_read", ![t].req = r,
                                      ![t].todo = frame[t].todo \ {r},
                                      ![t].verdict = "pending"]
        BY <1>3, <2>2 DEF NextRequest
      <3>2. frame'[t].req = r /\ frame'[t].todo = frame[t].todo \ {r}
        BY <1>0, <3>1
      <3> QED BY ONLY <1>3, <3>2, r \in frame[t].todo
    <2> QED BY <2>1, <2>2
  <1>4. CASE ToolRead(t)  BY <1>4, ToolReadFrame DEF ToolRead, RejectSave, Save
  <1>5. CASE HaltCheck(t)
    BY <1>5, VerdictFrame DEF HaltCheck, RejectSave, Save
  <1>6. CASE InvokeTool(t)  BY <1>6 DEF InvokeTool
  <1>7. CASE DirectHaltCheck(t) \/ DirectCall(t) \/ DirectAudit(t)
    BY <1>7 DEF DirectHaltCheck, DirectCall, DirectAudit
  <1>8. CASE RequestGate(t) \/ RequestSave(t) \/ RequestAudit(t)
    BY <1>8 DEF RequestGate, RequestSave, RequestAudit
  <1>9. CASE ApproveGate(t) \/ RejectGate(t) \/ RejectAudit(t)
    BY <1>9 DEF ApproveGate, RejectGate, RejectAudit, RejectSave, Save
  <1>10. CASE GateRead(t) \/ Audit(t)  BY <1>10 DEF GateRead, Audit, RejectSave, Save
  <1>11. CASE Call(t)  BY <1>11, CallFrame DEF Call, RejectSave, Save
  <1> QED
    BY <1>1, <1>2, <1>3, <1>4, <1>5, <1>6, <1>7, <1>8, <1>9, <1>10, <1>11 DEF Step

\* The rows a step of a handler leaves as they are.
LEMMA RowsStep ==
  ASSUME TypeOK, Inv, NEW t \in Threads, Step(t), NEW r \in Requests
  PROVE  \/ rows'[r] = rows[r]
         \/ r = frame[t].req /\ (RequestSave(t) \/ RejectSave(t) \/ Save(t))
  <1> USE FrameFields DEF Inv
  <1>1. CASE RequestSave(t)
    BY <1>1 DEF RequestSave, TypeOK
  <1>2. CASE RejectSave(t)
    <2>1. frame[t].req \in Requests
      BY <1>2 DEF RejectSave, HandlerInv, DecideSteps
    <2> QED BY <1>2, <2>1, SaveFacts DEF RejectSave, Statuses
  <1>3. CASE Save(t)
    <2>1. frame[t].req \in Requests /\ frame[t].verdict \in Statuses
      BY <1>3 DEF Save, HandlerInv, SettleSteps, Statuses
    <2> QED BY <1>3, <2>1, SaveFacts DEF Save
  <1>4. CASE ~RequestSave(t) /\ ~RejectSave(t) /\ ~Save(t)
    BY <1>4, QuietSteps DEF Step, Quiet, InvokeRoute, RequestGate,
       RequestAudit, ApproveGate, RejectGate, RejectAudit, Call, Audit, stored
  <1> QED BY <1>1, <1>2, <1>3, <1>4

\* The one handler's step keeps every effect single and every held request pending.
LEMMA StepSerial ==
  ASSUME TypeOK, Inv, SerialInv, OneHandler, NEW t \in Threads, Step(t)
  PROVE  SerialInv'
  <1>1. \A s \in Threads : s = t  BY DEF OneHandler
  <1>2. HeldInv(t)  BY DEF SerialInv
  <1>3. ASSUME NEW r \in Requests, r \in frame[t].todo, r # frame[t].req \/ ~Holds(t)
        PROVE  Pending(r)'
    <2>1. Pending(r)  BY <1>2, <1>3 DEF HeldInv
    <2>2. RejectSave(t) \/ Save(t) => Holds(t)  BY DEF RejectSave, Save, Holds
    <2>3. RequestSave(t) /\ r = frame[t].req => Pending(r)'
      BY DEF RequestSave, TypeOK, Pending
    <2> QED BY <1>3, <2>1, <2>2, <2>3, RowsStep DEF Pending
  <1>4. frame[t].todo \subseteq Requests  BY FrameFields
  <1>5. HeldInv(t)'
    <2>1. \A r \in frame'[t].todo : Pending(r)'
      BY <1>2, <1>3, <1>4, HoldsStep DEF HeldInv
    <2>2. CASE Holds(t)' /\ Holds(t) /\ frame'[t].req = frame[t].req /\ ~RejectSave(t) /\ ~Save(t)
      <3>1. frame[t].req \in Requests /\ Pending(frame[t].req) /\ ~RequestSave(t)
        BY <1>2, <2>2 DEF HeldInv, Holds, Inv, HandlerInv, DecideSteps, SettleSteps,
           RequestSave
      <3>2. Pending(frame[t].req)'
        BY <2>2, <3>1, RowsStep DEF Pending
      <3>3. \A r \in frame'[t].todo : r # frame'[t].req
        BY <1>2, <2>2, HoldsStep DEF HeldInv
      <3> QED BY <2>1, <2>2, <3>2, <3>3 DEF HeldInv, Pending
    <2>3. CASE /\ Holds(t)' /\ NextRequest(t) /\ frame'[t].req \in frame[t].todo
               /\ frame'[t].req \notin frame'[t].todo
      <3>1. ~Holds(t)  BY <2>3 DEF NextRequest, Holds
      <3>2. Pending(frame'[t].req) /\ rows' = rows
        BY <1>2, <2>3 DEF HeldInv, NextRequest, stored
      <3> QED BY <2>1, <2>3, <3>2 DEF HeldInv, Pending
    <2>4. CASE ~Holds(t)'  BY <2>1, <2>4 DEF HeldInv
    <2> QED BY <2>2, <2>3, <2>4, HoldsStep
  <1>6. ASSUME NEW r \in Requests  PROVE EffectInv(r)'
    <2>1. EffectInv(r) /\ effects[r] \in Nat  BY DEF SerialInv, TypeOK
    <2>2. CASE Call(t)
      <3>1. frame[t].req \in Requests /\ Pending(frame[t].req) /\ frame[t].pc = "call"
        BY <1>2, <2>2 DEF HeldInv, Holds, Call, Inv, HandlerInv, SettleSteps
      <3>2. effects[frame[t].req] = 0
        <4>1. EffectInv(frame[t].req) /\ effects[frame[t].req] \in Nat
          BY <3>1 DEF SerialInv, TypeOK
        <4> QED BY <1>1, <3>1, <4>1 DEF EffectInv, Pending
      <3>3. /\ frame'[t].pc = "save" /\ frame'[t].req = frame[t].req /\ rows' = rows
            /\ effects'[frame[t].req] \in {0, 1}
            /\ \A q \in Requests \ {frame[t].req} : effects'[q] = effects[q]
        <4>1. frame'[t].pc = "save" /\ frame'[t].req = frame[t].req /\ rows' = rows
          BY <2>2, CallFrame DEF Call, SameLocals, stored
        <4>2. PICK o \in Outcomes :
                effects' = [effects EXCEPT ![frame[t].req] =
                              IF Effect(o) THEN effects[frame[t].req] + 1
                                           ELSE effects[frame[t].req]]
          BY <2>2 DEF Call
        <4> QED BY <3>1, <3>2, <4>1, <4>2 DEF TypeOK
      <3>4. CASE r = frame[t].req
        <4>1. effects'[r] \in {0, 1}  BY <3>3, <3>4
        <4> QED BY <3>3, <3>4, <4>1 DEF EffectInv
      <3>5. CASE r # frame[t].req
        <4>1. effects'[r] = effects[r] /\ rows'[r] = rows[r]
          BY <3>3, <3>5 DEF TypeOK
        <4>2. effects[r] > 0 => rows[r].status \in {"executed", "failed"}
          BY <1>1, <2>1, <3>1 DEF EffectInv
        <4> QED BY <2>1, <4>1, <4>2 DEF EffectInv
      <3> QED BY <3>4, <3>5
    <2>3. CASE ~Call(t)
      <3>1. effects' = effects  BY <2>3, OtherEffects
      <3>2. CASE effects[r] > 0
        <4>1. frame[t].pc = "save" => Save(t)
          BY DEF Step, InvokeTool, DirectHaltCheck, DirectCall, DirectAudit,
             NextRequest, GateRead, ToolRead, HaltCheck, InvokeRoute, RequestGate,
             RequestSave, RequestAudit, ApproveGate, RejectGate, RejectSave,
             RejectAudit, Call, Audit
        <4>2. CASE Save(t) /\ frame[t].req = r
          <5>1. frame[t].verdict \in {"executed", "failed"} /\ frame[t].verdict \in Statuses
            BY <4>2, FrameFields DEF Save, Inv, HandlerInv, Statuses
          <5>2. rows'[r].status = frame[t].verdict
            BY <4>2, <5>1, SaveFacts, FrameFields DEF Save
          <5> QED BY <2>1, <3>1, <5>1, <5>2 DEF EffectInv
        <4>3. CASE ~(Save(t) /\ frame[t].req = r)
          <5>1. rows[r].status \in {"executed", "failed"}
            BY <1>1, <2>1, <3>2, <4>1, <4>3 DEF EffectInv
          <5>2. r # frame[t].req \/ ~RejectSave(t)
            BY <1>2, <5>1 DEF HeldInv, Holds, RejectSave, Pending
          <5>3. r # frame[t].req \/ ~RequestSave(t)
            BY <5>1 DEF RequestSave, Inv, FilingInv, Filing, Filed
          <5>4. rows'[r] = rows[r]  BY <4>3, <5>2, <5>3, RowsStep
          <5> QED BY <2>1, <3>1, <5>1, <5>4 DEF EffectInv
        <4> QED BY <4>2, <4>3
      <3>3. CASE ~(effects[r] > 0)  BY <2>1, <3>1, <3>3 DEF EffectInv
      <3> QED BY <3>2, <3>3
    <2> QED BY <2>2, <2>3
  <1> QED BY <1>1, <1>5, <1>6 DEF SerialInv

\* A handler starts with what it read as pending; nothing else moves, for with no
\* faults no handler is lost.
LEMMA QuietSerial ==
  ASSUME TypeOK, Inv, SerialInv, OneHandler, (\E t \in Threads : Start(t)) \/ Environment
  PROVE  SerialInv'
  <1>1. SameTables
    BY StartTables, EnvironmentTables
  <1>2. ASSUME NEW t \in Threads, Start(t)
        PROVE  HeldInv(t)' /\ frame[t].pc = "idle"
    <2>1. ASSUME NEW u \in Users, NEW c \in Tools, NEW d \in BOOLEAN, Invoke(t, u, c, d)
          PROVE  HeldInv(t)' /\ frame[t].pc = "idle"
      <3> DEFINE f == [IdleFrame EXCEPT !.pc = "inv_tool", !.user = u, !.tool = c,
                                        !.direct = d]
      <3>1. f \in Frame /\ f.pc = "inv_tool" /\ f.todo = {}
        BY StepNames DEF IdleFrame, Frame
      <3>2. frame' = [frame EXCEPT ![t] = f] /\ frame[t].pc = "idle"  BY <2>1 DEF Invoke
      <3> HIDE DEF f
      <3> QED BY <3>1, <3>2, StartFrame DEF HeldInv, Holds
    <2>2. ASSUME NEW u \in Users, NEW r \in Requests, NEW a \in BOOLEAN, Decide(t, u, r, a)
          PROVE  HeldInv(t)' /\ frame[t].pc = "idle"
      <3> DEFINE f == [IdleFrame EXCEPT !.pc = IF a THEN "dec_approve" ELSE "dec_reject",
                                        !.user = u, !.req = r, !.approver = u]
      <3>1. f \in Frame /\ f.req = r /\ f.todo = {}
        BY StepNames DEF IdleFrame, Frame
      <3>2. frame' = [frame EXCEPT ![t] = f] /\ frame[t].pc = "idle" /\ Pending(r)
        BY <2>2 DEF Decide
      <3> HIDE DEF f
      <3>3. frame'[t] = f  BY <3>1, <3>2, StartFrame
      <3> QED BY <1>1, <3>1, <3>2, <3>3 DEF HeldInv, Holds, Pending, SameTables
    <2>3. ASSUME NEW u \in Users, ListDesk(t, u)
          PROVE  HeldInv(t)' /\ frame[t].pc = "idle"
      <3> DEFINE desk == {r \in Requests : Pending(r) /\ rows[r].maker = u}
                 f == [IdleFrame EXCEPT !.pc = "next", !.user = u, !.todo = desk]
      <3>1. f \in Frame /\ f.pc = "next" /\ f.todo = desk
        BY StepNames DEF IdleFrame, Frame
      <3>2. frame' = [frame EXCEPT ![t] = f] /\ frame[t].pc = "idle"  BY <2>3 DEF ListDesk
      <3>3. \A r \in desk : Pending(r)  OBVIOUS
      <3> HIDE DEF f, desk
      <3>4. frame'[t] = f  BY <3>1, <3>2, StartFrame
      <3> QED BY <1>1, <3>1, <3>2, <3>3, <3>4 DEF HeldInv, Holds, Pending, SameTables
    <2> QED BY <1>2, <2>1, <2>2, <2>3 DEF Start
  <1>3. ASSUME Environment
        PROVE  frame' = frame
    <2>1. ~(faults < MaxFaults)  BY ConstantsAssumption DEF OneHandler, TypeOK
    <2> QED BY <1>3, <2>1 DEF Environment, Connect, Disconnect, SetOrgPolicy, Activate,
               Deactivate, Abort, Crash
  <1>4. CASE frame' = frame
    BY <1>1, <1>4 DEF SerialInv, EffectInv, HeldInv, Holds, Pending, SameTables
  <1>5. CASE \E t \in Threads : Start(t)
    <2>1. PICK t \in Threads : Start(t)  BY <1>5
    <2>2. \A s \in Threads : s = t  BY DEF OneHandler
    <2>3. \A r \in Requests : EffectInv(r)'
      BY <1>1, <1>2, <2>1, <2>2 DEF SerialInv, EffectInv, SameTables
    <2> QED BY <1>2, <2>1, <2>2, <2>3 DEF SerialInv
  <1> QED BY <1>3, <1>4, <1>5

\* One worker and no faults: what the handlers hold is what the tables say.
THEOREM SerialInvariance == ASSUME OneHandler PROVE Spec => []SerialInv
  <1>1. Init => SerialInv
    BY DEF Init, SerialInv, EffectInv, HeldInv, Holds, IdleFrame
  <1>2. TypeOK /\ Inv /\ SerialInv /\ [Next]_vars => SerialInv'
    <2>1. SerialInv /\ UNCHANGED vars => SerialInv'
      BY DEF vars, SerialInv, EffectInv, HeldInv, Holds, Pending
    <2> QED BY <2>1, StepSerial, QuietSerial DEF Next
  <1> QED BY <1>1, <1>2, Invariance, PTL DEF Spec

\* A governed write is carried out at most once by a process with one worker.
THEOREM OneHandlerExecutesOnce ==
  ASSUME OneHandler PROVE Spec => []ExecutesOnce
  <1>1. SerialInv => ExecutesOnce  BY DEF SerialInv, EffectInv, ExecutesOnce
  <1> QED BY <1>1, SerialInvariance, PTL

\* With one worker a request that ends REJECTED never took effect.
THEOREM OneHandlerRejects ==
  ASSUME OneHandler PROVE Spec => []RejectedHasNoEffect
  <1>1. TypeOK /\ SerialInv => RejectedHasNoEffect
    BY DEF TypeOK, SerialInv, EffectInv, HeldInv, Holds, Pending, RejectedHasNoEffect
  <1> QED BY <1>1, SerialInvariance, Invariance, PTL
=============================================================================
