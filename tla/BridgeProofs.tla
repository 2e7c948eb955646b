---------------------------- MODULE BridgeProofs ----------------------------
(* For any agents, callers, operators, jobs and crashes: the bridge is sound, *)
(* a revoked one is dead, its allowlist stands.  For one agent: no job is     *)
(* carried out twice, and a settled job stays settled.                        *)
EXTENDS Bridge, TLAPS

-----------------------------------------------------------------------------
(* The inductive invariant.  A call that is about to save the row it read     *)
(* holds a row, which it cannot have before pair; a result that is about to   *)
(* be saved as done was worked for.                                           *)

Saving == {"claim_save", "hello_save", "poll_save", "allow_save"}
Submitting == {"submit", "submit_save"}

\* What holds of one call in progress, given the phase and the work done.
Sound(f, ph, done) ==
    /\ f \in Frame
    /\ f.pc \in Saving => f.snap # NoBridge
    /\ f.snap # NoBridge => ph # "new"
    /\ f.pc \in Submitting => f.job \in Jobs /\ (f.verdict = "done" => done[f.job] > 0)
    /\ f.pc = "wait" => f.job \in Jobs

FramesSound == \A x \in Clients : Sound(frame[x], phase, worked)
PairedFirst == bridge # NoBridge => phase # "new"
DoneWasWorked == \A j \in Jobs : jobs[j] = "done" => worked[j] > 0

Inv == TypeOK /\ FramesSound /\ PairedFirst /\ DoneWasWorked /\ AnsweredWasWorked

-----------------------------------------------------------------------------
USE BridgeAssumption DEF Clients

LEMMA IdleSound ==
    ASSUME NEW ph, NEW done
    PROVE  Idle \in Frame /\ Sound(Idle, ph, done)
  BY DEF Idle, Frame, Sound, Saving, Submitting, AgentSteps, CallerSteps

LEMMA InitInv == Init => Inv
<1> SUFFICES ASSUME Init PROVE Inv
  OBVIOUS
<1>1. TypeOK
  <2>1. Idle \in Frame
    BY IdleSound
  <2>2. frame \in [Clients -> Frame]
    BY <2>1 DEF Init
  <2>3. jobs \in [Jobs -> Statuses \cup {"absent"}] /\ worked \in [Jobs -> Nat]
    BY DEF Init
  <2>4. work \in [Agents -> SUBSET Jobs] /\ faults \in 0..MaxFaults
    BY DEF Init
  <2> QED
    BY <2>2, <2>3, <2>4 DEF Init, TypeOK
<1>2. FramesSound /\ PairedFirst /\ DoneWasWorked /\ AnsweredWasWorked
  BY IdleSound DEF Init, FramesSound, PairedFirst, DoneWasWorked, AnsweredWasWorked
<1> QED
  BY <1>1, <1>2 DEF Inv

\* A call keeps what it owes the invariant while others pair, revoke and work.
LEMMA SoundStays ==
    ASSUME NEW f, NEW ph, NEW ph2, NEW done, NEW done2, Sound(f, ph, done),
           ph # "new" => ph2 # "new",
           done \in [Jobs -> Nat], done2 \in [Jobs -> Nat],
           \A j \in Jobs : done2[j] >= done[j]
    PROVE  Sound(f, ph2, done2)
  BY DEF Sound

(* What a step of one client owes the invariant: a sound call afterwards, a   *)
(* row that is a row, a job saved as done only after its work.                *)
LEMMA ClientStep ==
    ASSUME Inv, NEW x \in Clients, NEW f,
           frame' = [frame EXCEPT ![x] = f], Sound(f, phase', worked'),
           bridge' \in Row \cup {NoBridge},
           bridge' # NoBridge => phase' # "new",
           phase' = phase,
           jobs' \in [Jobs -> Statuses \cup {"absent"}],
           worked' \in [Jobs -> Nat],
           \A j \in Jobs : worked'[j] >= worked[j],
           \A j \in Jobs : jobs'[j] = "done" => worked'[j] > 0,
           answered' \in SUBSET Jobs,
           \A j \in answered' : j \in answered \/ jobs[j] = "done",
           late' \in BOOLEAN, holders' \in SUBSET Agents,
           work' \in [Agents -> SUBSET Jobs], faults' \in 0..MaxFaults
    PROVE  Inv'
<1>1. f \in Frame
  BY DEF Sound
<1>2. TypeOK'
  BY <1>1 DEF Inv, TypeOK
<1>3. FramesSound'
  <2> SUFFICES ASSUME NEW y \in Clients PROVE Sound(frame'[y], phase', worked')
    BY DEF FramesSound
  <2>1. CASE y = x
    BY <2>1 DEF Inv, TypeOK
  <2>2. CASE y # x
    <3>1. frame'[y] = frame[y] /\ Sound(frame[y], phase, worked)
      BY <2>2 DEF Inv, TypeOK, FramesSound
    <3>2. worked \in [Jobs -> Nat]
      BY DEF Inv, TypeOK
    <3> QED
      BY <3>1, <3>2, SoundStays
  <2> QED
    BY <2>1, <2>2
<1>4. PairedFirst' /\ DoneWasWorked'
  BY DEF PairedFirst, DoneWasWorked
<1>5. AnsweredWasWorked'
  <2> SUFFICES ASSUME NEW j \in answered' PROVE worked'[j] > 0
    BY DEF AnsweredWasWorked
  <2>1. j \in Jobs /\ worked[j] > 0
    BY DEF Inv, AnsweredWasWorked, DoneWasWorked
  <2>2. worked[j] \in Nat /\ worked'[j] \in Nat
    BY <2>1 DEF Inv, TypeOK
  <2> QED
    BY <2>1, <2>2
<1> QED
  BY <1>2, <1>3, <1>4, <1>5 DEF Inv

\* What the invariant says of one client and of the rows.
LEMMA ClientIsSound ==
    ASSUME Inv, NEW x \in Clients
    PROVE  Sound(frame[x], phase, worked) /\ frame[x] \in Frame
  BY DEF Inv, FramesSound, Sound

LEMMA StateIsTyped ==
    ASSUME Inv
    PROVE  /\ TypeOK
           /\ bridge # NoBridge => phase # "new" /\ bridge \in Row
           /\ \A j \in Jobs : jobs[j] = "done" => worked[j] > 0
           /\ \A j \in Jobs : worked[j] \in Nat
  BY DEF Inv, TypeOK, PairedFirst, DoneWasWorked

(* A step of the contributor or of time touches no call and no job.           *)
LEMMA OutsideStep ==
    ASSUME Inv, UNCHANGED <<frame, jobs, work, worked, answered, faults>>,
           bridge' \in Row \cup {NoBridge},
           phase' \in {"new", "paired", "revoked"},
           bridge' # NoBridge => phase' # "new",
           phase # "new" => phase' # "new",
           late' \in BOOLEAN, holders' \in SUBSET Agents
    PROVE  Inv'
<1>1. TypeOK'
  BY DEF Inv, TypeOK
<1>2. FramesSound'
  BY DEF Inv, FramesSound, Sound
<1>3. PairedFirst' /\ DoneWasWorked' /\ AnsweredWasWorked'
  BY DEF Inv, PairedFirst, DoneWasWorked, AnsweredWasWorked
<1> QED
  BY <1>1, <1>2, <1>3 DEF Inv

LEMMA PairInv == ASSUME Inv, Pair PROVE Inv'
  BY OutsideStep DEF Pair, Inv, TypeOK, Row, agentSide

LEMMA RevokeInv == ASSUME Inv, Revoke PROVE Inv'
  BY OutsideStep DEF Revoke, Inv, TypeOK, agentSide

LEMMA CodeExpiresInv == ASSUME Inv, CodeExpires PROVE Inv'
  BY OutsideStep DEF CodeExpires, Inv, TypeOK, PairedFirst, agentSide

LEMMA GoesOfflineInv == ASSUME Inv, GoesOffline PROVE Inv'
  BY OutsideStep DEF GoesOffline, Inv, TypeOK, PairedFirst, Row, agentSide, history

LEMMA ConfigureInv == ASSUME Inv, NEW a \in Agents, Configure(a) PROVE Inv'
  BY OutsideStep DEF Configure, Inv, TypeOK, PairedFirst, history

LEMMA ServerCrashInv == ASSUME Inv, ServerCrash PROVE Inv'
<1>1. TypeOK'
  BY IdleSound DEF ServerCrash, Inv, TypeOK, agentSide
<1>2. FramesSound'
  BY IdleSound DEF ServerCrash, FramesSound
<1>3. PairedFirst' /\ DoneWasWorked' /\ AnsweredWasWorked'
  BY DEF ServerCrash, Inv, PairedFirst, DoneWasWorked, AnsweredWasWorked, agentSide
<1> QED
  BY <1>1, <1>2, <1>3 DEF Inv

-----------------------------------------------------------------------------
(* A call that begins or moves on without touching a row.                     *)
LEMMA CallMoves ==
    ASSUME Inv, NEW x \in Clients, NEW f,
           frame' = [frame EXCEPT ![x] = f], Sound(f, phase, worked),
           UNCHANGED <<bridge, jobs, agentSide, history>>
    PROVE  Inv'
<1>1. /\ UNCHANGED <<bridge, phase, jobs, worked, answered, late, holders, work, faults>>
      /\ Sound(f, phase', worked')
  BY DEF agentSide, history
<1>2. /\ \A j \in Jobs : worked'[j] >= worked[j]
      /\ \A j \in Jobs : jobs'[j] = "done" => worked'[j] > 0
      /\ bridge' # NoBridge => phase' # "new"
  BY <1>1, StateIsTyped
<1> QED
  BY <1>1, <1>2, ClientStep, StateIsTyped DEF TypeOK

\* What a call reads at its start is a row, once a bridge is there.
LEMMA BeginSound ==
    ASSUME Inv, bridge # NoBridge, NEW step \in Saving
    PROVE  Sound([Idle EXCEPT !.pc = step, !.snap = bridge], phase, worked)
<1>1. bridge \in Row /\ phase # "new"
  BY StateIsTyped
<1> QED
  BY <1>1, IdleSound DEF Sound, Frame, Idle, Saving, Submitting, AgentSteps, CallerSteps

LEMMA ClaimReadInv == ASSUME Inv, NEW a \in Agents, ClaimRead(a) PROVE Inv'
  BY BeginSound, CallMoves DEF ClaimRead, Begin, Saving

LEMMA HelloAuthInv == ASSUME Inv, NEW a \in Agents, HelloAuth(a) PROVE Inv'
  BY BeginSound, CallMoves DEF HelloAuth, Auth, Begin, Saving

LEMMA PollAuthInv == ASSUME Inv, NEW a \in Agents, PollAuth(a) PROVE Inv'
  BY BeginSound, CallMoves DEF PollAuth, Auth, Begin, Saving

LEMMA AllowReadInv ==
    ASSUME Inv, NEW o \in Operators, NEW s \in SUBSET Actions, AllowRead(o, s)
    PROVE  Inv'
<1> DEFINE f == [Idle EXCEPT !.pc = "allow_save", !.snap = bridge, !.allowed = s]
<1>1. bridge \in Row /\ phase # "new"
  BY StateIsTyped DEF AllowRead
<1>2. Sound(f, phase, worked)
  BY <1>1, IdleSound
     DEF AllowRead, Sound, Frame, Idle, Saving, Submitting, AgentSteps, CallerSteps
<1> QED
  BY <1>2, CallMoves DEF AllowRead

LEMMA RunInv ==
    ASSUME Inv, NEW c \in Callers, NEW x \in Actions, Run(c, x) PROVE Inv'
<1> DEFINE f == [Idle EXCEPT !.pc = "enqueue", !.action = x]
<1>1. Sound(f, phase, worked)
  BY IdleSound DEF Sound, Frame, Idle, Saving, Submitting, AgentSteps, CallerSteps
<1> QED
  BY <1>1, CallMoves DEF Run

-----------------------------------------------------------------------------
(* The saves: a call writes the row it read, changed in a field, and returns. *)
LEMMA CallSaves ==
    ASSUME Inv, NEW x \in Clients, frame[x].snap # NoBridge, bridge' \in Row,
           NEW f, frame' = [frame EXCEPT ![x] = f], Sound(f, phase, worked),
           holders' \in SUBSET Agents,
           UNCHANGED <<jobs, work, worked, history>>
    PROVE  Inv'
<1>1. /\ UNCHANGED <<phase, jobs, worked, answered, late, work, faults>>
      /\ Sound(f, phase', worked')
  BY DEF history
<1>2. phase' # "new"
  BY <1>1, ClientIsSound DEF Sound
<1>3. /\ \A j \in Jobs : worked'[j] >= worked[j]
      /\ \A j \in Jobs : jobs'[j] = "done" => worked'[j] > 0
  BY <1>1, StateIsTyped
<1> QED
  BY <1>1, <1>2, <1>3, ClientStep, StateIsTyped DEF TypeOK

\* A call at a save holds a row, and what it writes of it is a row.
LEMMA SnapIsRow ==
    ASSUME Inv, NEW x \in Clients, frame[x].pc \in Saving
    PROVE  /\ frame[x].snap # NoBridge /\ frame[x].snap \in Row
           /\ Seen(x) \in Row
           /\ [frame[x].snap EXCEPT !.claimable = FALSE] \in Row
           /\ \A s \in SUBSET Actions : [frame[x].snap EXCEPT !.allowed = s] \in Row
<1>1. frame[x].snap # NoBridge /\ frame[x].snap \in Row
  BY ClientIsSound DEF Sound, Frame
<1> QED
  BY <1>1 DEF Seen, Row

LEMMA ClaimSaveInv == ASSUME Inv, NEW a \in Agents, ClaimSave(a) PROVE Inv'
<1>1. frame[a].snap # NoBridge /\ bridge' \in Row
  BY SnapIsRow DEF ClaimSave, At, Saving
<1>2. holders' \in SUBSET Agents
  BY StateIsTyped DEF ClaimSave, TypeOK
<1> QED
  BY <1>1, <1>2, IdleSound, CallSaves DEF ClaimSave, Return, history

LEMMA HelloSaveInv == ASSUME Inv, NEW a \in Agents, HelloSave(a) PROVE Inv'
<1>1. frame[a].snap # NoBridge /\ bridge' \in Row
  BY SnapIsRow DEF HelloSave, At, Saving
<1>2. holders' \in SUBSET Agents
  BY StateIsTyped DEF HelloSave, TypeOK, agentSide
<1> QED
  BY <1>1, <1>2, IdleSound, CallSaves DEF HelloSave, Return, agentSide

LEMMA AllowSaveInv == ASSUME Inv, NEW o \in Operators, AllowSave(o) PROVE Inv'
<1>1. frame[o].allowed \in SUBSET Actions
  BY ClientIsSound DEF Frame
<1>2. frame[o].snap # NoBridge /\ bridge' \in Row
  BY <1>1, SnapIsRow DEF AllowSave, At, Saving
<1>3. holders' \in SUBSET Agents
  BY StateIsTyped DEF AllowSave, TypeOK, agentSide
<1> QED
  BY <1>2, <1>3, IdleSound, CallSaves DEF AllowSave, Return, agentSide, history

LEMMA PollSaveInv == ASSUME Inv, NEW a \in Agents, PollSave(a) PROVE Inv'
<1> DEFINE f == [frame[a] EXCEPT !.pc = "poll_list", !.snap = NoBridge]
<1>1. frame[a].snap # NoBridge /\ bridge' \in Row
  BY SnapIsRow DEF PollSave, At, Saving
<1>2. Sound(f, phase, worked)
  BY ClientIsSound DEF Sound, Frame, Saving, Submitting, AgentSteps
<1>3. frame' = [frame EXCEPT ![a] = f]
  BY StateIsTyped DEF PollSave, TypeOK
<1>4. holders' \in SUBSET Agents
  BY StateIsTyped DEF PollSave, TypeOK, agentSide
<1> QED
  BY <1>1, <1>2, <1>3, <1>4, CallSaves DEF PollSave, agentSide

-----------------------------------------------------------------------------
(* The steps on jobs.                                                         *)

LEMMA PollListInv == ASSUME Inv, NEW a \in Agents, PollList(a) PROVE Inv'
<1> DEFINE f == [frame[a] EXCEPT !.pc = "poll_claim",
                                 !.todo = {j \in Jobs : jobs[j] = "pending"}]
<1>1. Sound(f, phase, worked)
  BY ClientIsSound DEF Sound, Frame, Saving, Submitting, AgentSteps
<1>2. frame' = [frame EXCEPT ![a] = f]
  BY StateIsTyped DEF PollList, TypeOK
<1> QED
  BY <1>1, <1>2, CallMoves DEF PollList

\* A client's step that leaves the bridge and the work alone: its call stays
\* sound, and no job becomes done without work.
LEMMA JobStep ==
    ASSUME Inv, NEW x \in Clients, NEW f,
           frame' = [frame EXCEPT ![x] = f], Sound(f, phase, worked),
           jobs' \in [Jobs -> Statuses \cup {"absent"}],
           \A j \in Jobs : jobs'[j] = "done" => worked[j] > 0,
           work' \in [Agents -> SUBSET Jobs],
           UNCHANGED <<bridge, holders, worked, history>>
    PROVE  Inv'
<1>1. /\ UNCHANGED <<bridge, phase, worked, answered, late, holders, faults>>
      /\ Sound(f, phase', worked')
  BY DEF history
<1>2. /\ \A j \in Jobs : worked'[j] >= worked[j]
      /\ \A j \in Jobs : jobs'[j] = "done" => worked'[j] > 0
      /\ bridge' # NoBridge => phase' # "new"
  BY <1>1, StateIsTyped
<1> QED
  BY <1>1, <1>2, ClientStep, StateIsTyped DEF TypeOK

LEMMA PollClaimInv == ASSUME Inv, NEW a \in Agents, PollClaim(a) PROVE Inv'
<1>1. frame[a] \in Frame /\ Sound(frame[a], phase, worked)
  BY ClientIsSound
<1>2. CASE \E j \in frame[a].todo :
             /\ jobs' = [jobs EXCEPT ![j] = "running"]
             /\ frame' = [frame EXCEPT ![a].todo = @ \ {j},
                                       ![a].claimed = @ \cup {j}]
             /\ UNCHANGED work
  <2> PICK j \in frame[a].todo :
        /\ jobs' = [jobs EXCEPT ![j] = "running"]
        /\ frame' = [frame EXCEPT ![a].todo = @ \ {j}, ![a].claimed = @ \cup {j}]
        /\ UNCHANGED work
    BY <1>2
  <2> DEFINE f == [frame[a] EXCEPT !.todo = @ \ {j}, !.claimed = @ \cup {j}]
  <2>1. j \in Jobs
    BY <1>1 DEF Frame
  <2>2. Sound(f, phase, worked)
    BY <1>1, <2>1 DEF Sound, Frame, PollClaim, At, Saving, Submitting
  <2>3. frame' = [frame EXCEPT ![a] = f]
    BY StateIsTyped DEF TypeOK
  <2>4. /\ jobs' \in [Jobs -> Statuses \cup {"absent"}]
        /\ \A i \in Jobs : jobs'[i] = "done" => worked[i] > 0
    BY <2>1, StateIsTyped DEF TypeOK, Statuses
  <2>5. work' \in [Agents -> SUBSET Jobs]
    BY StateIsTyped DEF TypeOK
  <2> HIDE DEF f
  <2> QED
    BY <2>2, <2>3, <2>4, <2>5, JobStep DEF PollClaim
<1>3. CASE /\ work' = [work EXCEPT ![a] = @ \cup frame[a].claimed]
           /\ Return(a)
           /\ UNCHANGED jobs
  <2>1. work' \in [Agents -> SUBSET Jobs]
    BY <1>1, <1>3, StateIsTyped DEF TypeOK, Frame
  <2>2. /\ jobs' \in [Jobs -> Statuses \cup {"absent"}]
        /\ \A i \in Jobs : jobs'[i] = "done" => worked[i] > 0
    BY <1>3, StateIsTyped DEF TypeOK
  <2> QED
    BY <1>3, <2>1, <2>2, IdleSound, JobStep DEF PollClaim, Return
<1> QED
  BY <1>2, <1>3 DEF PollClaim

LEMMA ExecuteInv == ASSUME Inv, NEW a \in Agents, Execute(a) PROVE Inv'
<1> PICK j \in work[a], v \in {"done", "failed"} :
      /\ work' = [work EXCEPT ![a] = @ \ {j}]
      /\ worked' = [worked EXCEPT ![j] = IF v = "done" THEN @ + 1 ELSE @]
      /\ frame' = [frame EXCEPT ![a] = [Idle EXCEPT !.pc = "submit",
                                           !.job = j, !.verdict = v]]
  BY DEF Execute
<1> DEFINE f == [Idle EXCEPT !.pc = "submit", !.job = j, !.verdict = v]
<1>1. j \in Jobs
  BY StateIsTyped DEF TypeOK
<1>2. worked \in [Jobs -> Nat]
  BY StateIsTyped DEF TypeOK
<1>3. /\ worked' \in [Jobs -> Nat]
      /\ \A i \in Jobs : worked'[i] >= worked[i]
      /\ v = "done" => worked'[j] > 0
  BY <1>1, <1>2
<1>4. Sound(f, phase, worked')
  BY <1>1, <1>3, IdleSound
     DEF Sound, Frame, Idle, Saving, Submitting, AgentSteps, CallerSteps
<1>5. \A i \in Jobs : jobs[i] = "done" => worked'[i] > 0
  BY <1>3, StateIsTyped
<1>6. work' \in [Agents -> SUBSET Jobs]
  BY StateIsTyped DEF TypeOK
<1>7. /\ UNCHANGED <<bridge, phase, jobs, answered, late, holders, faults>>
      /\ Sound(f, phase', worked')
  BY <1>4 DEF Execute, history
<1>8. bridge' # NoBridge => phase' # "new"
  BY <1>7, StateIsTyped
<1> HIDE DEF f
<1>9. frame' = [frame EXCEPT ![a] = f]
  BY DEF f
<1> QED
  BY <1>3, <1>5, <1>6, <1>7, <1>8, <1>9, ClientStep, StateIsTyped DEF TypeOK

LEMMA SubmitInv == ASSUME Inv, NEW a \in Agents, Submit(a) PROVE Inv'
<1>1. frame[a] \in Frame /\ Sound(frame[a], phase, worked)
  BY ClientIsSound
<1>2. CASE Auth(a)
  <2> DEFINE f == [frame[a] EXCEPT !.pc = "submit_save"]
  <2>1. Sound(f, phase, worked)
    BY <1>1 DEF Sound, Frame, Submit, At, Saving, Submitting, AgentSteps
  <2>2. frame' = [frame EXCEPT ![a] = f]
    BY <1>2, StateIsTyped DEF Submit, Goto, TypeOK
  <2> QED
    BY <2>1, <2>2, CallMoves DEF Submit
<1>3. CASE ~Auth(a)
  BY <1>3, IdleSound, CallMoves DEF Submit, Return
<1> QED
  BY <1>2, <1>3

LEMMA SubmitSaveInv == ASSUME Inv, NEW a \in Agents, SubmitSave(a) PROVE Inv'
<1> DEFINE j == frame[a].job
<1>1. /\ j \in Jobs /\ frame[a].verdict \in {"done", "failed"}
      /\ frame[a].verdict = "done" => worked[j] > 0
  BY ClientIsSound DEF Sound, Frame, SubmitSave, At, Submitting
<1>2. /\ jobs' \in [Jobs -> Statuses \cup {"absent"}]
      /\ \A i \in Jobs : jobs'[i] = "done" => worked[i] > 0
  BY <1>1, StateIsTyped DEF SubmitSave, TypeOK, Statuses
<1>3. work' \in [Agents -> SUBSET Jobs]
  BY StateIsTyped DEF SubmitSave, TypeOK, agentSide
<1> QED
  BY <1>2, <1>3, IdleSound, JobStep DEF SubmitSave, Return, agentSide

LEMMA AgentCrashInv == ASSUME Inv, NEW a \in Agents, AgentCrash(a) PROVE Inv'
<1>1. /\ UNCHANGED <<bridge, phase, late, jobs, holders, worked, answered>>
      /\ frame' = [frame EXCEPT ![a] = Idle]
      /\ Sound(Idle, phase', worked')
  BY IdleSound DEF AgentCrash, Return
<1>2. work' \in [Agents -> SUBSET Jobs] /\ faults' \in 0..MaxFaults
  BY StateIsTyped DEF AgentCrash, TypeOK
<1>3. /\ \A j \in Jobs : worked'[j] >= worked[j]
      /\ \A j \in Jobs : jobs'[j] = "done" => worked'[j] > 0
      /\ bridge' # NoBridge => phase' # "new"
  BY <1>1, StateIsTyped
<1> QED
  BY <1>1, <1>2, <1>3, ClientStep, StateIsTyped DEF TypeOK

LEMMA EnqueueInv == ASSUME Inv, NEW c \in Callers, Enqueue(c) PROVE Inv'
<1>1. frame[c] \in Frame /\ Sound(frame[c], phase, worked)
  BY ClientIsSound
<1>2. work' \in [Agents -> SUBSET Jobs]
  BY StateIsTyped DEF Enqueue, TypeOK, agentSide
<1>3. CASE bridge = NoBridge
  BY <1>3, IdleSound, CallMoves DEF Enqueue, Return
<1>4. CASE bridge # NoBridge
  <2> PICK j \in Jobs :
        /\ jobs' = [jobs EXCEPT ![j] = "pending"]
        /\ frame' = [frame EXCEPT ![c].pc = "wait", ![c].job = j]
    BY <1>4 DEF Enqueue
  <2> DEFINE f == [frame[c] EXCEPT !.pc = "wait", !.job = j]
  <2>1. Sound(f, phase, worked)
    BY <1>1 DEF Sound, Frame, Saving, Submitting, CallerSteps
  <2>2. frame' = [frame EXCEPT ![c] = f]
    BY StateIsTyped DEF TypeOK
  <2>3. /\ jobs' \in [Jobs -> Statuses \cup {"absent"}]
        /\ \A i \in Jobs : jobs'[i] = "done" => worked[i] > 0
    BY StateIsTyped DEF TypeOK, Statuses
  <2> HIDE DEF f
  <2> QED
    BY <1>2, <2>1, <2>2, <2>3, JobStep DEF Enqueue, agentSide
<1> QED
  BY <1>3, <1>4

LEMMA AnswerInv == ASSUME Inv, NEW c \in Callers, Answer(c) PROVE Inv'
<1>1. frame[c].job \in Jobs
  BY ClientIsSound DEF Sound, Answer, At
<1>2. /\ UNCHANGED <<bridge, phase, late, jobs, holders, work, worked, faults>>
      /\ frame' = [frame EXCEPT ![c] = Idle]
      /\ Sound(Idle, phase', worked')
  BY IdleSound DEF Answer, Return, agentSide
<1>3. /\ \A j \in Jobs : worked'[j] >= worked[j]
      /\ \A j \in Jobs : jobs'[j] = "done" => worked'[j] > 0
      /\ bridge' # NoBridge => phase' # "new"
  BY <1>2, StateIsTyped
<1>4. answered' \in SUBSET Jobs /\ \A j \in answered' : j \in answered \/ jobs[j] = "done"
  BY <1>1, StateIsTyped DEF Answer, TypeOK
<1> QED
  BY <1>2, <1>3, <1>4, ClientStep, StateIsTyped DEF TypeOK

LEMMA TimeoutInv == ASSUME Inv, NEW c \in Callers, Timeout(c) PROVE Inv'
  BY IdleSound, CallMoves DEF Timeout, Return

LEMMA NextInv == ASSUME Inv, [Next]_vars PROVE Inv'
<1>1. CASE UNCHANGED vars
  BY <1>1, OutsideStep, StateIsTyped DEF vars, TypeOK
<1>2. CASE Pair \/ Revoke \/ CodeExpires \/ GoesOffline \/ ServerCrash
  BY <1>2, PairInv, RevokeInv, CodeExpiresInv, GoesOfflineInv, ServerCrashInv
<1>3. ASSUME NEW a \in Agents,
             Configure(a) \/ ClaimRead(a) \/ HelloAuth(a) \/ PollAuth(a) \/ AgentCrash(a)
      PROVE  Inv'
  BY <1>3, ConfigureInv, ClaimReadInv, HelloAuthInv, PollAuthInv, AgentCrashInv
<1>4. ASSUME NEW a \in Agents, AgentStep(a) PROVE Inv'
  BY <1>4, ClaimSaveInv, HelloSaveInv, PollSaveInv, PollListInv, PollClaimInv,
     ExecuteInv, SubmitInv, SubmitSaveInv DEF AgentStep
<1>5. ASSUME NEW o \in Operators, AllowSave(o) \/ \E s \in SUBSET Actions : AllowRead(o, s)
      PROVE  Inv'
  BY <1>5, AllowSaveInv, AllowReadInv
<1>6. ASSUME NEW c \in Callers, CallerStep(c) \/ \E x \in Actions : Run(c, x) PROVE Inv'
  BY <1>6, EnqueueInv, AnswerInv, TimeoutInv, RunInv DEF CallerStep
<1> QED
  BY <1>1, <1>2, <1>3, <1>4, <1>5, <1>6 DEF Next

\* Every reachable state satisfies the invariant the proofs below rest on.
THEOREM BridgeInvariant == Spec => []Inv
<1> QED
  BY InitInv, NextInv, PTL DEF Spec

\* For any number of agents, callers and operators, however their calls, the
\* restarts and revoke overlap: the state is typed, and run_via_bridge answers
\* a caller only with a job that was carried out.
THEOREM BridgeSound == Spec => []BridgeIsSound
<1>1. Inv => BridgeIsSound
  BY DEF Inv, BridgeIsSound
<1> QED
  BY <1>1, BridgeInvariant, PTL

-----------------------------------------------------------------------------
(* What a step may do to the row.  Four saves, pair, revoke and time write    *)
(* it; every save writes back the snapshot its call holds.                    *)

Saves(x) == ClaimSave(x) \/ HelloSave(x) \/ PollSave(x)

LEMMA WhoWritesTheRow ==
    ASSUME Next, bridge' # bridge
    PROVE  \/ Pair \/ Revoke \/ GoesOffline
           \/ \E a \in Agents : Saves(a)
           \/ \E o \in Operators : AllowSave(o)
<1>1. CASE CodeExpires \/ ServerCrash
  BY <1>1 DEF CodeExpires, ServerCrash
<1>2. ASSUME NEW a \in Agents,
             Configure(a) \/ ClaimRead(a) \/ HelloAuth(a) \/ PollAuth(a) \/ AgentCrash(a)
      PROVE  FALSE
  BY <1>2 DEF Configure, ClaimRead, HelloAuth, PollAuth, AgentCrash
<1>3. ASSUME NEW a \in Agents, AgentStep(a) PROVE Saves(a)
  BY <1>3 DEF AgentStep, Saves, PollList, PollClaim, Execute, Submit, SubmitSave
<1>4. ASSUME NEW o \in Operators, NEW s \in SUBSET Actions, AllowRead(o, s) PROVE FALSE
  BY <1>4 DEF AllowRead
<1>5. ASSUME NEW c \in Callers, CallerStep(c) \/ \E x \in Actions : Run(c, x) PROVE FALSE
  BY <1>5 DEF CallerStep, Enqueue, Answer, Timeout, Run
<1> QED
  BY <1>1, <1>2, <1>3, <1>4, <1>5 DEF Next

LEMMA SavesHoldRows ==
    ASSUME Inv, NEW x \in Clients, Saves(x) \/ AllowSave(x)
    PROVE  frame[x].snap # NoBridge
  BY SnapIsRow DEF Saves, ClaimSave, HelloSave, PollSave, AllowSave, At, Saving

\* revoke kills the token for good once no call holds a snapshot: no later
\* step brings the row back.
THEOREM RevokedStaysDead == Spec => DeadWithoutSnapshots
<1>1. ASSUME Inv, Next, phase = "revoked", bridge = NoBridge,
             \A x \in Clients : frame[x].snap = NoBridge
      PROVE  bridge' = NoBridge
  <2> SUFFICES ASSUME bridge' # bridge PROVE FALSE
    BY <1>1
  <2>1. ~ Pair /\ ~ Revoke /\ ~ GoesOffline
    BY <1>1 DEF Pair, Revoke, GoesOffline
  <2>2. \A x \in Clients : ~ Saves(x) /\ ~ AllowSave(x)
    BY <1>1, SavesHoldRows
  <2> QED
    BY <1>1, <2>1, <2>2, WhoWritesTheRow
<1>2. Inv /\ [Next]_vars =>
        [phase = "revoked" /\ bridge = NoBridge
           /\ (\A x \in Clients : frame[x].snap = NoBridge)
         => bridge' = NoBridge]_bridge
  BY <1>1 DEF vars
<1> QED
  BY <1>2, BridgeInvariant, PTL DEF Spec, DeadWithoutSnapshots

\* While the row is there its allowlist changes only to what an operator saves,
\* or back to what a call in progress read: no check-in invents one.
THEOREM AllowlistKept == Spec => AllowlistStands
<1>1. ASSUME Inv, Next, bridge # NoBridge, bridge' # NoBridge,
             bridge'.allowed # bridge.allowed
      PROVE  \/ \E o \in Operators : AllowSave(o)
             \/ \E x \in Clients : /\ frame[x].snap # NoBridge
                                   /\ frame[x].snap.allowed = bridge'.allowed
  <2>1. ~ Pair /\ ~ Revoke
    BY <1>1, StateIsTyped DEF Pair, Revoke
  <2>2. ~ GoesOffline
    BY <1>1, StateIsTyped DEF GoesOffline, Row
  <2>3. ASSUME NEW a \in Agents, Saves(a)
        PROVE  frame[a].snap # NoBridge /\ frame[a].snap.allowed = bridge'.allowed
    <3>1. frame[a].snap # NoBridge /\ frame[a].snap \in Row
      BY <1>1, <2>3, SavesHoldRows, ClientIsSound DEF Frame
    <3>2. bridge' = Seen(a) \/ bridge' = [frame[a].snap EXCEPT !.claimable = FALSE]
      BY <2>3 DEF Saves, ClaimSave, HelloSave, PollSave
    <3> QED
      BY <3>1, <3>2 DEF Seen, Row
  <2> QED
    BY <1>1, <2>1, <2>2, <2>3, WhoWritesTheRow
<1>2. Inv /\ [Next]_vars =>
        [bridge # NoBridge /\ bridge' # NoBridge /\ bridge'.allowed # bridge.allowed =>
           \/ \E o \in Operators : AllowSave(o)
           \/ \E x \in Clients : frame[x].snap # NoBridge /\ frame[x].snap.allowed = bridge'.allowed]_bridge
  BY <1>1 DEF vars
<1> QED
  BY <1>2, BridgeInvariant, PTL DEF Spec, AllowlistStands

-----------------------------------------------------------------------------
(* One agent, which makes its calls in turn.  A job is in one place at a time: *)
(* waiting and unworked while a poll lists it, running and unworked once it is *)
(* handed over, running and gone from the agent's hands when its result is     *)
(* about to be submitted.                                                      *)

OneAgent == \A a, b \in Agents : a = b

Listed(a) ==
    \A j \in frame[a].todo : jobs[j] = "pending"
Handed(a) ==
    \A j \in frame[a].claimed \cup work[a] : jobs[j] = "running" /\ worked[j] = 0
Submitted(a) ==
    frame[a].pc \in Submitting =>
        /\ jobs[frame[a].job] = "running"
        /\ frame[a].job \notin work[a]
        /\ frame[a].todo = {} /\ frame[a].claimed = {}
Resting(a) ==
    frame[a].pc # "poll_claim" => frame[a].todo = {} /\ frame[a].claimed = {}

Unworked == \A j \in Jobs : jobs[j] \in {"absent", "pending"} => worked[j] = 0

OneInv ==
    /\ \A a \in Agents : Listed(a) /\ Handed(a) /\ Submitted(a) /\ Resting(a)
    /\ Unworked /\ WorkedAtMostOnce

\* A settled job keeps its result in this step.
JobsStay == \A j \in Jobs : jobs[j] \in {"done", "failed"} =>
                                jobs'[j] \in {"done", "failed"}

(* A step that neither moves a job nor the work: what it owes is that the     *)
(* agent's call holds no job it did not hold.                                 *)
LEMMA OneStays ==
    ASSUME Inv, OneInv, UNCHANGED <<jobs, worked>>,
           \A a \in Agents : work'[a] \subseteq work[a],
           \A a \in Agents : \/ frame'[a] = frame[a]
                             \/ /\ frame'[a].todo = {} /\ frame'[a].claimed = {}
                                /\ frame'[a].pc \notin Submitting
                             \/ /\ frame'[a].pc \in Submitting /\ frame[a].pc \in Submitting
                                /\ frame'[a].job = frame[a].job
                                /\ frame'[a].todo = {} /\ frame'[a].claimed = {}
    PROVE  OneInv' /\ JobsStay
<1>1. ASSUME NEW a \in Agents
      PROVE  Listed(a)' /\ Handed(a)' /\ Submitted(a)' /\ Resting(a)'
  <2>1. Listed(a) /\ Handed(a) /\ Submitted(a) /\ Resting(a)
    BY DEF OneInv
  <2>2. work'[a] \subseteq work[a]
    OBVIOUS
  <2> QED
    BY <2>1, <2>2 DEF Listed, Handed, Submitted, Resting
<1>2. Unworked' /\ WorkedAtMostOnce' /\ JobsStay
  BY DEF OneInv, Unworked, WorkedAtMostOnce, JobsStay
<1> QED
  BY <1>1, <1>2 DEF OneInv

\* A client's frame after its step, when all other frames stay.
LEMMA FrameAfter ==
    ASSUME Inv, NEW x \in Clients, NEW f, frame' = [frame EXCEPT ![x] = f]
    PROVE  \A y \in Clients : frame'[y] = IF y = x THEN f ELSE frame[y]
  BY StateIsTyped DEF TypeOK

LEMMA BeginsOne ==
    ASSUME Inv, OneInv, NEW x \in Clients,
           \A y \in Clients : y # x => frame'[y] = frame[y],
           frame'[x].todo = {} /\ frame'[x].claimed = {} /\ frame'[x].pc \notin Submitting,
           UNCHANGED <<jobs, work, worked>>
    PROVE  OneInv' /\ JobsStay
  BY OneStays

\* The calls that touch no job.
LEMMA QuietOne ==
    ASSUME Inv, OneInv,
           \/ Pair \/ Revoke \/ CodeExpires \/ GoesOffline \/ ServerCrash
           \/ \E a \in Agents : \/ Configure(a) \/ ClaimRead(a) \/ HelloAuth(a) \/ PollAuth(a)
                                \/ Saves(a) \/ AgentCrash(a)
           \/ \E o \in Operators : AllowSave(o) \/ \E s \in SUBSET Actions : AllowRead(o, s)
           \/ \E c \in Callers : Answer(c) \/ Timeout(c) \/ \E x \in Actions : Run(c, x)
    PROVE  OneInv' /\ JobsStay
<1>1. CASE Pair \/ Revoke \/ CodeExpires \/ GoesOffline \/ \E a \in Agents : Configure(a)
  <2>1. UNCHANGED <<jobs, worked, work, frame>>
    BY <1>1 DEF Pair, Revoke, CodeExpires, GoesOffline, Configure, agentSide
  <2> QED
    BY <2>1, OneStays
<1>2. CASE ServerCrash
  <2>1. UNCHANGED <<jobs, worked, work>> /\ \A a \in Agents : frame'[a] = Idle
    BY <1>2 DEF ServerCrash, agentSide
  <2> QED
    BY <2>1, OneStays DEF Idle, Submitting
<1>3. ASSUME NEW a \in Agents, ClaimRead(a) \/ HelloAuth(a) \/ PollAuth(a) \/ Saves(a)
      PROVE  OneInv' /\ JobsStay
  <2>1. CASE ClaimRead(a) \/ HelloAuth(a) \/ PollAuth(a) \/ ClaimSave(a) \/ HelloSave(a)
    <3>1. CASE ClaimSave(a) \/ HelloSave(a)
      <4>1. \A y \in Clients : frame'[y] = IF y = a THEN Idle ELSE frame[y]
        BY <3>1, FrameAfter DEF ClaimSave, HelloSave, Return
      <4>2. UNCHANGED <<jobs, work, worked>>
        BY <3>1 DEF ClaimSave, HelloSave, agentSide
      <4> QED
        BY <4>1, <4>2, BeginsOne DEF Idle, Submitting
    <3>2. CASE ClaimRead(a) \/ HelloAuth(a) \/ PollAuth(a)
      <4> PICK step \in Saving : Begin(a, step)
        BY <3>2 DEF ClaimRead, HelloAuth, PollAuth, Saving
      <4> DEFINE f == [Idle EXCEPT !.pc = step, !.snap = bridge]
      <4>1. \A y \in Clients : frame'[y] = IF y = a THEN f ELSE frame[y]
        BY FrameAfter DEF Begin
      <4>2. f.todo = {} /\ f.claimed = {} /\ f.pc \notin Submitting
        BY DEF Idle, Submitting, Saving
      <4>3. UNCHANGED <<jobs, work, worked>>
        BY <3>2 DEF ClaimRead, HelloAuth, PollAuth, agentSide
      <4> HIDE DEF f
      <4> QED
        BY <4>1, <4>2, <4>3, BeginsOne
    <3> QED
      BY <2>1, <3>1, <3>2
  <2>2. CASE PollSave(a)
    <3> DEFINE f == [frame[a] EXCEPT !.pc = "poll_list", !.snap = NoBridge]
    <3>1. frame[a] \in Frame /\ frame[a].todo = {} /\ frame[a].claimed = {}
      BY <2>2, ClientIsSound DEF PollSave, At, OneInv, Resting
    <3>2. f.todo = {} /\ f.claimed = {} /\ f.pc \notin Submitting
      BY <3>1 DEF Frame, Submitting
    <3>3. frame' = [frame EXCEPT ![a] = f]
      BY <2>2, StateIsTyped DEF PollSave, TypeOK
    <3>4. UNCHANGED <<jobs, work, worked>>
      BY <2>2 DEF PollSave, agentSide
    <3> HIDE DEF f
    <3>5. \A y \in Clients : frame'[y] = IF y = a THEN f ELSE frame[y]
      BY <3>3, FrameAfter
    <3> QED
      BY <3>2, <3>4, <3>5, BeginsOne
  <2> QED
    BY <1>3, <2>1, <2>2 DEF Saves
<1>4. ASSUME NEW a \in Agents, AgentCrash(a) PROVE OneInv' /\ JobsStay
  <2>1. \A y \in Clients : frame'[y] = IF y = a THEN Idle ELSE frame[y]
    BY <1>4, FrameAfter DEF AgentCrash, Return
  <2>2. UNCHANGED <<jobs, worked>> /\ \A b \in Agents : work'[b] \subseteq work[b]
    BY <1>4, StateIsTyped DEF AgentCrash, TypeOK
  <2> QED
    BY <2>1, <2>2, OneStays DEF Idle, Submitting
<1>5. ASSUME NEW o \in Operators, AllowSave(o) \/ \E s \in SUBSET Actions : AllowRead(o, s)
      PROVE  OneInv' /\ JobsStay
  <2>1. CASE AllowSave(o)
    <3>1. \A y \in Clients : frame'[y] = IF y = o THEN Idle ELSE frame[y]
      BY <2>1, FrameAfter DEF AllowSave, Return
    <3> QED
      BY <2>1, <3>1, BeginsOne DEF AllowSave, agentSide, Idle, Submitting
  <2>2. ASSUME NEW s \in SUBSET Actions, AllowRead(o, s) PROVE OneInv' /\ JobsStay
    <3> DEFINE f == [Idle EXCEPT !.pc = "allow_save", !.snap = bridge, !.allowed = s]
    <3>1. \A y \in Clients : frame'[y] = IF y = o THEN f ELSE frame[y]
      BY <2>2, FrameAfter DEF AllowRead
    <3>2. f.todo = {} /\ f.claimed = {} /\ f.pc \notin Submitting
      BY DEF Idle, Submitting
    <3> HIDE DEF f
    <3> QED
      BY <2>2, <3>1, <3>2, BeginsOne DEF AllowRead, agentSide
  <2> QED
    BY <1>5, <2>1, <2>2
<1>6. ASSUME NEW c \in Callers, Answer(c) \/ Timeout(c) \/ \E x \in Actions : Run(c, x)
      PROVE  OneInv' /\ JobsStay
  <2>1. CASE Answer(c) \/ Timeout(c)
    <3>1. \A y \in Clients : frame'[y] = IF y = c THEN Idle ELSE frame[y]
      BY <2>1, FrameAfter DEF Answer, Timeout, Return
    <3> QED
      BY <2>1, <3>1, BeginsOne DEF Answer, Timeout, agentSide, Idle, Submitting
  <2>2. ASSUME NEW x \in Actions, Run(c, x) PROVE OneInv' /\ JobsStay
    <3> DEFINE f == [Idle EXCEPT !.pc = "enqueue", !.action = x]
    <3>1. \A y \in Clients : frame'[y] = IF y = c THEN f ELSE frame[y]
      BY ZenonT(60), <2>2, FrameAfter DEF Run
    <3>2. f.todo = {} /\ f.claimed = {} /\ f.pc \notin Submitting
      BY DEF Idle, Submitting
    <3> HIDE DEF f
    <3> QED
      BY ZenonT(60), <2>2, <3>1, <3>2, BeginsOne DEF Run, agentSide
  <2> QED
    BY <1>6, <2>1, <2>2
<1> QED
  BY <1>1, <1>2, <1>3, <1>4, <1>5, <1>6

LEMMA PollListOne ==
    ASSUME Inv, OneInv, NEW a \in Agents, PollList(a) PROVE OneInv' /\ JobsStay
<1>1. /\ frame[a] \in Frame /\ frame[a].claimed = {}
      /\ Handed(a)
  BY ClientIsSound DEF PollList, At, OneInv, Resting
<1>2. /\ frame'[a].todo = {j \in Jobs : jobs[j] = "pending"}
      /\ frame'[a].claimed = {} /\ frame'[a].pc = "poll_claim"
      /\ \A y \in Clients : y # a => frame'[y] = frame[y]
  BY <1>1, StateIsTyped DEF PollList, TypeOK, Frame
<1>3. UNCHANGED <<jobs, work, worked>>
  BY DEF PollList, agentSide
<1>4. ASSUME NEW b \in Agents
      PROVE  Listed(b)' /\ Handed(b)' /\ Submitted(b)' /\ Resting(b)'
  <2>1. Listed(b) /\ Handed(b) /\ Submitted(b) /\ Resting(b)
    BY DEF OneInv
  <2> QED
    BY <1>2, <1>3, <2>1 DEF Listed, Handed, Submitted, Resting, Submitting
<1>5. Unworked' /\ WorkedAtMostOnce' /\ JobsStay
  BY <1>3 DEF OneInv, Unworked, WorkedAtMostOnce, JobsStay
<1> QED
  BY <1>4, <1>5 DEF OneInv

LEMMA PollClaimOne ==
    ASSUME OneAgent, Inv, OneInv, NEW a \in Agents, PollClaim(a)
    PROVE  OneInv' /\ JobsStay
<1>1. /\ frame[a] \in Frame /\ frame[a].pc = "poll_claim"
      /\ Listed(a) /\ Handed(a) /\ Submitted(a) /\ Resting(a)
      /\ UNCHANGED worked
  BY ClientIsSound DEF PollClaim, At, OneInv
<1>2. \A b \in Agents : b = a
  BY DEF OneAgent
<1>3. CASE \E j \in frame[a].todo :
             /\ jobs' = [jobs EXCEPT ![j] = "running"]
             /\ frame' = [frame EXCEPT ![a].todo = @ \ {j},
                                       ![a].claimed = @ \cup {j}]
             /\ UNCHANGED work
  <2> PICK j \in frame[a].todo :
        /\ jobs' = [jobs EXCEPT ![j] = "running"]
        /\ frame' = [frame EXCEPT ![a].todo = @ \ {j}, ![a].claimed = @ \cup {j}]
        /\ UNCHANGED work
    BY <1>3
  <2>1. j \in Jobs /\ jobs[j] = "pending" /\ worked[j] = 0
    BY <1>1 DEF Frame, Listed, OneInv, Unworked
  <2>2. /\ frame'[a].todo = frame[a].todo \ {j}
        /\ frame'[a].claimed = frame[a].claimed \cup {j}
        /\ frame'[a].pc = "poll_claim"
    BY <1>1, StateIsTyped DEF TypeOK, Frame
  <2>3. /\ \A i \in Jobs : jobs'[i] = IF i = j THEN "running" ELSE jobs[i]
        /\ frame[a].todo \subseteq Jobs /\ frame[a].claimed \subseteq Jobs /\ work[a] \subseteq Jobs
    BY <1>1, StateIsTyped DEF TypeOK, Frame
  <2>4. Listed(a)' /\ Handed(a)' /\ Submitted(a)' /\ Resting(a)'
    BY ZenonT(60), <1>1, <2>1, <2>2, <2>3 DEF Listed, Handed, Submitted, Resting, Submitting
  <2>5. Unworked' /\ WorkedAtMostOnce' /\ JobsStay
    BY <1>1, <2>1, <2>3 DEF OneInv, Unworked, WorkedAtMostOnce, JobsStay
  <2> QED
    BY <1>2, <2>4, <2>5 DEF OneInv
<1>4. CASE /\ frame[a].todo = {}
           /\ work' = [work EXCEPT ![a] = @ \cup frame[a].claimed]
           /\ Return(a)
           /\ UNCHANGED jobs
  <2>1. frame'[a] = Idle /\ work'[a] = work[a] \cup frame[a].claimed
    BY <1>4, StateIsTyped DEF TypeOK, Return
  <2>2. Listed(a)' /\ Handed(a)' /\ Submitted(a)' /\ Resting(a)'
    BY <1>1, <1>4, <2>1 DEF Listed, Handed, Submitted, Resting, Submitting, Idle
  <2>3. Unworked' /\ WorkedAtMostOnce' /\ JobsStay
    BY <1>1, <1>4 DEF OneInv, Unworked, WorkedAtMostOnce, JobsStay
  <2> QED
    BY <1>2, <2>2, <2>3 DEF OneInv
<1> QED
  BY <1>3, <1>4 DEF PollClaim

LEMMA ExecuteOne ==
    ASSUME OneAgent, Inv, OneInv, NEW a \in Agents, Execute(a)
    PROVE  OneInv' /\ JobsStay
<1> PICK j \in work[a], v \in {"done", "failed"} :
      /\ work' = [work EXCEPT ![a] = @ \ {j}]
      /\ worked' = [worked EXCEPT ![j] = IF v = "done" THEN @ + 1 ELSE @]
      /\ frame' = [frame EXCEPT ![a] = [Idle EXCEPT !.pc = "submit",
                                           !.job = j, !.verdict = v]]
  BY DEF Execute
<1>1. Handed(a) /\ work[a] \subseteq Jobs
  BY StateIsTyped DEF TypeOK, OneInv
<1>2. j \in Jobs /\ jobs[j] = "running" /\ worked[j] = 0
  BY <1>1 DEF Handed
<1>3. \A b \in Agents : b = a
  BY DEF OneAgent
<1>4. /\ work'[a] = work[a] \ {j}
      /\ frame'[a].todo = {} /\ frame'[a].claimed = {}
      /\ frame'[a].pc = "submit" /\ frame'[a].job = j
  BY StateIsTyped DEF TypeOK, Idle
<1>5. /\ worked'[j] \in {0, 1}
      /\ \A i \in Jobs : i # j => worked'[i] = worked[i]
  BY <1>2, StateIsTyped DEF TypeOK
<1>6. UNCHANGED jobs
  BY DEF Execute
<1>7. Listed(a)' /\ Handed(a)' /\ Submitted(a)' /\ Resting(a)'
  BY <1>1, <1>2, <1>4, <1>5, <1>6 DEF Listed, Handed, Submitted, Resting, Submitting
<1>8. Unworked' /\ WorkedAtMostOnce' /\ JobsStay
  BY <1>2, <1>5, <1>6 DEF OneInv, Unworked, WorkedAtMostOnce, JobsStay
<1> QED
  BY <1>3, <1>7, <1>8 DEF OneInv

LEMMA SubmitOne ==
    ASSUME Inv, OneInv, NEW a \in Agents, Submit(a) PROVE OneInv' /\ JobsStay
<1>1. /\ frame[a] \in Frame /\ frame[a].pc = "submit"
      /\ frame[a].todo = {} /\ frame[a].claimed = {}
  BY ClientIsSound DEF Submit, At, OneInv, Resting
<1>2. UNCHANGED <<jobs, work, worked>> /\ (Goto(a, "submit_save") \/ Return(a))
  BY DEF Submit, agentSide
<1>3. \A y \in Clients : y # a => frame'[y] = frame[y]
  BY <1>2, StateIsTyped DEF TypeOK, Goto, Return
<1>4. CASE Goto(a, "submit_save")
  <2>1. /\ frame'[a].pc = "submit_save" /\ frame'[a].job = frame[a].job
        /\ frame'[a].todo = {} /\ frame'[a].claimed = {}
    BY <1>1, <1>4, StateIsTyped DEF TypeOK, Goto, Frame
  <2> QED
    BY <1>1, <1>2, <1>3, <2>1, OneStays DEF Submitting
<1>5. CASE Return(a)
  <2>1. frame'[a] = Idle
    BY <1>5, StateIsTyped DEF TypeOK, Return
  <2> QED
    BY <1>2, <1>3, <2>1, BeginsOne DEF Idle, Submitting
<1> QED
  BY <1>2, <1>4, <1>5

LEMMA SubmitSaveOne ==
    ASSUME OneAgent, Inv, OneInv, NEW a \in Agents, SubmitSave(a)
    PROVE  OneInv' /\ JobsStay
<1> DEFINE j == frame[a].job
<1>1. /\ j \in Jobs /\ frame[a].verdict \in {"done", "failed"}
      /\ jobs[j] = "running" /\ j \notin work[a]
      /\ Handed(a) /\ Listed(a)
  BY ClientIsSound DEF Sound, Frame, SubmitSave, At, Submitting, OneInv, Submitted
<1>2. \A b \in Agents : b = a
  BY DEF OneAgent
<1>3. /\ frame'[a] = Idle /\ UNCHANGED <<work, worked>> /\ work[a] \subseteq Jobs
      /\ \A i \in Jobs : jobs'[i] = IF i = j THEN frame[a].verdict ELSE jobs[i]
  BY <1>1, StateIsTyped DEF TypeOK, SubmitSave, Return, agentSide
<1> HIDE DEF j
<1>4. Listed(a)' /\ Handed(a)' /\ Submitted(a)' /\ Resting(a)'
  BY <1>1, <1>3 DEF Listed, Handed, Submitted, Resting, Submitting, Idle
<1>5. Unworked' /\ WorkedAtMostOnce' /\ JobsStay
  BY <1>1, <1>3 DEF OneInv, Unworked, WorkedAtMostOnce, JobsStay
<1> QED
  BY <1>2, <1>4, <1>5 DEF OneInv

LEMMA EnqueueOne ==
    ASSUME Inv, OneInv, NEW c \in Callers, Enqueue(c) PROVE OneInv' /\ JobsStay
<1>1. UNCHANGED <<work, worked>>
  BY DEF Enqueue, agentSide
<1>2. CASE bridge = NoBridge
  <2>1. /\ \A y \in Clients : frame'[y] = IF y = c THEN Idle ELSE frame[y]
        /\ UNCHANGED jobs
    BY <1>2, StateIsTyped DEF TypeOK, Enqueue, Return
  <2> QED
    BY <1>1, <2>1, BeginsOne DEF Idle, Submitting
<1>3. CASE bridge # NoBridge
  <2> PICK j \in Jobs :
        /\ jobs[j] = "absent"
        /\ jobs' = [jobs EXCEPT ![j] = "pending"]
        /\ frame' = [frame EXCEPT ![c].pc = "wait", ![c].job = j]
    BY <1>3 DEF Enqueue
  <2>1. /\ frame'[c].pc = "wait"
        /\ frame'[c].todo = frame[c].todo /\ frame'[c].claimed = frame[c].claimed
        /\ \A y \in Clients : y # c => frame'[y] = frame[y]
    BY StateIsTyped, ClientIsSound DEF TypeOK, Frame
  <2>2. \A i \in Jobs : jobs'[i] = IF i = j THEN "pending" ELSE jobs[i]
    BY StateIsTyped DEF TypeOK
  <2>3. frame[c].pc = "enqueue"
    BY DEF Enqueue, At
  <2>4. ASSUME NEW a \in Agents
        PROVE  Listed(a)' /\ Handed(a)' /\ Submitted(a)' /\ Resting(a)'
    <3>1. /\ Listed(a) /\ Handed(a) /\ Submitted(a) /\ Resting(a)
          /\ frame[a] \in Frame /\ work[a] \subseteq Jobs
      BY StateIsTyped, ClientIsSound DEF TypeOK, OneInv
    <3>2. /\ frame[a].todo \subseteq Jobs /\ frame[a].claimed \subseteq Jobs
          /\ frame[a].pc \in Submitting => frame[a].job \in Jobs
      BY <3>1, ClientIsSound DEF Frame, Sound
    <3>3. Listed(a)'
      BY <2>1, <2>2, <3>1, <3>2 DEF Listed
    <3>4. Handed(a)'
      BY <1>1, <2>1, <2>2, <3>1, <3>2 DEF Handed
    <3>5. Submitted(a)' /\ Resting(a)'
      BY <1>1, <2>1, <2>2, <2>3, <3>1, <3>2 DEF Submitted, Resting, Submitting
    <3> QED
      BY <3>3, <3>4, <3>5
  <2>5. Unworked' /\ WorkedAtMostOnce' /\ JobsStay
    BY <1>1, <2>2 DEF OneInv, Unworked, WorkedAtMostOnce, JobsStay
  <2> QED
    BY <2>4, <2>5 DEF OneInv
<1> QED
  BY <1>2, <1>3

LEMMA NextOne ==
    ASSUME OneAgent, Inv, OneInv, Next PROVE OneInv' /\ JobsStay
<1>1. ASSUME NEW a \in Agents, AgentStep(a) PROVE OneInv' /\ JobsStay
  BY <1>1, QuietOne, PollListOne, PollClaimOne, ExecuteOne, SubmitOne, SubmitSaveOne
     DEF AgentStep, Saves
<1>2. ASSUME NEW c \in Callers, CallerStep(c) PROVE OneInv' /\ JobsStay
  BY <1>2, QuietOne, EnqueueOne DEF CallerStep
<1> QED
  BY <1>1, <1>2, QuietOne DEF Next

LEMMA OneAgentInvariant == ASSUME OneAgent PROVE Spec => []OneInv
<1>1. Init => OneInv
  BY DEF Init, OneInv, Listed, Handed, Submitted, Resting, Submitting, Idle,
     Unworked, WorkedAtMostOnce
<1>2. ASSUME Inv, OneInv, [Next]_vars PROVE OneInv'
  <2>1. CASE UNCHANGED vars
    <3>1. UNCHANGED <<jobs, worked, work, frame>>
      BY <2>1 DEF vars
    <3> QED
      BY <1>2, <3>1, OneStays
  <2> QED
    BY <1>2, <2>1, NextOne
<1> QED
  BY <1>1, <1>2, BridgeInvariant, PTL DEF Spec

\* With one agent the queue is at-most-once: however its polls, submits and
\* crashes interleave, no job is carried out twice.
THEOREM OneAgentWorksOnce == ASSUME OneAgent PROVE Spec => []WorkedAtMostOnce
<1>1. OneInv => WorkedAtMostOnce
  BY DEF OneInv
<1> QED
  BY <1>1, OneAgentInvariant, PTL

\* With one agent a settled job keeps its result: no poll saves it back.
THEOREM OneAgentSettles == ASSUME OneAgent PROVE Spec => SettledJobStays
<1>1. ASSUME Inv, OneInv, [Next]_vars
      PROVE  [\A j \in Jobs : jobs[j] \in {"done", "failed"} =>
                           jobs'[j] \in {"done", "failed"}]_jobs
  BY <1>1, NextOne DEF vars, JobsStay
<1> QED
  BY <1>1, BridgeInvariant, OneAgentInvariant, PTL DEF Spec, SettledJobStays

\* With one agent neither a result nor an edit of the allowlist is undone.
THEOREM OneAgentUndoesNothing == ASSUME OneAgent PROVE Spec => NothingComesUndone
  BY OneAgentSettles, AllowlistKept, PTL DEF NothingComesUndone
=============================================================================
