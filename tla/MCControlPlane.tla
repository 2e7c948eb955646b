--------------------------- MODULE MCControlPlane ---------------------------
(* The control plane's parts in one run.  They share no state, so each       *)
(* behaviour moves one of them: the topic.                                   *)
EXTENDS AgentLifecycle, OperatorSessions, RateLimiter, ToolGovernance,
        KnowledgeStore, AgentHierarchy, ClientAccounts, Operations, SharedCache,
        Compliance

CONSTANTS m1, s1

VARIABLE topic

(* Every agent lives in one tenant; the other is a caller's wrong guess.     *)
MCHome == [a \in Agents |-> CHOOSE t \in Tenants : TRUE]
MCAgentHome == [a \in BoundAgents |-> CHOOSE x \in Products : TRUE]

(* The same two threads serve every part; the limiter has a third.           *)
MCSymmetry == Permutations(Callers)

(* Refresh tokens and access tokens touch in nothing but their operator.     *)
SessionSteps ==
    \/ \E o \in Operators : CreateOperator(o, "admin")
    \/ \E h \in Handlers, o \in Operators :
        (\E v \in BOOLEAN : LoadOperator(h, o, "active", v)) \/ Login(h, o, "old")
    \/ \E h \in Handlers, s \in DOMAIN sessions : Refresh(h, s) \/ Logout(h, s)
    \/ \E h \in Handlers :
        UpdateOperator(h) \/ Identify(h) \/ Sign(h) \/ CheckOperator(h)
        \/ Rotate(h) \/ RevokeSession(h) \/ AbortHandler(h)

RoleSteps ==
    \/ \E o \in Operators, r \in RowRoles : CreateOperator(o, r)
    \/ \E h \in Handlers, o \in Operators :
        \/ \E c \in {"role", "password"} : \E v \in Columns[c] : LoadOperator(h, o, c, v)
        \/ \E p \in Passwords : Login(h, o, p)
    \/ \E h \in Handlers : UpdateOperator(h) \/ Identify(h) \/ (Len(sessions) < 2 /\ Sign(h))
    \/ \E t \in tokens : Command(t)
    \/ AuthTick

LinkSteps ==
    \/ \E parent, child \in Members : AddLink(parent, child)
    \/ \E agent \in Members : GetHierarchy(agent) \/ VisitChild(agent)
    \/ LeaveNode
HookSteps == \E op \in Operations, lets \in SUBSET Members : RegisterValidator(op, lets)

MCTokens ==
    {[kid |-> k, key |-> k, iss |-> "idp", valid |-> TRUE, subject |-> TRUE] : k \in Kids}
    \cup {[kid |-> Void, key |-> m1, iss |-> "idp", valid |-> TRUE, subject |-> TRUE]}
Configured == [on |-> TRUE, discovery |-> TRUE, client |-> TRUE, issuers |-> {}]
MCSsoSettings ==
    {Configured, [Configured EXCEPT !.on = FALSE], [Configured EXCEPT !.discovery = FALSE],
     [Configured EXCEPT !.client = FALSE], [Configured EXCEPT !.issuers = {"other"}]}
opsVars == <<backupVars, probeVars>>

LifecycleIdle == UNCHANGED vars
AuthIdle == UNCHANGED authVars
LimiterIdle == UNCHANGED limiterVars
GovIdle == UNCHANGED govVars
KnowledgeIdle == UNCHANGED knowledgeVars
HierarchyIdle == UNCHANGED hierarchyVars
ClientsIdle == UNCHANGED clientVars
OpsIdle == UNCHANGED opsVars
CacheIdle == UNCHANGED cacheVars

EvidenceIdle == UNCHANGED <<signOnVars, complianceVars>>
CoreIdle == LifecycleIdle /\ AuthIdle /\ LimiterIdle /\ GovIdle
RestIdle == KnowledgeIdle /\ HierarchyIdle /\ ClientsIdle /\ OpsIdle /\ CacheIdle

Topics == {"lifecycle", "sessions", "roles", "limiter", "tools", "skills", "records",
           "links", "hooks", "accounts", "subscriptions", "backup", "probe", "cache", "signon",
           "export", "bundle", "report"}

MCInit ==
    /\ Init /\ AuthInit /\ LimiterInit /\ GovInit /\ KnowledgeInit /\ HierarchyInit
    /\ ClientsInit /\ OperationsInit /\ CacheInit /\ SignOnInit /\ ComplianceInit
    /\ topic \in Topics
    /\ idp = [uri |-> s1, keys |-> {m1}]
    /\ IF topic = "signon" THEN sso = Configured <=> moves = 0
       ELSE sso = Configured /\ moves = 0

CoreSteps ==
    \/ topic = "lifecycle" /\ Next /\ AuthIdle /\ LimiterIdle /\ GovIdle
    \/ topic = "sessions" /\ SessionSteps /\ LifecycleIdle /\ LimiterIdle /\ GovIdle
    \/ topic = "roles" /\ RoleSteps /\ LifecycleIdle /\ LimiterIdle /\ GovIdle
    \/ topic = "limiter" /\ LimiterNext /\ LifecycleIdle /\ AuthIdle /\ GovIdle
    \/ topic = "tools" /\ GovNext /\ LifecycleIdle /\ AuthIdle /\ LimiterIdle

RestSteps ==
    \/ /\ \/ topic = "skills" /\ SkillSteps
          \/ topic = "records" /\ RecordSteps
       /\ HierarchyIdle /\ ClientsIdle /\ OpsIdle /\ CacheIdle
    \/ /\ \/ topic = "links" /\ LinkSteps
          \/ topic = "hooks" /\ HookSteps
       /\ KnowledgeIdle /\ ClientsIdle /\ OpsIdle /\ CacheIdle
    \/ /\ \/ topic = "accounts" /\ AccountSteps
          \/ topic = "subscriptions" /\ SubscriptionSteps
       /\ KnowledgeIdle /\ HierarchyIdle /\ OpsIdle /\ CacheIdle
    \/ /\ \/ topic = "backup" /\ BackupNext /\ UNCHANGED probeVars
          \/ topic = "probe" /\ ProbeNext /\ UNCHANGED backupVars
       /\ KnowledgeIdle /\ HierarchyIdle /\ ClientsIdle /\ CacheIdle
    \/ topic = "cache" /\ CacheNext /\ KnowledgeIdle /\ HierarchyIdle /\ ClientsIdle /\ OpsIdle

EvidenceSteps ==
    \/ topic = "signon" /\ SignOnNext /\ UNCHANGED complianceVars
    \/ topic = "export" /\ ExportNext /\ UNCHANGED <<signOnVars, bundleVars, manifest>>
    \/ topic = "bundle" /\ BundleNext /\ UNCHANGED <<signOnVars, exportVars, manifest>>
    \/ topic = "report" /\ Report /\ UNCHANGED <<signOnVars, exportVars, bundleVars>>

MCNext ==
    /\ UNCHANGED topic
    /\ \/ CoreSteps /\ RestIdle /\ EvidenceIdle
       \/ RestSteps /\ CoreIdle /\ EvidenceIdle
       \/ EvidenceSteps /\ CoreIdle /\ RestIdle

mcVars == <<topic, vars, authVars, limiterVars, govVars, knowledgeVars, hierarchyVars,
            clientVars, opsVars, cacheVars, signOnVars, complianceVars>>

MCSpec == MCInit /\ [][MCNext]_mcVars
=============================================================================
