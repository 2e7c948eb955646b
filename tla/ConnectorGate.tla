---------------------------- MODULE ConnectorGate ----------------------------
(* The catalog of connectors and the gate in front of it (connectors.py):    *)
(* what a connected tool may do, by which way a call leaves, what of it is   *)
(* receipted and what the governor's command center makes of the receipts.   *)
(* One call is one step: the races inside a call are WriteBack's, those      *)
(* about a tool's row and the block list are ConnectedTools'.                *)
EXTENDS DeskBlueprint, FiniteSets, Functions

CONSTANTS
    Slots,        \* places for a tool on the desk
    GateKeys,     \* what is connected in them
    MaxCalls,     \* bound: calls that reached the outside
    NoTool

ASSUME GateAssumption == MaxCalls \in Nat

VARIABLES
    wired,       \* the tool in each slot
    deployed,    \* what the operator has configured
    posture,     \* the organisation's policy: force, terminal
    stopped,     \* the kill switch
    filed,       \* writes waiting for a governor: <<slot, action>>
    reached,     \* history: how many calls got out, by the way they took
    log,         \* receipts, by what they say
    slipped      \* history: writes that ran unapproved though the policy forced approval

gateVars == <<wired, deployed, posture, stopped, filed, reached, log, slipped>>

-----------------------------------------------------------------------------
\* A connector: what it needs set up, what it declares, what its run() knows.  Every write
\* the catalog declares is direct: it is filed only when the policy forces it.
Connector(needs, reads, writes, served) ==
    [needs |-> needs, reads |-> reads, writes |-> writes, served |-> served]

WebConnectors ==
    [ web_read |-> Connector("", {"fetch"}, {}, {"fetch"}),
      http_json |-> Connector("", {"get"}, {}, {"get"}) ]

OutlookMail == Connector("microsoft", {"recent", "open"}, {"send"}, {"send", "recent", "open"})

\* _graph_connector knows the one action it is made with.
GraphConnector(a) == Connector("microsoft", {a}, {}, {a})

MicrosoftConnectors ==
    [ outlook_mail |-> OutlookMail, outlook_calendar |-> GraphConnector("upcoming"),
      onedrive |-> GraphConnector("recent"), excel |-> GraphConnector("read") ]

KnowledgeBase == Connector("microsoft", {"search"}, {}, {"search"})

Remedy == Connector("remedy", {"incidents", "open"}, {"set_status", "add_note"},
                    {"incidents", "open", "set_status", "add_note"})

ServiceNow == Connector("servicenow", {"incidents", "open"}, {"set_state", "add_note"},
                        {"incidents", "open", "set_state", "add_note"})

SqlRead == Connector("sql_read", {"query"}, {}, {"query"})

Webhook == Connector("", {}, {"notify"}, {"notify"})

OtherConnectors ==
    [ sharepoint_kb |-> KnowledgeBase, remedy |-> Remedy, servicenow |-> ServiceNow,
      sql_read |-> SqlRead, webhook |-> Webhook ]

BuiltInKeys == DOMAIN WebConnectors \cup DOMAIN MicrosoftConnectors \cup DOMAIN OtherConnectors

BuiltIn ==
    [k \in BuiltInKeys |->
        CASE k \in DOMAIN WebConnectors -> WebConnectors[k]
          [] k \in DOMAIN MicrosoftConnectors -> MicrosoftConnectors[k]
          [] k \in DOMAIN OtherConnectors -> OtherConnectors[k]]

\* The cloud apps, and which of them have a path to open a record, to read, to write.
CloudApps ==
    {"jira", "github", "gitlab", "pagerduty", "datadog", "grafana", "zoom", "teams",
     "bmc_helix", "freshservice", "zendesk", "topdesk", "servicedesk", "ivanti", "halo",
     "jira_sm", "easyvista", "solarwinds_sd", "zoho_desk", "slack", "confluence",
     "salesforce", "asana"}
OpenPath == CloudApps \ {"github", "gitlab", "datadog", "grafana", "slack", "salesforce", "asana"}
ReadPath == [ teams |-> {"messages"}, slack |-> {"messages"} ]
WritePath ==
    [ zoom |-> {"create_meeting"}, teams |-> {"post_message"}, slack |-> {"post_message"},
      freshservice |-> {"add_note"}, jira_sm |-> {"add_comment"} ]

PathsOf(table, k) == IF k \in DOMAIN table THEN table[k] ELSE {}

\* What a cloud app declares; what its specification can carry out.
CloudConnector(k) ==
    Connector("", {"list", "open"} \cup PathsOf(ReadPath, k), PathsOf(WritePath, k),
              {"list"} \cup (IF k \in OpenPath THEN {"open"} ELSE {})
                       \cup PathsOf(ReadPath, k) \cup PathsOf(WritePath, k))

Registry ==
    [k \in DOMAIN BuiltIn \cup CloudApps |->
        IF k \in DOMAIN BuiltIn THEN BuiltIn[k] ELSE CloudConnector(k)]

Declares(k, a) == k \in DOMAIN Registry /\ a \in Registry[k].reads \cup Registry[k].writes

-----------------------------------------------------------------------------
Ways == {"read", "direct", "cloud", "approved", "command", "preview"}
Entries == {"invoked", "direct", "executed", "failed", "ssh"}

Settings == {{}, {"microsoft", "remedy", "servicenow", "sql_read"}}

GateInit ==
    /\ wired = [s \in Slots |-> NoTool]
    /\ deployed \in Settings
    /\ posture = [force |-> FALSE, terminal |-> FALSE]
    /\ stopped = FALSE /\ filed = {} /\ slipped = {}
    /\ reached = [w \in Ways |-> 0] /\ log = [e \in Entries |-> 0]

\* What a built-in connector can need and find without a sign-in.
Configured == (deployed \cup {""}) \ {"microsoft"}

GoesOut(way) ==
    /\ SumFunction(reached) < MaxCalls
    /\ reached' = [reached EXCEPT ![way] = @ + 1]

\* A tool's row: its specification when it is a cloud app or a custom one, the bridge, the
\* account signed in, and whether the specification can open a record.
Tool(k, spec, bridge, account, opens) ==
    [key |-> k, spec |-> spec, bridge |-> bridge, account |-> account, opens |-> opens]

CustomTool(bridge, opens) == Tool("custom", TRUE, bridge, TRUE, opens)

\* connect(), a new row: a slot is used again once no request speaks of its old row.  A
\* cloud app runs from here whatever bridge is named; a bridge needs neither the operator's
\* settings nor a sign-in; a Microsoft tool waits for its sign-in.
WireTool(s, k, bridge, opens) ==
    /\ wired[s] = NoTool /\ \A f \in filed : f[1] # s
    /\ \/ k \in CloudApps /\ wired' = [wired EXCEPT ![s] = Tool(k, TRUE, FALSE, TRUE, k \in OpenPath)]
       \/ k = "custom" /\ wired' = [wired EXCEPT ![s] = CustomTool(bridge, opens)]
       \/ /\ k \in DOMAIN BuiltIn /\ (bridge \/ BuiltIn[k].needs \in deployed \cup {""})
          /\ wired' = [wired EXCEPT ![s] = Tool(k, FALSE, bridge, FALSE, FALSE)]
    /\ UNCHANGED <<deployed, posture, stopped, filed, reached, log, slipped>>

\* The consent of the account's owner comes back, for a tool that waits for it.
SignInTool(s) ==
    /\ wired[s] # NoTool
    /\ LET t == wired[s]
       IN  t.key \in DOMAIN BuiltIn /\ BuiltIn[t.key].needs = "microsoft" /\ ~t.bridge /\ ~t.account
    /\ wired' = [wired EXCEPT ![s].account = TRUE]
    /\ UNCHANGED <<deployed, posture, stopped, filed, reached, log, slipped>>

Unwire(s) ==
    /\ wired[s] # NoTool /\ wired' = [wired EXCEPT ![s] = NoTool]
    /\ UNCHANGED <<deployed, posture, stopped, filed, reached, log, slipped>>

\* What a specification answers: its reads, list, and open when it has a path for it.
CustomRoute(t, a) ==
    IF a \in PathsOf(ReadPath, t.key) \/ a = "list" \/ (a = "open" /\ t.opens)
    THEN "read" ELSE "refused"

\* Mutant: the policy is asked about the built-in connectors only.
SpecRouteUnforced(t, a, force) ==
    IF t.key \in CloudApps /\ a \in PathsOf(WritePath, t.key) THEN "cloud"
    ELSE CustomRoute(t, a)

\* The way of a call on a tool that has a specification.
SpecRoute(t, a, force) ==
    IF t.key \in CloudApps /\ a \in PathsOf(WritePath, t.key)
    THEN IF force THEN "file" ELSE "cloud"
    ELSE CustomRoute(t, a)

\* The way of any call: a forced write is filed before the sign-in and the settings are
\* looked at, and the sign-in is looked at before the bridge.
Route(t, a, force) ==
    IF t.spec THEN SpecRoute(t, a, force)
    ELSE LET c == BuiltIn[t.key]
         IN  CASE ~Declares(t.key, a) -> "refused"
               [] Declares(t.key, a) /\ a \in c.writes /\ force -> "file"
               [] OTHER ->
                    IF \/ c.needs = "microsoft" /\ ~t.account
                       \/ c.needs \notin Configured \cup {"microsoft"} /\ ~t.bridge
                    THEN "refused"
                    ELSE IF a \in c.writes THEN "direct" ELSE "read"

\* invoke(): a call that is run and answered has its receipt.
CallTool(s, a) ==
    /\ wired[s] # NoTool /\ ~stopped
    /\ LET way == Route(wired[s], a, posture.force)
       IN  \/ /\ way = "file"
              /\ filed' = filed \cup {<<s, a>>}
              /\ UNCHANGED <<reached, log, slipped>>
           \/ /\ way \in {"read", "direct", "cloud"}
              /\ GoesOut(way)
              /\ log' = [log EXCEPT !.invoked = @ + 1, !.direct = IF way = "cloud" THEN @ + 1 ELSE @]
              /\ slipped' = IF way # "read" /\ posture.force THEN slipped \cup {<<s, a>>} ELSE slipped
              /\ UNCHANGED filed
    /\ UNCHANGED <<wired, deployed, posture, stopped>>

\* _run_tool asks for neither sign-in nor settings, and a bridge goes first; without them
\* the call itself fails.
Carried(t) == t.spec \/ t.bridge \/ t.account \/ BuiltIn[t.key].needs \in Configured

\* A governor approves a write that waits.
SettleFiled(s, a) ==
    /\ <<s, a>> \in filed
    /\ filed' = filed \ {<<s, a>>}
    /\ LET t == wired[s]
           known == t # NoTool /\ ~stopped /\ Declares(t.key, a)
       IN  IF known /\ Carried(t)
           THEN GoesOut("approved") /\ log' = [log EXCEPT !.executed = @ + 1]
           ELSE /\ log.failed < MaxCalls /\ log' = [log EXCEPT !.failed = @ + 1]
                /\ UNCHANGED reached
    /\ UNCHANGED <<wired, deployed, posture, stopped, slipped>>

\* terminal_exec: the policy may block it, no policy files it.
Prechecked(command) == command # "catastrophic"

RunCommand(command) ==
    /\ ~posture.terminal /\ Prechecked(command) /\ ~stopped
    /\ GoesOut("command")
    /\ log' = [log EXCEPT !.ssh = @ + 1]
    /\ UNCHANGED <<wired, deployed, posture, stopped, filed, slipped>>

\* test_custom_spec lists through a specification not saved, terminal_hosts asks a bridge
\* for its hosts: neither looks at the switch or leaves a receipt.
Preview ==
    /\ GoesOut("preview")
    /\ UNCHANGED <<wired, deployed, posture, stopped, filed, log, slipped>>

SetPosture(p) ==
    /\ posture' = p
    /\ UNCHANGED <<wired, deployed, stopped, filed, reached, log, slipped>>

Halt(on) ==
    /\ stopped' = on
    /\ UNCHANGED <<wired, deployed, posture, filed, reached, log, slipped>>

\* The process comes up again with other settings.
Redeploy(settings) ==
    /\ deployed' = settings
    /\ UNCHANGED <<wired, posture, stopped, filed, reached, log, slipped>>

GateNext ==
    \/ \E s \in Slots :
        \/ \E k \in GateKeys, b, o \in BOOLEAN : WireTool(s, k, b, o)
        \/ SignInTool(s) \/ Unwire(s)
        \/ \E a \in UNION {Registry[k].reads \cup Registry[k].writes : k \in GateKeys \cap DOMAIN Registry} :
            CallTool(s, a) \/ SettleFiled(s, a)
    \/ \E c \in {"plain", "catastrophic"} : RunCommand(c)
    \/ Preview
    \/ \E p \in [force : BOOLEAN, terminal : BOOLEAN] : SetPosture(p)
    \/ \E e \in Settings : Redeploy(e)
    \/ \E on \in BOOLEAN : Halt(on)

GateSpec == GateInit /\ [][GateNext]_gateVars

-----------------------------------------------------------------------------
\* command_center: what the receipts and the rows come to.
Center ==
    LET actions == log.invoked
        writes == log.direct + log.executed
    IN  [actions |-> actions, writes |-> writes, terminal |-> log.ssh,
         pending |-> Cardinality(filed), automated |-> actions + log.ssh + writes]

\* No write gets out unapproved while the policy forces approval, by whichever of the
\* three dispatches it comes, also when the policy changed since the tool was connected
\* (connectors.invoke, its comment "an admin can force EVERY write through the gate").
ForcedIsFiled == slipped = {}

\* The center counts every receipted call, but a cloud app's direct write twice, and
\* among the writes no direct write of a built-in connector; a preview is counted nowhere
\* (command_center, invoke's metadata).
CenterCounts ==
    /\ Center.actions = reached.read + reached.direct + reached.cloud
    /\ Center.writes = reached.cloud + reached.approved
    /\ Center.automated =
        reached.read + reached.direct + 2 * reached.cloud + reached.approved + reached.command

\* A tool that is connected, and signed in where it must be, has an action that runs or
\* is filed; but of a Microsoft tool on a bridge nothing runs until a write is forced,
\* filed and approved, for the sign-in it skipped is asked for (connect, invoke).
ConnectedIsUsable ==
    \A s \in Slots : wired[s] # NoTool =>
        LET t == wired[s]
            acts == IF t.spec THEN {"list"} ELSE BuiltIn[t.key].reads \cup BuiltIn[t.key].writes
            some == \E a \in acts : Route(t, a, FALSE) # "refused"
        IN  IF t.spec \/ BuiltIn[t.key].needs # "microsoft"
            THEN some \/ (~t.bridge /\ BuiltIn[t.key].needs \notin Configured)
            ELSE some <=> t.account

\* What a connector declares its run() or its paths know, and nothing else, but for the
\* records of the cloud apps that declare "open" and have no path for it; every tool a
\* role's setup suggests is in the catalog (CLOUD_APP_SPECS, ROLE_CONNECTORS).
CatalogIsSound ==
    /\ \A k \in DOMAIN Registry :
        LET declared == Registry[k].reads \cup Registry[k].writes
        IN  IF k \in CloudApps \ OpenPath THEN declared = Registry[k].served \cup {"open"}
            ELSE declared = Registry[k].served
    /\ BasicTools \cup UNION {RoleTools[d] : d \in DOMAIN RoleTools} \subseteq DOMAIN Registry

\* The gate holds for every connector of the catalog.
GateHolds == ForcedIsFiled /\ CenterCounts /\ ConnectedIsUsable /\ CatalogIsSound
=============================================================================
