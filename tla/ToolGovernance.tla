--------------------------- MODULE ToolGovernance ---------------------------
(* The catalogue of third-party tools (core/integrations): a tool's governed *)
(* lifecycle, its bindings to agents, and the tickets agents are given.      *)
(*                                                                           *)
(* Every operation reads rows, judges what it read and commits later in the  *)
(* same request.  Refused operations change nothing and are not steps.       *)
EXTENDS Naturals, FiniteSets

CONSTANTS
    Officers,       \* requests in progress
    CatalogTools,   \* names of tools, unique in the catalogue
    BoundAgents,    \* agents
    AgentHome,      \* the product each agent belongs to
    Products,
    MaxBindings,    \* bound: bindings made
    Absent          \* no row, no agent

ASSUME GovernanceAssumption ==
    /\ AgentHome \in [BoundAgents -> Products]
    /\ MaxBindings \in Nat
    /\ Absent \notin CatalogTools \cup BoundAgents \cup Products

ToolStatus == {"DISCOVERED", "PROPOSED", "REVIEWED", "APPROVED", "ENABLED", "DISABLED", "REVOKED"}

ASSUME NoRowAssumption == Absent \notin ToolStatus

\* IntegrationAuthority, one name for those that every rule treats alike.
Sovereignty == {"architect"}
Governors == Sovereignty \cup {"governor"}
Reviewers == Governors \cup {"lawyer"}
Proposers == Reviewers \cup {"oracle"}

VARIABLES
    catalog,     \* status of each tool's row
    owner,       \* product a tool is registered for, Absent for any
    bindings,    \* rows: which agent may use which tool
    bound,       \* bindings made so far, the source of their identifiers
    vaultKey,    \* the key in force, and how often it was changed
    tickets,     \* credential tickets given out
    officers,    \* what each request holds
    granted,     \* history: the stages a tool passed with a proper authority
    contested,   \* history: tools on which two transitions overlapped
    overhauled   \* history: requests whose tool changed status behind them

govVars == <<catalog, owner, bindings, bound, vaultKey, tickets, officers,
             granted, contested, overhauled>>

Available == [at |-> "free", tool |-> Absent, agent |-> Absent, product |-> Absent,
              to |-> "none", authority |-> "none", binding |-> Absent]

Assume(q, r) == officers' = [officers EXCEPT ![q] = r]

GovInit ==
    /\ catalog = [t \in CatalogTools |-> Absent]
    /\ owner = [t \in CatalogTools |-> Absent]
    /\ bindings = {} /\ bound = 0 /\ vaultKey = 0 /\ tickets = {}
    /\ officers = [q \in Officers |-> Available]
    /\ granted = [t \in CatalogTools |-> {}]
    /\ contested = {} /\ overhauled = {}

-----------------------------------------------------------------------------
(* The catalogue.                                                             *)

\* TRANSITION_RULES: who may take a tool from one status to another.
Rules(from, to) ==
    CASE to = "REVOKED" /\ from \in {"DISCOVERED", "PROPOSED", "REVIEWED"} -> Sovereignty
      [] from = "DISCOVERED" /\ to = "PROPOSED" -> Proposers
      [] from = "PROPOSED" /\ to \in {"REVIEWED", "DISCOVERED"} -> Reviewers
      [] from = "REVIEWED" /\ to = "PROPOSED" -> Reviewers
      [] <<from, to>> \in {<<"REVIEWED", "APPROVED">>, <<"APPROVED", "ENABLED">>,
                           <<"ENABLED", "DISABLED">>, <<"DISABLED", "ENABLED">>} -> Governors
      [] to = "REVOKED" /\ from \in {"APPROVED", "ENABLED", "DISABLED"} -> Governors
      [] OTHER -> {}

Bindable == {"APPROVED", "ENABLED"}

RegisterTool(t, p) ==
    /\ catalog[t] = Absent
    /\ catalog' = [catalog EXCEPT ![t] = "DISCOVERED"]
    /\ owner' = [owner EXCEPT ![t] = p]
    /\ UNCHANGED <<bindings, bound, vaultKey, tickets, officers, granted, contested, overhauled>>

Transiting(t) == {q \in Officers : officers[q].at = "transit" /\ officers[q].tool = t}

JudgeTransition(q, t, to, authority) ==
    /\ officers[q] = Available
    /\ catalog[t] # Absent /\ authority \in Rules(catalog[t], to)
    /\ Assume(q, [Available EXCEPT !.at = "transit", !.tool = t, !.to = to,
                                   !.authority = authority])
    /\ contested' = IF Transiting(t) # {} THEN contested \cup {t} ELSE contested
    /\ UNCHANGED <<catalog, owner, bindings, bound, vaultKey, tickets, granted, overhauled>>

\* Who has to have a hand in a stage, as the enumeration of authorities says.
Proper(to) == IF to = "REVIEWED" THEN Reviewers ELSE Governors

CommitTransition(q) ==
    /\ officers[q].at = "transit"
    /\ LET t == officers[q].tool  to == officers[q].to IN
        /\ catalog' = [catalog EXCEPT ![t] = to]
        /\ granted' = IF to \in {"REVIEWED", "APPROVED"} /\ officers[q].authority \in Proper(to)
                      THEN [granted EXCEPT ![t] = @ \cup {to}] ELSE granted
        /\ overhauled' = (overhauled \ {q}) \cup
                         {r \in Officers : officers[r].at \in {"bind", "ticket"} /\ officers[r].tool = t}
    /\ Assume(q, Available)
    /\ UNCHANGED <<owner, bindings, bound, vaultKey, tickets, contested>>

-----------------------------------------------------------------------------
(* assign_tool and revoke_binding.                                            *)

BeginAssign(q, a, p, t) ==
    /\ Assume(q, [Available EXCEPT !.at = "bind", !.tool = t, !.agent = a, !.product = p])
    /\ overhauled' = overhauled \ {q}
    /\ UNCHANGED <<catalog, owner, bindings, bound, vaultKey, tickets, granted, contested>>

\* Mutant: the status of the tool is not asked after.
AssignAny(q, a, p, t) ==
    /\ officers[q] = Available
    /\ AgentHome[a] = p /\ catalog[t] # Absent
    /\ BeginAssign(q, a, p, t)

\* The agent must be the product's; the tool's own product is not compared.
AssignTool(q, a, p, t) ==
    /\ officers[q] = Available
    /\ AgentHome[a] = p /\ catalog[t] \in Bindable
    /\ BeginAssign(q, a, p, t)

\* The vault binds a credential to the product and to the key in force.
Seal(q) == [product |-> officers[q].product, key |-> vaultKey]

\* The unique constraint lets one binding of a tool, an agent and a product be.
Bind(q) ==
    /\ officers[q].at = "bind" /\ bound < MaxBindings
    /\ LET o == officers[q]  new == [id |-> bound + 1, tool |-> o.tool, agent |-> o.agent,
                                     product |-> o.product, credential |-> Seal(q)]
       IN  /\ \A b \in bindings : <<b.tool, b.agent, b.product>> # <<o.tool, o.agent, o.product>>
           /\ bindings' = bindings \cup {new}
           /\ bound' = bound + 1
    /\ Assume(q, Available)
    /\ UNCHANGED <<catalog, owner, vaultKey, tickets, granted, contested, overhauled>>

RevokeBinding(q, b) ==
    /\ officers[q] = Available
    /\ Assume(q, [Available EXCEPT !.at = "unbind", !.binding = b.id])
    /\ UNCHANGED <<catalog, owner, bindings, bound, vaultKey, tickets, granted,
                   contested, overhauled>>

Unbind(q) ==
    /\ officers[q].at = "unbind"
    /\ bindings' = {b \in bindings : b.id # officers[q].binding}
    /\ Assume(q, Available)
    /\ UNCHANGED <<catalog, owner, bound, vaultKey, tickets, granted, contested, overhauled>>

-----------------------------------------------------------------------------
(* evaluate_access, then a second look at the binding for the ticket.         *)

EvaluateAccess(q, a, p, t) ==
    /\ officers[q] = Available
    /\ \E b \in bindings : b.agent = a /\ b.tool = t /\ b.product = p
    /\ catalog[t] = "ENABLED"
    /\ Assume(q, [Available EXCEPT !.at = "ticket", !.tool = t, !.agent = a, !.product = p])
    /\ overhauled' = overhauled \ {q}
    /\ UNCHANGED <<catalog, owner, bindings, bound, vaultKey, tickets, granted, contested>>

\* The binding may be gone by now, and its credential may be of another key:
\* then the request raises.
IssueTicket(q) ==
    /\ officers[q].at = "ticket"
    /\ LET o == officers[q] IN
       \E b \in bindings :
        /\ b.agent = o.agent /\ b.tool = o.tool /\ b.product = o.product
        /\ b.credential.product = o.product /\ b.credential.key = vaultKey
        /\ tickets' = tickets \cup {b.id}
    /\ Assume(q, Available)
    /\ UNCHANGED <<catalog, owner, bindings, bound, vaultKey, granted, contested, overhauled>>

\* A request raises, or the server stops, before it commits.
Forsake(q) ==
    /\ officers[q] # Available
    /\ Assume(q, Available)
    /\ UNCHANGED <<catalog, owner, bindings, bound, vaultKey, tickets, granted,
                   contested, overhauled>>

\* The operator replaces the key; nothing seals the stored credentials again.
ReplaceKey ==
    /\ vaultKey = 0
    /\ vaultKey' = 1
    /\ UNCHANGED <<catalog, owner, bindings, bound, tickets, officers, granted,
                   contested, overhauled>>

GovNext ==
    \/ \E t \in CatalogTools, p \in Products \cup {Absent} : RegisterTool(t, p)
    \/ \E q \in Officers, t \in CatalogTools :
        \/ \E to \in ToolStatus, authority \in Proposers : JudgeTransition(q, t, to, authority)
        \/ \E a \in BoundAgents, p \in Products :
            AssignTool(q, a, p, t) \/ EvaluateAccess(q, a, p, t)
    \/ \E q \in Officers, b \in bindings : RevokeBinding(q, b)
    \/ \E q \in Officers :
        CommitTransition(q) \/ Bind(q) \/ Unbind(q) \/ IssueTicket(q) \/ Forsake(q)
    \/ ReplaceKey

GovSpec == GovInit /\ [][GovNext]_govVars

-----------------------------------------------------------------------------
\* Every variable stays in its type, and no agent is bound twice to one tool.
GovTypeOK ==
    /\ catalog \in [CatalogTools -> ToolStatus \cup {Absent}]
    /\ owner \in [CatalogTools -> Products \cup {Absent}]
    /\ bindings \subseteq [id : 1..MaxBindings, tool : CatalogTools, agent : BoundAgents,
                           product : Products, credential : [product : Products, key : {0, 1}]]
    /\ \A b, c \in bindings : <<b.tool, b.agent>> = <<c.tool, c.agent>> => b = c
    /\ bound \in 0..MaxBindings /\ vaultKey \in {0, 1} /\ tickets \subseteq 1..MaxBindings
    /\ \A q \in Officers : officers[q].to \in ToolStatus \cup {"none"}
    /\ granted \in [CatalogTools -> SUBSET {"REVIEWED", "APPROVED"}]
    /\ contested \subseteq CatalogTools /\ overhauled \subseteq Officers

\* However transitions overlap, a tool that is enabled was reviewed by a
\* reviewer and approved by a governor: nobody else's hand is enough
\* (TRANSITION_RULES, validate_transition).
EnabledWasGoverned ==
    \A t \in CatalogTools : catalog[t] \in {"ENABLED", "DISABLED"} => granted[t] = {"REVIEWED", "APPROVED"}

\* REVOKED is final, as long as no other transition of the tool was judged
\* before the revocation was committed (transition_status).
RevokedIsFinal ==
    [][\A t \in CatalogTools \ contested : catalog[t] = "REVOKED" => catalog'[t] = "REVOKED"]_govVars

\* An agent is bound to a tool only while the tool is approved or enabled,
\* unless its status changed between the check and the commit (assign_tool).
BoundWhileBindable ==
    [][\A q \in Officers \ overhauled : Bind(q) => catalog[officers[q].tool] \in Bindable]_govVars

\* A ticket is for a tool that is enabled, unless its status changed between
\* the check and the second look (issue_credential_ticket).
TicketsDrain ==
    [][\A q \in Officers \ overhauled : IssueTicket(q) => catalog[officers[q].tool] = "ENABLED"]_govVars

\* Whoever holds a binding can open its credential until the key is replaced:
\* it was sealed for the product of the binding (seal, unseal).
CredentialsOpen ==
    vaultKey = 0 => \A b \in bindings : b.credential.product = b.product /\ b.credential.key = vaultKey

\* Bindings, tickets and credentials follow the governed status of the tool.
ToolsAreGoverned ==
    /\ [](GovTypeOK /\ EnabledWasGoverned /\ CredentialsOpen)
    /\ RevokedIsFinal /\ BoundWhileBindable /\ TicketsDrain
=============================================================================
