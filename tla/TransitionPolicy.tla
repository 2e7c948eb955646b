-------------------------- MODULE TransitionPolicy --------------------------
(***************************************************************************)
(* The lifecycle policy of core/state: the eight states of enums.py and    *)
(* the matrix of policy.py, as a relation between edges and authorities.   *)
(***************************************************************************)
AgentState == {"PROVISIONING", "ACTIVE", "IDLE", "BUSY", "DEGRADED",
               "BLOCKED", "PAUSED", "TERMINATED"}

Authority == {"Architect", "Deputy", "Watcher", "Lawyer", "CEO", "System"}

HumanOverride == {"Architect", "CEO"}
Governance == {"Lawyer", "Watcher"}

OperationalEdges == {<<"IDLE", "BUSY">>, <<"BUSY", "IDLE">>,
                     <<"BUSY", "DEGRADED">>, <<"PROVISIONING", "ACTIVE">>}
RiskEdges == {<<"IDLE", "BLOCKED">>, <<"BUSY", "BLOCKED">>}
OverrideEdges == {<<"BLOCKED", "IDLE">>, <<"ACTIVE", "PAUSED">>,
                  <<"PAUSED", "IDLE">>, <<"DEGRADED", "IDLE">>}
TerminationEdges == {<<s, "TERMINATED">> : s \in AgentState \ {"TERMINATED"}}

(* (edge, authority): the authority may assert the edge. *)
TRANSITION_RULES ==
    (OperationalEdges \X {"System"})
    \cup (RiskEdges \X Governance)
    \cup (OverrideEdges \X HumanOverride)
    \cup ({<<"DEGRADED", "IDLE">>} \X {"Watcher"})
    \cup (TerminationEdges \X HumanOverride)

SYSTEM_LOCKED_STATES == {"BLOCKED", "PAUSED"}
TERMINAL_STATES == {"TERMINATED"}

(* Guards 2 to 5 of transition_state: the edge is defined for somebody     *)
(* exactly when this authority's permission can be looked up, so the       *)
(* existence check only picks which error a refused call gets.             *)
Permitted(from, to, authority) ==
    /\ from \notin TERMINAL_STATES
    /\ ~(authority = "System" /\ from \in SYSTEM_LOCKED_STATES)
    /\ <<<<from, to>>, authority>> \in TRANSITION_RULES
=============================================================================
