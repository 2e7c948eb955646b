-------------------------- MODULE MCAgentLifecycle --------------------------
(* Every agent lives in one tenant; the other is a caller's wrong guess.   *)
EXTENDS AgentLifecycle

MCHome == [a \in Agents |-> CHOOSE t \in Tenants : TRUE]
=============================================================================
