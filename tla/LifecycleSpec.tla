---------------------------- MODULE LifecycleSpec ----------------------------
(***************************************************************************)
(* What the lifecycle engine promises, with no sessions, callers or log:   *)
(* an agent is registered in PROVISIONING and then moves along edges some  *)
(* authority may assert, as long as no two calls on it overlap; an agent   *)
(* whose calls have overlapped may land on the target of any edge.         *)
(***************************************************************************)
EXTENDS TransitionPolicy

CONSTANTS Agents, Unregistered

VARIABLES
    state,
    raced       \* agents two calls have overlapped on

vars == <<state, raced>>

Init ==
    /\ state = [a \in Agents |-> Unregistered]
    /\ raced = {}

Register(a) ==
    /\ state[a] = Unregistered
    /\ state' = [state EXCEPT ![a] = "PROVISIONING"]
    /\ UNCHANGED raced

Move(a) ==
    \E to \in AgentState, authority \in Authority :
        /\ Permitted(state[a], to, authority)
        /\ state' = [state EXCEPT ![a] = to]
        /\ UNCHANGED raced

Race(a) ==
    /\ raced' = raced \cup {a}
    /\ UNCHANGED state

Overwrite(a) ==
    /\ a \in raced
    /\ \E from, to \in AgentState, authority \in Authority :
        /\ Permitted(from, to, authority)
        /\ state' = [state EXCEPT ![a] = to]
    /\ UNCHANGED raced

(* A restart ends every call. *)
Forget ==
    /\ raced' = {}
    /\ UNCHANGED state

Next == Forget \/ \E a \in Agents : Register(a) \/ Move(a) \/ Race(a) \/ Overwrite(a)

Spec == Init /\ [][Next]_vars
=============================================================================
