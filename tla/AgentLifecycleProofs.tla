------------------------ MODULE AgentLifecycleProofs ------------------------
(***************************************************************************)
(* What every interleaving of callers of the lifecycle engine keeps, for   *)
(* any agents, tenants and callers; that the engine implements the         *)
(* lifecycle policy; and what the hierarchy of agents shows, whatever      *)
(* links are made.                                                         *)
(***************************************************************************)
EXTENDS AgentLifecycle, AgentHierarchy, SequenceTheorems, FiniteSetTheorems, WellFoundedInduction, TLAPS

(* What a caller carries between its read and its event is a transition    *)
(* the policy permits.                                                     *)
CallsAreLawful == \A c \in Callers : pc[c] \in {"commit", "record"} => Lawful(call[c])

IInv == TypeOK /\ CallsAreLawful /\ LogIsLawful

(* No edge of the matrix of policy.py leads back to PROVISIONING.          *)
LEMMA NoWayBack ==
    ASSUME NEW from, NEW to, NEW authority, Permitted(from, to, authority)
    PROVE  to # "PROVISIONING"
  <1>1. \A r \in TRANSITION_RULES : r[1][2] # "PROVISIONING"
    <2>1. \A r \in OperationalEdges \X {"System"} : r[1][2] # "PROVISIONING"
      BY DEF OperationalEdges
    <2>2. \A r \in RiskEdges \X Governance : r[1][2] # "PROVISIONING"
      BY DEF RiskEdges
    <2>3. \A r \in OverrideEdges \X HumanOverride : r[1][2] # "PROVISIONING"
      BY DEF OverrideEdges
    <2>4. \A r \in {<<"DEGRADED", "IDLE">>} \X {"Watcher"} : r[1][2] # "PROVISIONING"
      OBVIOUS
    <2>5. \A r \in TerminationEdges \X HumanOverride : r[1][2] # "PROVISIONING"
      BY DEF TerminationEdges
    <2> QED BY <2>1, <2>2, <2>3, <2>4, <2>5 DEF TRANSITION_RULES
  <1>2. <<<<from, to>>, authority>> \in TRANSITION_RULES
    BY DEF Permitted
  <1> QED BY <1>1, <1>2

(* Appending a lawful event to a lawful log leaves it lawful.              *)
LEMMA AppendLawful ==
    ASSUME NEW log \in Seq(Event), NEW e \in Event, Lawful(e),
           \A i \in 1..Len(log) : Lawful(log[i])
    PROVE  /\ Append(log, e) \in Seq(Event)
           /\ \A i \in 1..Len(Append(log, e)) : Lawful(Append(log, e)[i])
  <1>1. Len(Append(log, e)) = Len(log) + 1
    OBVIOUS
  <1>2. ASSUME NEW i \in 1..Len(Append(log, e))
        PROVE  Append(log, e)[i] = IF i = Len(log) + 1 THEN e ELSE log[i]
    BY <1>1
  <1> QED BY <1>1, <1>2

(* The registry starts empty, with no calls and an empty log.              *)
LEMMA InitIInv == Init => IInv
  BY DEF Init, IInv, TypeOK, CallsAreLawful, LogIsLawful, NoCall

(* Every step of the registry and of the engine keeps the invariant.       *)
LEMMA NextIInv == IInv /\ [Next]_vars => IInv'
  <1> SUFFICES ASSUME IInv, [Next]_vars PROVE IInv'
    OBVIOUS
  <1> USE DEF IInv, TypeOK, CallsAreLawful
  <1>1. ASSUME Restart PROVE IInv'
    BY <1>1 DEF Restart, NoCall, LogIsLawful
  <1>2. ASSUME NEW c \in Callers, NEW a \in Agents, LookForDuplicate(c, a) PROVE IInv'
    BY <1>2 DEF LookForDuplicate, LogIsLawful, Lawful
  <1>3. ASSUME NEW c \in Callers, Insert(c) PROVE IInv'
    <2>1. call[c].agent \in Agents
      BY <1>3 DEF Insert
    <2>2. state' \in [Agents -> AgentState \cup {Unregistered}]
      BY <1>3, <2>1 DEF Insert, AgentState
    <2>3. origin' \in [Agents -> AgentState \cup {Unregistered}]
      BY <1>3, <2>1 DEF Insert, AgentState
    <2> QED BY <1>3, <2>2, <2>3 DEF Insert, LogIsLawful, Lawful, NoCall
  <1>4. ASSUME NEW c \in Callers, NEW a \in Agents, NEW p \in Tenants,
               NEW to \in AgentState, NEW authority \in Authority,
               Judge(c, a, p, to, authority)
        PROVE  IInv'
    <2> DEFINE e == [agent |-> a, product |-> p, from |-> state[a],
                     to |-> to, authority |-> authority]
    <2>1. e \in Event
      BY <1>4 DEF Judge, Found, Event
    <2>2. Lawful(e)
      BY <1>4 DEF Judge, Found, Lawful
    <2>3. call' = [call EXCEPT ![c] = e] /\ pc' = [pc EXCEPT ![c] = "commit"]
      BY <1>4 DEF Judge
    <2>4. UNCHANGED <<state, events, origin>> /\ raced' \subseteq Agents
      BY <1>4 DEF Judge
    <2> HIDE DEF e
    <2> QED BY <2>1, <2>2, <2>3, <2>4 DEF LogIsLawful, Lawful
  <1>5. ASSUME NEW c \in Callers, Commit(c) PROVE IInv'
    <2>1. call[c] \in Event
      BY <1>5 DEF Commit
    <2>2. call[c].to \in AgentState
      BY <2>1 DEF Event
    <2> QED BY <1>5, <2>1, <2>2 DEF Commit, LogIsLawful, Lawful
  <1>6. ASSUME NEW c \in Callers, Record(c) PROVE IInv'
    <2>1. call[c] \in Event /\ Lawful(call[c])
      BY <1>6 DEF Record
    <2>2. events' \in Seq(Event) /\ LogIsLawful'
      <3>1. events' = Append(events, call[c])
        BY <1>6 DEF Record
      <3>2. \A i \in 1..Len(events') : Lawful(events'[i])
        BY <2>1, <3>1, AppendLawful DEF LogIsLawful
      <3> QED BY <2>1, <3>1, <3>2, AppendLawful DEF LogIsLawful, Lawful
    <2>3. /\ pc' = [pc EXCEPT ![c] = "idle"]
          /\ call' = [call EXCEPT ![c] = NoCall]
          /\ UNCHANGED <<state, origin, raced>>
      BY <1>6 DEF Record
    <2>4. CallsAreLawful'
      <3> SUFFICES ASSUME NEW d \in Callers, pc'[d] \in {"commit", "record"}
                   PROVE  Lawful(call[d])
        BY <2>3 DEF Lawful
      <3> QED BY <2>3
    <2>5. TypeOK'
      BY <2>2, <2>3
    <2> QED BY <2>2, <2>4, <2>5
  <1>7. CASE UNCHANGED vars
    BY <1>7 DEF vars, LogIsLawful, Lawful
  <1> QED BY <1>1, <1>2, <1>3, <1>4, <1>5, <1>6, <1>7 DEF Next, Create, Transition

(* The inductive invariant: well-typed rows, lawful calls, a lawful log.   *)
THEOREM Invariance == Spec => []IInv
  BY InitIInv, NextIInv, PTL DEF Spec

(* The registry and the log are always well formed.                        *)
THEOREM TypeCorrect == Spec => []TypeOK
  <1>1. IInv => TypeOK
    BY DEF IInv
  <1> QED BY <1>1, Invariance, PTL

(* Every event the audit log ever holds is a transition its authority may  *)
(* assert, made under the agent's own tenant.                              *)
THEOREM LawfulLog == Spec => []LogIsLawful
  <1>1. IInv => LogIsLawful
    BY DEF IInv
  <1> QED BY <1>1, Invariance, PTL

-----------------------------------------------------------------------------
(* The audit log explains every row.                                       *)

(* The invariant of one agent: see StateIsExplained.                       *)
Explained(a) ==
    \/ state[a] = origin[a]
    \/ \E e \in Logged(a) \cup Pending(a) : e.to = state[a]

(* No step leaves a row in a state neither the log nor a caller about to   *)
(* write to it accounts for.                                               *)
LEMMA NextExplained ==
    ASSUME TypeOK, [Next]_vars, NEW a \in Agents, Explained(a)
    PROVE  Explained(a)'
  <1>1. CASE Restart
    BY <1>1 DEF Restart, Explained
  <1>2. ASSUME NEW c \in Callers, NEW b \in Agents, LookForDuplicate(c, b)
        PROVE  Explained(a)'
    <2>1. Logged(a)' = Logged(a)
      BY <1>2 DEF LookForDuplicate, Logged
    <2>2. Pending(a) \subseteq Pending(a)'
      BY <1>2 DEF LookForDuplicate, Pending, TypeOK
    <2>3. UNCHANGED <<state, origin>>
      BY <1>2 DEF LookForDuplicate
    <2> QED BY <2>1, <2>2, <2>3 DEF Explained
  <1>3. ASSUME NEW c \in Callers, Insert(c) PROVE Explained(a)'
    <2>1. Logged(a)' = Logged(a)
      BY <1>3 DEF Insert, Logged
    <2>2. Pending(a) \subseteq Pending(a)'
      BY <1>3 DEF Insert, Pending, TypeOK
    <2>3. call[c].agent \in Agents
      BY <1>3 DEF Insert, TypeOK
    <2>4. \/ UNCHANGED <<state, origin>>
          \/ state'[a] = origin'[a]
          \/ state'[a] = state[a] /\ origin'[a] = origin[a]
      BY <1>3, <2>3 DEF Insert, TypeOK
    <2> QED BY <2>1, <2>2, <2>4 DEF Explained
  <1>4. ASSUME NEW c \in Callers, NEW b \in Agents, NEW p \in Tenants,
               NEW to \in AgentState, NEW authority \in Authority,
               Judge(c, b, p, to, authority)
        PROVE  Explained(a)'
    <2> DEFINE e == [agent |-> b, product |-> p, from |-> state[b],
                     to |-> to, authority |-> authority]
    <2>1. Logged(a)' = Logged(a)
      BY <1>4 DEF Judge, Logged
    <2>2. pc[c] = "idle" /\ call' = [call EXCEPT ![c] = e]
          /\ pc' = [pc EXCEPT ![c] = "commit"]
      BY <1>4 DEF Judge
    <2> HIDE DEF e
    <2>3. Pending(a) \subseteq Pending(a)'
      BY <2>2 DEF Pending, TypeOK
    <2>4. UNCHANGED <<state, origin>>
      BY <1>4 DEF Judge
    <2> QED BY <2>1, <2>3, <2>4 DEF Explained
  <1>5. ASSUME NEW c \in Callers, Commit(c) PROVE Explained(a)'
    <2>1. Logged(a)' = Logged(a)
      BY <1>5 DEF Commit, Logged
    <2>2. Pending(a) \subseteq Pending(a)'
      BY <1>5 DEF Commit, Pending, TypeOK
    <2>3. CASE call[c].agent = a
      <3>1. call[c] \in Pending(a)'
        BY <1>5, <2>3 DEF Commit, Pending, TypeOK
      <3>2. state'[a] = call[c].to
        BY <1>5, <2>3 DEF Commit, TypeOK
      <3> QED BY <3>1, <3>2 DEF Explained
    <2>4. CASE call[c].agent # a
      <3>1. state'[a] = state[a] /\ origin' = origin
        BY <1>5, <2>4 DEF Commit, TypeOK
      <3> QED BY <2>1, <2>2, <3>1 DEF Explained
    <2> QED BY <2>3, <2>4
  <1>6. ASSUME NEW c \in Callers, Record(c) PROVE Explained(a)'
    <2>1. events' = Append(events, call[c]) /\ call[c] \in Event
      BY <1>6 DEF Record, TypeOK
    <2>2. \A i \in 1..Len(events) : i \in 1..Len(events') /\ events'[i] = events[i]
      BY <2>1 DEF TypeOK
    <2>3. Len(events') = Len(events) + 1 /\ events'[Len(events) + 1] = call[c]
      BY <2>1 DEF TypeOK
    <2>4. Logged(a) \subseteq Logged(a)'
      BY <2>2 DEF Logged
    <2>5. call[c].agent = a => call[c] \in Logged(a)'
      <3>1. Len(events) + 1 \in 1..Len(events')
        BY <2>3 DEF TypeOK
      <3> QED BY <2>3, <3>1 DEF Logged
    <2>6. \A d \in Callers : d # c => pc'[d] = pc[d] /\ call'[d] = call[d]
      BY <1>6 DEF Record, TypeOK
    <2>7. ASSUME NEW e \in Pending(a) PROVE e \in Logged(a)' \cup Pending(a)'
      <3>1. PICK d \in Callers : pc[d] = "record" /\ call[d].agent = a /\ e = call[d]
        BY <2>7 DEF Pending
      <3>2. CASE d = c
        BY <2>5, <3>1, <3>2
      <3>3. CASE d # c
        BY <2>6, <3>1, <3>3 DEF Pending
      <3> QED BY <3>2, <3>3
    <2>8. UNCHANGED <<state, origin>>
      BY <1>6 DEF Record
    <2> QED BY <2>4, <2>7, <2>8 DEF Explained
  <1>7. CASE UNCHANGED vars
    BY <1>7 DEF vars, Explained, Logged, Pending
  <1> QED BY <1>1, <1>2, <1>3, <1>4, <1>5, <1>6, <1>7 DEF Next, Create, Transition

(* However callers race, the state an agent is in is the target of an      *)
(* event in the log or about to be written, or the one the log began with. *)
THEOREM RowsAreExplained == Spec => []StateIsExplained
  <1>1. Init => StateIsExplained
    BY DEF Init, StateIsExplained
  <1>2. IInv /\ StateIsExplained /\ [Next]_vars => StateIsExplained'
    BY NextExplained DEF IInv, StateIsExplained, Explained
  <1> QED BY <1>1, <1>2, Invariance, PTL DEF Spec

-----------------------------------------------------------------------------
(* Registration never resets an agent.                                     *)

(* An agent that has left PROVISIONING never comes back to it, whichever   *)
(* callers are registering its key or moving it.                           *)
THEOREM NoReset == Spec => NeverReprovisioned
  <1>1. ASSUME IInv, [Next]_vars, NEW a \in Agents, state'[a] = "PROVISIONING"
        PROVE  state[a] \in {Unregistered, "PROVISIONING"}
    <2> SUFFICES ASSUME state'[a] # state[a] PROVE state[a] = Unregistered
      BY <1>1
    <2>1. CASE \E c \in Callers : Insert(c)
      BY <1>1, <2>1 DEF Insert, IInv, TypeOK
    <2>2. ASSUME NEW c \in Callers, Commit(c) PROVE FALSE
      <3>1. state' = [state EXCEPT ![call[c].agent] = call[c].to]
        BY <2>2 DEF Commit
      <3>2. call[c].to = "PROVISIONING"
        BY <1>1, <3>1 DEF IInv, TypeOK
      <3>3. Permitted(call[c].from, call[c].to, call[c].authority)
        BY <1>1, <2>2 DEF Commit, IInv, CallsAreLawful, Lawful
      <3> QED BY <3>2, <3>3, NoWayBack
    <2> QED BY <1>1, <2>1, <2>2
        DEF Next, Create, Transition, Restart, LookForDuplicate, Judge, Record, vars
  <1>2. IInv /\ [Next]_vars =>
            [\A a \in Agents :
                state'[a] = "PROVISIONING" => state[a] \in {Unregistered, "PROVISIONING"}]_vars
    BY <1>1
  <1> QED BY <1>2, Invariance, PTL DEF Spec, NeverReprovisioned

-----------------------------------------------------------------------------
(* The engine implements the policy.                                       *)

(* While no two calls on an agent have overlapped, at most one is in       *)
(* flight, and what it judged is still so when it commits.                 *)
Alone(a) == \A c, d \in InFlight(a) : c = d
Fresh(a) == \A c \in InFlight(a) : pc[c] = "commit" => state[a] = call[c].from
Undisturbed == \A a \in Agents \ raced : Alone(a) /\ Fresh(a)

(* A judged call overlaps another on its agent or finds itself alone.      *)
LEMMA JudgeUndisturbed ==
    ASSUME TypeOK, Undisturbed, NEW c \in Callers, NEW b \in Agents, NEW p \in Tenants,
           NEW to \in AgentState, NEW authority \in Authority,
           Judge(c, b, p, to, authority)
    PROVE  Undisturbed'
  <1> DEFINE e == [agent |-> b, product |-> p, from |-> state[b],
                   to |-> to, authority |-> authority]
  <1>1. e.agent = b /\ e.from = state[b]
    OBVIOUS
  <1>2. pc[c] = "idle" /\ call' = [call EXCEPT ![c] = e]
        /\ pc' = [pc EXCEPT ![c] = "commit"] /\ state' = state
    BY DEF Judge
  <1>3. raced' = IF InFlight(b) = {} THEN raced ELSE raced \cup {b}
    BY DEF Judge
  <1> HIDE DEF e
  <1>4. \A a \in Agents : InFlight(a)' = IF a = b THEN InFlight(a) \cup {c} ELSE InFlight(a)
    BY <1>1, <1>2 DEF InFlight, TypeOK
  <1>5. \A a \in Agents : \A d \in InFlight(a) : d # c /\ d \in Callers
    BY <1>2 DEF InFlight
  <1>6. \A d \in Callers : d # c => pc'[d] = pc[d] /\ call'[d] = call[d]
    BY <1>2 DEF TypeOK
  <1>7. ASSUME NEW a \in Agents, a \notin raced' PROVE Alone(a)' /\ Fresh(a)'
    <2>1. a \notin raced /\ (a = b => InFlight(a) = {})
      BY <1>3, <1>7
    <2>2. CASE a = b
      <3>1. InFlight(a)' = {c}
        BY <1>4, <2>1, <2>2
      <3>2. call'[c] = e
        BY <1>2 DEF TypeOK
      <3> QED BY <1>1, <1>2, <2>2, <3>1, <3>2 DEF Alone, Fresh
    <2>3. CASE a # b
      <3>1. InFlight(a)' = InFlight(a)
        BY <1>4, <2>3
      <3> QED BY <1>2, <1>5, <1>6, <2>1, <3>1 DEF Undisturbed, Alone, Fresh
    <2> QED BY <2>2, <2>3
  <1> QED BY <1>7 DEF Undisturbed

(* Every step keeps the calls on an agent apart or marks it raced.         *)
LEMMA NextUndisturbed ==
    ASSUME IInv, Undisturbed, [Next]_vars
    PROVE  Undisturbed'
  <1> USE DEF IInv
  <1>1. CASE Restart
    BY <1>1 DEF Restart, Undisturbed, Alone, Fresh, InFlight
  <1>2. ASSUME NEW c \in Callers, NEW b \in Agents, LookForDuplicate(c, b)
        PROVE  Undisturbed'
    <2>1. \A a \in Agents : InFlight(a)' = InFlight(a)
      BY <1>2 DEF LookForDuplicate, InFlight, TypeOK
    <2>2. \A a \in Agents : \A d \in InFlight(a) : pc'[d] = pc[d] /\ call'[d] = call[d]
      BY <1>2 DEF LookForDuplicate, InFlight, TypeOK
    <2>3. UNCHANGED <<state, raced>>
      BY <1>2 DEF LookForDuplicate
    <2> QED BY <2>1, <2>2, <2>3 DEF Undisturbed, Alone, Fresh
  <1>3. ASSUME NEW c \in Callers, Insert(c) PROVE Undisturbed'
    <2>1. \A a \in Agents : InFlight(a)' = InFlight(a)
      BY <1>3 DEF Insert, InFlight, TypeOK
    <2>2. \A a \in Agents : \A d \in InFlight(a) : pc'[d] = pc[d] /\ call'[d] = call[d]
      BY <1>3 DEF Insert, InFlight, TypeOK
    <2>3. \A a \in Agents : \A d \in InFlight(a) : call[d].from # Unregistered
      BY UnregisteredAssumption DEF InFlight, TypeOK, Event
    <2>4. \A a \in Agents : state'[a] = state[a] \/ state[a] = Unregistered
      BY <1>3 DEF Insert, TypeOK
    <2>5. raced' = raced
      BY <1>3 DEF Insert
    <2> QED BY <2>1, <2>2, <2>3, <2>4, <2>5 DEF Undisturbed, Alone, Fresh
  <1>4. ASSUME NEW c \in Callers, NEW b \in Agents, NEW p \in Tenants,
               NEW to \in AgentState, NEW authority \in Authority,
               Judge(c, b, p, to, authority)
        PROVE  Undisturbed'
    BY <1>4, JudgeUndisturbed
  <1>5. ASSUME NEW c \in Callers, Commit(c) PROVE Undisturbed'
    <2>1. \A a \in Agents : InFlight(a)' = InFlight(a)
      BY <1>5 DEF Commit, InFlight, TypeOK
    <2>2. \A a \in Agents : \A d \in InFlight(a) :
              call'[d] = call[d] /\ (d # c => pc'[d] = pc[d])
      BY <1>5 DEF Commit, InFlight, TypeOK
    <2>3. pc'[c] = "record" /\ raced' = raced
      BY <1>5 DEF Commit, TypeOK
    <2>4. \A a \in Agents : state'[a] = state[a] \/ c \in InFlight(a)
      BY <1>5 DEF Commit, InFlight, TypeOK
    <2>5. ASSUME NEW a \in Agents, a \notin raced' PROVE Fresh(a)'
      <3>1. Alone(a) /\ Fresh(a)
        BY <2>3, <2>5 DEF Undisturbed
      <3>2. ASSUME NEW d \in InFlight(a), pc'[d] = "commit"
            PROVE  state'[a] = call'[d].from
        <4>1. d # c /\ pc[d] = "commit"
          BY <2>2, <2>3, <3>2
        <4>2. c \notin InFlight(a)
          BY <3>1, <4>1 DEF Alone
        <4> QED BY <2>2, <2>4, <3>1, <4>1, <4>2 DEF Fresh
      <3> QED BY <2>1, <3>2 DEF Fresh
    <2>6. ASSUME NEW a \in Agents, a \notin raced' PROVE Alone(a)'
      BY <2>1, <2>3, <2>6 DEF Undisturbed, Alone
    <2> QED BY <2>5, <2>6 DEF Undisturbed
  <1>6. ASSUME NEW c \in Callers, Record(c) PROVE Undisturbed'
    <2>1. \A a \in Agents : InFlight(a)' \subseteq InFlight(a) \ {c}
      BY <1>6 DEF Record, InFlight, TypeOK
    <2>2. \A d \in Callers : d # c => pc'[d] = pc[d] /\ call'[d] = call[d]
      BY <1>6 DEF Record, TypeOK
    <2>3. UNCHANGED <<state, raced>>
      BY <1>6 DEF Record
    <2>4. \A a \in Agents : InFlight(a) \subseteq Callers
      BY DEF InFlight
    <2> QED BY <2>1, <2>2, <2>3, <2>4 DEF Undisturbed, Alone, Fresh
  <1>7. CASE UNCHANGED vars
    BY <1>7 DEF vars, Undisturbed, Alone, Fresh, InFlight
  <1> QED BY <1>1, <1>2, <1>3, <1>4, <1>5, <1>6, <1>7 DEF Next, Create, Transition

(* The matrix is the same one in the instance.                             *)
LEMMA SamePolicy ==
    \A from, to, authority : Permitted(from, to, authority) = Policy!Permitted(from, to, authority)
  BY DEF Permitted, Policy!Permitted, TRANSITION_RULES, Policy!TRANSITION_RULES,
     OperationalEdges, RiskEdges, OverrideEdges, TerminationEdges, Governance,
     HumanOverride, Policy!OperationalEdges, Policy!RiskEdges,
     Policy!OverrideEdges, Policy!TerminationEdges, Policy!Governance,
     Policy!HumanOverride, AgentState, Policy!AgentState,
     TERMINAL_STATES, Policy!TERMINAL_STATES,
     SYSTEM_LOCKED_STATES, Policy!SYSTEM_LOCKED_STATES

(* A commit is a move of the policy on an undisturbed agent, and lands on  *)
(* the target of some edge on a raced one.                                 *)
LEMMA CommitIsPolicy ==
    ASSUME NEW c \in Callers, IInv, Undisturbed, Commit(c)
    PROVE  Policy!Next
  <1> DEFINE a == call[c].agent
  <1>1. call[c] \in Event /\ Lawful(call[c])
    BY DEF Commit, IInv, TypeOK, CallsAreLawful
  <1>2. /\ a \in Agents
        /\ call[c].from \in Policy!AgentState
        /\ call[c].to \in Policy!AgentState
        /\ call[c].authority \in Policy!Authority
    BY <1>1 DEF Event, AgentState, Policy!AgentState, Authority, Policy!Authority
  <1>3. Policy!Permitted(call[c].from, call[c].to, call[c].authority)
    BY <1>1, SamePolicy DEF Lawful
  <1>4. state' = [state EXCEPT ![a] = call[c].to] /\ raced' = raced
    BY DEF Commit
  <1>5. CASE a \in raced
    <2>1. Policy!Overwrite(a)
      BY <1>2, <1>3, <1>4, <1>5 DEF Policy!Overwrite
    <2> QED BY <1>2, <2>1 DEF Policy!Next
  <1>6. CASE a \notin raced
    <2>1. c \in InFlight(a)
      BY DEF Commit, InFlight
    <2>2. state[a] = call[c].from
      BY <1>2, <1>6, <2>1 DEF Undisturbed, Fresh, Commit
    <2>3. Policy!Permitted(state[a], call[c].to, call[c].authority)
      BY <1>3, <2>2
    <2>4. Policy!Move(a)
      BY <1>2, <1>4, <2>3 DEF Policy!Move
    <2> QED BY <1>2, <2>4 DEF Policy!Next
  <1> QED BY <1>5, <1>6

(* Every step of the registry and the engine is one of the policy's.       *)
LEMMA StepIsPolicy ==
    ASSUME IInv, Undisturbed, [Next]_vars
    PROVE  [Policy!Next]_(Policy!vars)
  <1>1. ASSUME Restart PROVE Policy!Next
    BY <1>1 DEF Restart, Policy!Next, Policy!Forget
  <1>2. ASSUME NEW c \in Callers, Insert(c) PROVE [Policy!Next]_(Policy!vars)
    <2>1. call[c].agent \in Agents
      BY <1>2 DEF Insert, IInv, TypeOK
    <2>2. CASE state[call[c].agent] = Unregistered
      <3>1. Policy!Register(call[c].agent)
        BY <1>2, <2>2 DEF Insert, Policy!Register
      <3> QED BY <2>1, <3>1 DEF Policy!Next
    <2>3. CASE state[call[c].agent] # Unregistered
      BY <1>2, <2>3 DEF Insert, Policy!vars
    <2> QED BY <2>2, <2>3
  <1>3. ASSUME NEW c \in Callers, NEW b \in Agents, NEW p \in Tenants,
               NEW to \in AgentState, NEW authority \in Authority,
               Judge(c, b, p, to, authority)
        PROVE  [Policy!Next]_(Policy!vars)
    <2>1. CASE InFlight(b) = {}
      BY <1>3, <2>1 DEF Judge, Policy!vars
    <2>2. CASE InFlight(b) # {}
      <3>1. Policy!Race(b)
        BY <1>3, <2>2 DEF Judge, Policy!Race
      <3> QED BY <3>1 DEF Policy!Next
    <2> QED BY <2>1, <2>2
  <1>4. ASSUME NEW c \in Callers, Commit(c) PROVE Policy!Next
    BY <1>4, CommitIsPolicy
  <1>5. ASSUME NEW c \in Callers, Record(c) \/ \E a \in Agents : LookForDuplicate(c, a)
        PROVE  UNCHANGED Policy!vars
    BY <1>5 DEF Record, LookForDuplicate, Policy!vars
  <1>6. CASE UNCHANGED vars
    BY <1>6 DEF vars, Policy!vars
  <1> QED BY <1>1, <1>2, <1>3, <1>4, <1>5, <1>6 DEF Next, Create, Transition

(* For any callers, the engine implements the lifecycle policy: an agent   *)
(* on which no two calls overlap moves only along edges permitted from the *)
(* state it is in.  Without that proviso it does not: see the run          *)
(* lifecycle_terminal.                                                     *)
THEOREM Refinement == Spec => ImplementsPolicy
  <1>1. Init => Policy!Init
    BY DEF Init, Policy!Init
  <1>2. Init => Undisturbed
    BY DEF Init, Undisturbed, Alone, Fresh, InFlight
  <1>3. IInv /\ Undisturbed /\ [Next]_vars => Undisturbed'
    BY NextUndisturbed
  <1>4. IInv /\ Undisturbed /\ [Next]_vars => [Policy!Next]_(Policy!vars)
    BY StepIsPolicy
  <1> QED BY <1>1, <1>2, <1>3, <1>4, Invariance, PTL
      DEF Spec, ImplementsPolicy, Policy!Spec

(* For any callers the log and the registry stay well formed and account for *)
(* each other.                                                               *)
THEOREM SoundLog == Spec => []LogIsSound
  BY TypeCorrect, LawfulLog, RowsAreExplained, PTL DEF LogIsSound

-----------------------------------------------------------------------------
(* The log replays.                                                        *)

(* A key without a row has no event and no call in progress; on an agent   *)
(* no two calls overlap on, what a call judged is where the log leads, and *)
(* what it committed is the row's.                                         *)
Untouched(a) ==
    state[a] = Unregistered =>
        InFlight(a) = {} /\ \A i \in 1..Len(events) : events[i].agent # a

Replayed(a) ==
    /\ \A i \in 1..Len(events) : events[i].agent = a => LeadsTo(a, i, events[i].from)
    /\ \A c \in InFlight(a) :
          /\ LeadsTo(a, Len(events) + 1, call[c].from)
          /\ pc[c] = "record" => call[c].to = state[a]
    /\ (\A c \in InFlight(a) : pc[c] = "commit") => LeadsTo(a, Len(events) + 1, state[a])

ReplayInv == \A a \in Agents : Untouched(a) /\ (a \notin raced => Replayed(a))

(* Where the log leads before one of its ends is the same after an append. *)
LEMMA LeadsKept ==
    ASSUME TypeOK, NEW e \in Event, events' = Append(events, e), origin' = origin,
           NEW a \in Agents, NEW n \in 1..Len(events) + 1, NEW s, LeadsTo(a, n, s)
    PROVE  LeadsTo(a, n, s)'
  <1>1. Len(events) \in Nat /\ \A i \in 1..Len(events) : events'[i] = events[i]
    BY DEF TypeOK
  <1>2. \A i \in 1..n - 1 : events'[i] = events[i]
    BY <1>1
  <1>3. {i \in 1..n - 1 : events'[i].agent = a} = {i \in 1..n - 1 : events[i].agent = a}
    BY <1>2
  <1> QED BY <1>2, <1>3 DEF LeadsTo

(* Another agent's event at the end leads nowhere else.                    *)
LEMMA LeadsPast ==
    ASSUME TypeOK, NEW e \in Event, events' = Append(events, e), origin' = origin,
           NEW a \in Agents, e.agent # a, NEW s, LeadsTo(a, Len(events) + 1, s)
    PROVE  LeadsTo(a, Len(events) + 1, s)'
  <1> DEFINE n == Len(events)
  <1>1. /\ n \in Nat /\ events'[n + 1] = e /\ Len(events') = n + 1
        /\ \A i \in 1..n : events'[i] = events[i]
    BY DEF TypeOK
  <1>2. 1..(n + 1 + 1) - 1 = (1..n) \cup {n + 1} /\ 1..(n + 1) - 1 = 1..n
    BY <1>1
  <1>3. {i \in 1..(n + 1 + 1) - 1 : events'[i].agent = a} = {i \in 1..(n + 1) - 1 : events[i].agent = a}
    BY <1>1, <1>2
  <1>4. \A i \in {j \in 1..(n + 1) - 1 : events[j].agent = a} : events'[i] = events[i]
    BY <1>1, <1>2
  <1> QED BY <1>1, <1>3, <1>4 DEF LeadsTo

(* An agent's own event at the end leads to its target.                    *)
LEMMA LeadsOn ==
    ASSUME TypeOK, NEW e \in Event, events' = Append(events, e)
    PROVE  LeadsTo(e.agent, Len(events) + 1, e.to)'
  <1> DEFINE n == Len(events)
  <1>1. n \in Nat /\ events'[n + 1] = e /\ Len(events') = n + 1
    BY DEF TypeOK
  <1>2. n + 1 \in 1..(n + 1 + 1) - 1 /\ \A j \in 1..(n + 1 + 1) - 1 : j <= n + 1
    BY <1>1
  <1> QED BY <1>1, <1>2 DEF LeadsTo

(* What leaves the log and its beginning alone leaves where it leads.      *)
LEMMA LeadsSame ==
    ASSUME events' = events, origin' = origin, NEW a, NEW n, NEW s
    PROVE  LeadsTo(a, n, s)' = LeadsTo(a, n, s)
  BY DEF LeadsTo

(* A key looked up or inserted: no event and no judged call has it.        *)
LEMMA CreateReplayed ==
    ASSUME TypeOK, ReplayInv, NEW c \in Callers, Create(c)
    PROVE  ReplayInv'
  <1>1. \A a \in Agents : InFlight(a)' = InFlight(a)
    BY DEF Create, LookForDuplicate, Insert, InFlight, TypeOK
  <1>2. \A a \in Agents : \A d \in InFlight(a) : pc'[d] = pc[d] /\ call'[d] = call[d]
    BY DEF Create, LookForDuplicate, Insert, InFlight, TypeOK
  <1>3. events' = events /\ raced' = raced
    BY DEF Create, LookForDuplicate, Insert
  <1>4. \A a \in Agents :
           \/ state'[a] = state[a] /\ origin'[a] = origin[a]
           \/ state[a] = Unregistered /\ state'[a] = "PROVISIONING" /\ origin'[a] = "PROVISIONING"
    BY DEF Create, LookForDuplicate, Insert, TypeOK
  <1>5. ASSUME NEW a \in Agents PROVE Untouched(a)' /\ (a \notin raced' => Replayed(a)')
    <2>1. Untouched(a) /\ (a \notin raced => Replayed(a))
      BY DEF ReplayInv
    <2>2. CASE state'[a] = state[a] /\ origin'[a] = origin[a]
      <3>1. \A n, s : LeadsTo(a, n, s)' = LeadsTo(a, n, s)
        BY <1>3, <2>2 DEF LeadsTo
      <3> QED BY <1>1, <1>2, <1>3, <2>1, <2>2, <3>1 DEF Untouched, Replayed
    <2>3. CASE state[a] = Unregistered /\ state'[a] = "PROVISIONING" /\ origin'[a] = "PROVISIONING"
      <3>1. InFlight(a) = {} /\ \A i \in 1..Len(events) : events[i].agent # a
        BY <2>1, <2>3 DEF Untouched
      <3>2. Untouched(a)'
        BY <1>1, <1>3, <3>1 DEF Untouched
      <3>3. 1..(Len(events) + 1) - 1 = 1..Len(events)
        BY DEF TypeOK
      <3>4. LeadsTo(a, Len(events) + 1, "PROVISIONING")'
        BY <1>3, <2>3, <3>1, <3>3 DEF LeadsTo
      <3> QED BY <1>1, <1>3, <2>3, <3>1, <3>2, <3>4 DEF Replayed
    <2> QED BY <1>4, <2>2, <2>3
  <1> QED BY <1>5 DEF ReplayInv

(* A judged call on a row nobody else is at is where the log leads.        *)
LEMMA JudgeReplayed ==
    ASSUME TypeOK, ReplayInv, NEW c \in Callers, NEW b \in Agents, NEW p \in Tenants,
           NEW to \in AgentState, NEW authority \in Authority,
           Judge(c, b, p, to, authority)
    PROVE  ReplayInv'
  <1> DEFINE e == [agent |-> b, product |-> p, from |-> state[b],
                   to |-> to, authority |-> authority]
  <1>1. e.agent = b /\ e.from = state[b]
    OBVIOUS
  <1>2. pc[c] = "idle" /\ call' = [call EXCEPT ![c] = e]
        /\ pc' = [pc EXCEPT ![c] = "commit"] /\ state[b] # Unregistered
    BY DEF Judge, Found
  <1>3. raced' = (IF InFlight(b) = {} THEN raced ELSE raced \cup {b})
        /\ state' = state /\ events' = events /\ origin' = origin
    BY DEF Judge
  <1> HIDE DEF e
  <1>4. \A a \in Agents : InFlight(a)' = IF a = b THEN InFlight(a) \cup {c} ELSE InFlight(a)
    BY <1>1, <1>2 DEF InFlight, TypeOK
  <1>5. \A a \in Agents : \A d \in InFlight(a) : pc'[d] = pc[d] /\ call'[d] = call[d]
    BY <1>2 DEF InFlight, TypeOK
  <1>6. pc'[c] = "commit" /\ call'[c] = e
    BY <1>2 DEF TypeOK
  <1>7. \A a, n, s : LeadsTo(a, n, s)' = LeadsTo(a, n, s)
    BY <1>3 DEF LeadsTo
  <1>8. ASSUME NEW a \in Agents PROVE Untouched(a)' /\ (a \notin raced' => Replayed(a)')
    <2>1. Untouched(a) /\ (a \notin raced => Replayed(a))
      BY DEF ReplayInv
    <2>2. CASE a = b
      <3>1. Untouched(a)'
        BY <1>2, <1>3, <2>2 DEF Untouched
      <3>2. SUFFICES ASSUME a \notin raced' PROVE Replayed(a)'
        BY <3>1
      <3>3. InFlight(a) = {} /\ Replayed(a)
        BY <1>3, <2>1, <2>2, <3>2
      <3>4. InFlight(a)' = {c}
        BY <1>4, <2>2, <3>3
      <3>5. LeadsTo(a, Len(events) + 1, state[a])
        BY <3>3 DEF Replayed
      <3> QED BY <1>1, <1>3, <1>6, <1>7, <2>2, <3>3, <3>4, <3>5 DEF Replayed
    <2>3. CASE a # b
      <3>1. InFlight(a)' = InFlight(a) /\ (a \notin raced' => a \notin raced)
        BY <1>3, <1>4, <2>3
      <3> QED BY <1>3, <1>5, <1>7, <2>1, <3>1 DEF Untouched, Replayed
    <2> QED BY <2>2, <2>3
  <1> QED BY <1>8 DEF ReplayInv

(* A commit makes the row what the call in progress will say.              *)
LEMMA CommitReplayed ==
    ASSUME TypeOK, Undisturbed, ReplayInv, NEW c \in Callers, Commit(c)
    PROVE  ReplayInv'
  <1>1. \A a \in Agents : InFlight(a)' = InFlight(a) /\ InFlight(a) \subseteq Callers
    BY DEF Commit, InFlight, TypeOK
  <1>2. call[c] \in Event /\ call' = call /\ events' = events /\ origin' = origin /\ raced' = raced
    BY DEF Commit, TypeOK
  <1>3. pc'[c] = "record" /\ \A d \in Callers : d # c => pc'[d] = pc[d]
    BY DEF Commit, TypeOK
  <1>4. call[c].agent \in Agents /\ call[c].to \in AgentState /\ c \in InFlight(call[c].agent)
    BY <1>2 DEF Event, Commit, InFlight
  <1>5. state' = [state EXCEPT ![call[c].agent] = call[c].to]
    BY DEF Commit
  <1>6. \A a, n, s : LeadsTo(a, n, s)' = LeadsTo(a, n, s)
    BY <1>2 DEF LeadsTo
  <1>7. ASSUME NEW a \in Agents PROVE Untouched(a)' /\ (a \notin raced' => Replayed(a)')
    <2>1. Untouched(a) /\ (a \notin raced => Replayed(a))
      BY DEF ReplayInv
    <2>2. CASE a = call[c].agent
      <3>1. state'[a] = call[c].to /\ state'[a] # Unregistered
        BY <1>4, <1>5, <2>2, UnregisteredAssumption DEF TypeOK
      <3>2. Untouched(a)'
        BY <3>1 DEF Untouched
      <3>3. SUFFICES ASSUME a \notin raced' PROVE Replayed(a)'
        BY <3>2
      <3>4. Replayed(a) /\ InFlight(a) = {c}
        BY <1>2, <1>4, <2>1, <2>2, <3>3 DEF Undisturbed, Alone
      <3> QED BY <1>1, <1>2, <1>3, <1>6, <3>1, <3>4 DEF Replayed
    <2>3. CASE a # call[c].agent
      <3>1. state'[a] = state[a] /\ c \notin InFlight(a)
        BY <1>4, <1>5, <2>3 DEF TypeOK, InFlight
      <3>2. \A d \in InFlight(a) : pc'[d] = pc[d]
        BY <1>1, <1>3, <3>1
      <3> QED BY <1>1, <1>2, <1>6, <2>1, <3>1, <3>2 DEF Untouched, Replayed
    <2> QED BY <2>2, <2>3
  <1> QED BY <1>7 DEF ReplayInv

(* The event of a call leads from where the log led to what the row is.    *)
LEMMA RecordReplayed ==
    ASSUME TypeOK, Undisturbed, ReplayInv, NEW c \in Callers, Record(c)
    PROVE  ReplayInv'
  <1> DEFINE b == call[c].agent  n == Len(events)
  <1>1. call[c] \in Event /\ events' = Append(events, call[c])
        /\ origin' = origin /\ state' = state /\ raced' = raced
    BY DEF Record, TypeOK
  <1>2. b \in Agents /\ c \in InFlight(b) /\ pc[c] = "record"
    BY <1>1 DEF Event, Record, InFlight
  <1>3. \A a \in Agents : InFlight(a)' = InFlight(a) \ {c} /\ InFlight(a) \subseteq Callers
    <2>1. pc' = [pc EXCEPT ![c] = "idle"] /\ call' = [call EXCEPT ![c] = NoCall]
      BY DEF Record
    <2> QED BY <2>1 DEF InFlight, TypeOK
  <1>4. \A d \in Callers : d # c => pc'[d] = pc[d] /\ call'[d] = call[d]
    BY DEF Record, TypeOK
  <1>5. /\ n \in Nat /\ Len(events') = n + 1 /\ events'[n + 1] = call[c]
        /\ \A i \in 1..n : events'[i] = events[i]
    BY <1>1 DEF TypeOK
  <1>6. state[b] # Unregistered
    BY <1>2 DEF ReplayInv, Untouched
  <1>7. ASSUME NEW a \in Agents, NEW m \in 1..n + 1, NEW s, LeadsTo(a, m, s)
        PROVE  LeadsTo(a, m, s)'
    BY <1>1, <1>7, LeadsKept
  <1>8. ASSUME NEW a \in Agents PROVE Untouched(a)' /\ (a \notin raced' => Replayed(a)')
    <2>1. Untouched(a) /\ (a \notin raced => Replayed(a))
      BY DEF ReplayInv
    <2>2. CASE a = b
      <3>1. Untouched(a)'
        BY <1>1, <1>6, <2>2 DEF Untouched
      <3>2. SUFFICES ASSUME a \notin raced' PROVE Replayed(a)'
        BY <3>1
      <3>3. Replayed(a) /\ InFlight(a) = {c}
        BY <1>1, <1>2, <2>1, <2>2, <3>2 DEF Undisturbed, Alone
      <3>4. LeadsTo(a, n + 1, call[c].from) /\ call[c].to = state[a]
        BY <1>2, <3>3 DEF Replayed
      <3>5. LeadsTo(a, Len(events) + 1, state[a])'
        <4>1. PICK e \in Event : e = call[c]
          BY <1>1
        <4>2. LeadsTo(e.agent, Len(events) + 1, e.to)'
          BY <1>1, <4>1, LeadsOn
        <4>3. e.agent = a /\ e.to = state'[a]
          BY <1>1, <2>2, <3>4, <4>1
        <4> QED BY <4>2, <4>3
      <3>6. ASSUME NEW i \in 1..n + 1, events'[i].agent = a PROVE LeadsTo(a, i, events[i].from)'
        <4>1. CASE i = n + 1
          BY <1>5, <1>7, <3>4, <4>1
        <4>2. CASE i \in 1..n
          <5>1. LeadsTo(a, i, events[i].from) /\ events'[i] = events[i]
            BY <1>5, <3>3, <3>6, <4>2 DEF Replayed
          <5>2. LeadsTo(a, i, events[i].from)'
            BY <1>7, <5>1
          <5> QED BY <5>1, <5>2
        <4> QED BY <1>5, <4>1, <4>2
      <3>7. InFlight(a)' = {}
        BY <1>3, <3>3
      <3> QED BY <1>5, <3>5, <3>6, <3>7 DEF Replayed
    <2>3. CASE a # b
      <3>1. InFlight(a)' = InFlight(a) /\ \A d \in InFlight(a) : pc'[d] = pc[d] /\ call'[d] = call[d]
        BY <1>3, <1>4, <2>3 DEF InFlight
      <3>2. Untouched(a)'
        BY <1>1, <1>5, <2>1, <2>3, <3>1 DEF Untouched
      <3>3. SUFFICES ASSUME a \notin raced' PROVE Replayed(a)'
        BY <3>2
      <3>4. Replayed(a)
        BY <1>1, <2>1, <3>3
      <3>5. ASSUME NEW s, LeadsTo(a, n + 1, s) PROVE LeadsTo(a, Len(events) + 1, s)'
        BY <1>1, <2>3, <3>5, LeadsPast
      <3>6. ASSUME NEW i \in 1..n + 1, events'[i].agent = a PROVE LeadsTo(a, i, events[i].from)'
        <4>1. i \in 1..n /\ events'[i] = events[i]
          BY <1>5, <2>3, <3>6
        <4>2. LeadsTo(a, i, events[i].from)
          BY <3>4, <3>6, <4>1 DEF Replayed
        <4>3. LeadsTo(a, i, events[i].from)'
          BY <1>7, <4>1, <4>2
        <4> QED BY <4>1, <4>3
      <3> QED BY <1>1, <1>5, <3>1, <3>4, <3>5, <3>6 DEF Replayed
    <2> QED BY <2>2, <2>3
  <1> QED BY <1>8 DEF ReplayInv

(* A restart begins a log that leads to every row.                         *)
LEMMA RestartReplayed ==
    ASSUME TypeOK, Restart
    PROVE  ReplayInv'
  <1>1. /\ events' = <<>> /\ origin' = state /\ state' = state
        /\ \A c \in Callers : pc'[c] = "idle"
    BY DEF Restart
  <1>2. \A a \in Agents : InFlight(a)' = {}
    BY <1>1 DEF InFlight
  <1>3. Len(events') = 0 /\ 1..(0 + 1) - 1 = {}
    BY <1>1
  <1>4. \A a \in Agents : LeadsTo(a, 0 + 1, state[a])'
    BY <1>1, <1>3 DEF LeadsTo
  <1> QED BY <1>1, <1>2, <1>3, <1>4 DEF ReplayInv, Untouched, Replayed

(* Every step of the engine keeps the log one that replays.                *)
LEMMA NextReplayed ==
    ASSUME TypeOK, Undisturbed, ReplayInv, [Next]_vars
    PROVE  ReplayInv'
  <1>1. CASE UNCHANGED vars
    <2>1. \A a, n, s : LeadsTo(a, n, s)' = LeadsTo(a, n, s)
      BY <1>1 DEF vars, LeadsTo
    <2>2. \A a : InFlight(a)' = InFlight(a)
      BY <1>1 DEF vars, InFlight
    <2> QED BY <1>1, <2>1, <2>2 DEF vars, ReplayInv, Untouched, Replayed
  <1> QED BY <1>1, CreateReplayed, JudgeReplayed, CommitReplayed, RecordReplayed, RestartReplayed
      DEF Next, Transition

(* It replays when nothing is registered.                                  *)
LEMMA InitReplayed == Init => ReplayInv
  <1> SUFFICES ASSUME Init PROVE ReplayInv
    OBVIOUS
  <1>1. /\ events = <<>> /\ origin = state /\ \A c \in Callers : pc[c] = "idle"
    BY DEF Init
  <1>2. \A a \in Agents : InFlight(a) = {}
    BY <1>1 DEF InFlight
  <1>3. Len(events) = 0 /\ 1..(0 + 1) - 1 = {}
    BY <1>1
  <1>4. \A a \in Agents : LeadsTo(a, 0 + 1, state[a])
    BY <1>1, <1>3 DEF LeadsTo
  <1> QED BY <1>1, <1>2, <1>3, <1>4 DEF ReplayInv, Untouched, Replayed

(* For any agents and callers, the audit log replays to the registry: as   *)
(* long as no two calls on an agent overlap, its events in log order form  *)
(* one chain of moves from where the log began to the state of its row.    *)
THEOREM LogTells == Spec => []LogReplays
  <1>1. TypeOK /\ Undisturbed /\ ReplayInv => LogReplays
    <2> SUFFICES ASSUME TypeOK, Undisturbed, ReplayInv, NEW a \in Agents, a \notin raced
                 PROVE  /\ \A i \in 1..Len(events) : events[i].agent = a => LeadsTo(a, i, events[i].from)
                        /\ IF Pending(a) = {} THEN LeadsTo(a, Len(events) + 1, state[a])
                           ELSE \A e \in Pending(a) : LeadsTo(a, Len(events) + 1, e.from) /\ e.to = state[a]
      BY DEF LogReplays
    <2>1. Replayed(a) /\ Alone(a)
      BY DEF ReplayInv, Undisturbed
    <2>2. Pending(a) = {} => \A c \in InFlight(a) : pc[c] = "commit"
      BY DEF Pending, InFlight
    <2>3. \A e \in Pending(a) : \E c \in InFlight(a) : pc[c] = "record" /\ e = call[c]
      BY DEF Pending, InFlight
    <2> QED BY <2>1, <2>2, <2>3 DEF Replayed
  <1>2. IInv => TypeOK
    BY DEF IInv
  <1>3. Init => Undisturbed
    BY DEF Init, Undisturbed, Alone, Fresh, InFlight
  <1>4. IInv /\ Undisturbed /\ [Next]_vars => Undisturbed'
    BY NextUndisturbed
  <1>5. TypeOK /\ Undisturbed /\ ReplayInv /\ [Next]_vars => ReplayInv'
    BY NextReplayed
  <1> QED BY <1>1, <1>2, <1>3, <1>4, <1>5, InitReplayed, Invariance, PTL DEF Spec

-----------------------------------------------------------------------------
(* The hierarchy: who is below an agent                                      *)

Edges == Members \X Members

\* An agent is below itself, and the agents below one are closed under the links.
LEMMA BelowIsClosed ==
    ASSUME NEW E, E \subseteq Edges, NEW a \in Members
    PROVE  a \in Below(E, a) /\ Closed(E, Below(E, a)) /\ Below(E, a) \subseteq Members
  <1>1. a \in Below(E, a) /\ Below(E, a) \subseteq Members
    BY DEF Below
  <1>2. ASSUME NEW e \in E, e[1] \in Below(E, a)
        PROVE  e[2] \in Below(E, a)
    <2>1. e[2] \in Members
      BY DEF Edges
    <2>2. ASSUME NEW T \in SUBSET Members, a \in T, Closed(E, T)
          PROVE  e[2] \in T
      <3>1. e[1] \in T
        BY <1>2, <2>2 DEF Below
      <3> QED
        BY <2>2, <3>1 DEF Closed
    <2> QED
      BY <2>1, <2>2 DEF Below
  <1> QED
    BY <1>1, <1>2 DEF Closed

\* They are in every closed set that holds the agent.
LEMMA BelowIsLeast ==
    ASSUME NEW E, NEW a, NEW T \in SUBSET Members, a \in T, Closed(E, T)
    PROVE  Below(E, a) \subseteq T
  BY DEF Below

\* Who is below one below the agent is below the agent.
LEMMA BelowIsTransitive ==
    ASSUME NEW E, E \subseteq Edges, NEW a \in Members, NEW b \in Below(E, a)
    PROVE  b \in Members /\ Below(E, b) \subseteq Below(E, a)
  BY BelowIsClosed, BelowIsLeast, Below(E, a) \in SUBSET Members

\* More links put more agents below one.
LEMMA BelowGrows ==
    ASSUME NEW E, NEW F, E \subseteq F, NEW a
    PROVE  Below(E, a) \subseteq Below(F, a)
  <1>1. \A T : Closed(F, T) => Closed(E, T)
    BY DEF Closed
  <1> QED
    BY <1>1 DEF Below

\* A set of numbers that is not empty has a least one.
LEMMA LeastNumber ==
    ASSUME NEW S, S \subseteq Nat, S # {}
    PROVE  \E n \in S : \A m \in S : ~(m < n)
  <1> DEFINE R == OpToRel(<, Nat)
  <1>1. IsWellFoundedOn(R, Nat)
    BY NatLessThanWellFounded DEF OpToRel
  <1>2. \A m, n \in Nat : m < n => <<m, n>> \in R
    BY DEF OpToRel
  <1> HIDE DEF R
  <1>3. \E n \in S : \A m \in S : ~ (<<m, n>> \in R)
    BY <1>1, WFMin
  <1> QED
    BY <1>2, <1>3

\* Among some subsets of a finite set there is one that none of them is larger than.
LEMMA LargestSubset ==
    ASSUME NEW S, IsFiniteSet(S), NEW B, B \subseteq SUBSET S, B # {}
    PROVE  \E T \in B : \A U \in B : T \subseteq U => U = T
  <1> DEFINE Left(T) == Cardinality(S \ T)
             N == {Left(T) : T \in B}
  <1>1. \A T \in B : S \ T \in SUBSET S /\ IsFiniteSet(S \ T) /\ Left(T) \in Nat
    BY FS_Subset, FS_CardinalityType
  <1>2. N \subseteq Nat /\ N # {}
    BY <1>1
  <1>3. PICK n \in N : \A m \in N : ~(m < n)
    BY <1>2, LeastNumber
  <1>4. PICK T \in B : Left(T) = n
    OBVIOUS
  <1>5. ASSUME NEW U \in B, T \subseteq U
        PROVE  U = T
    <2>1. S \ U \in SUBSET (S \ T)
      BY <1>5
    <2>2. Left(U) <= Left(T) /\ (Left(T) = Left(U) => S \ T = S \ U)
      BY <1>1, <2>1, FS_Subset
    <2>3. ~(Left(U) < Left(T)) /\ Left(U) \in Nat /\ Left(T) \in Nat
      BY <1>1, <1>3, <1>4
    <2>4. Left(U) = Left(T)
      BY <2>2, <2>3
    <2>5. S \ T = S \ U
      BY <2>2, <2>4
    <2> QED
      BY <1>5, <2>5
  <1> QED
    BY <1>4, <1>5

\* Whatever links there are: an agent is below a root or below one on a cycle.
LEMMA RootsShow ==
    ASSUME HierarchyAssumption, links \subseteq Edges
    PROVE  RootsShowAllButCycles
  <1>1. IsFiniteSet(Members)
    BY DEF HierarchyAssumption
  <1>2. ASSUME NEW a \in Members
        PROVE  \/ \E r \in Roots : a \in Below(links, r)
               \/ \E c \in Members : OnCycle(c) /\ a \in Below(links, c)
    <2> DEFINE Above == {x \in Members : a \in Below(links, x)}
               Sets == {Below(links, x) : x \in Above}
    <2>1. a \in Above /\ Sets \subseteq SUBSET Members /\ Sets # {}
      <3>1. a \in Above /\ \A x \in Members : Below(links, x) \subseteq Members
        BY BelowIsClosed
      <3>2. Below(links, a) \in Sets
        BY <3>1
      <3> QED
        BY <3>1, <3>2
    <2> HIDE DEF Sets
    <2>2. PICK T \in Sets : \A U \in Sets : T \subseteq U => U = T
      BY <1>1, <2>1, LargestSubset
    <2> USE DEF Sets
    <2>3. PICK x \in Above : T = Below(links, x)
      OBVIOUS
    <2>4. CASE x \in Roots
      BY <2>3, <2>4
    <2>5. CASE x \notin Roots
      <3>1. PICK e \in links : e[2] = x
        BY <2>3, <2>5 DEF Roots
      <3>2. e[1] \in Members
        BY DEF Edges
      <3>3. x \in Below(links, e[1])
        BY <3>1, <3>2, BelowIsClosed DEF Closed
      <3>4. Below(links, x) \subseteq Below(links, e[1])
        BY <3>2, <3>3, BelowIsTransitive
      <3>5. e[1] \in Above
        BY <2>3, <3>2, <3>4
      <3>6. Below(links, e[1]) = Below(links, x)
        BY <2>2, <2>3, <3>4, <3>5
      <3>7. OnCycle(e[1])
        BY <3>1, <3>2, <3>6, BelowIsClosed DEF OnCycle
      <3> QED
        BY <3>5, <3>7
    <2> QED
      BY <2>4, <2>5
  <1>3. ASSUME NEW r \in Roots, OnCycle(r)
        PROVE  FALSE
    <2>1. PICK e \in links : e[1] = r /\ r \in Below(links, e[2])
      BY <1>3 DEF OnCycle
    <2>2. e[2] \in Members \ {r} /\ Closed(links, Members \ {r})
      BY <1>3 DEF Roots, Closed, Edges
    <2>3. Below(links, e[2]) \subseteq Members \ {r}
      BY <2>2, BelowIsLeast
    <2> QED
      BY <2>1, <2>3
  <1> QED
    BY <1>2, <1>3 DEF RootsShowAllButCycles

-----------------------------------------------------------------------------
(* The walk that builds a tree                                               *)

Frames == [agent : Members, rest : SUBSET Members]

HierarchyTypeOK ==
    /\ links \subseteq Edges
    /\ walk \in [tree : Seq(Members), stack : Seq(Frames), knew : SUBSET Edges]
    /\ validators \in [Operations -> Seq(SUBSET Members)]

\* The tree starts with its agent and holds no one twice.
TreeIsSimple ==
    /\ walk.tree = <<>> => walk = NoWalk
    /\ \A i, j \in DOMAIN walk.tree : i # j => walk.tree[i] # walk.tree[j]

\* Who is in the tree or waits to be visited is below its agent.
WalkStaysBelow ==
    walk.tree # <<>> =>
        /\ Listed \subseteq Below(links, walk.tree[1])
        /\ \A i \in DOMAIN walk.stack : walk.stack[i].rest \subseteq Below(links, walk.tree[1])

\* A child the walk knew of is in the tree or waits to be visited.
WalkMissesNoOne ==
    /\ walk.knew \subseteq links
    /\ \A e \in walk.knew :
         e[1] \in Listed => e[2] \in Listed \/ \E i \in DOMAIN walk.stack : e[2] \in walk.stack[i].rest

HierarchyInv == HierarchyTypeOK /\ TreeIsSimple /\ WalkStaysBelow /\ WalkMissesNoOne

LEMMA HierarchyStart == HierarchyInit => HierarchyInv
  BY DEF HierarchyInit, HierarchyInv, HierarchyTypeOK, TreeIsSimple, WalkStaysBelow, WalkMissesNoOne,
         NoWalk, Listed

LEMMA ChildrenAreBelow ==
    ASSUME HierarchyTypeOK, NEW a \in Members
    PROVE  /\ ChildrenOf(a) \subseteq Members /\ Frame(a) \in Frames /\ Frame(a).rest = ChildrenOf(a)
           /\ \A r \in Members : a \in Below(links, r) => ChildrenOf(a) \subseteq Below(links, r)
           /\ \A e \in links : e[1] = a => e[2] \in ChildrenOf(a)
  <1>1. /\ ChildrenOf(a) \subseteq Members /\ Frame(a) \in Frames /\ Frame(a).rest = ChildrenOf(a)
        /\ \A e \in links : e[1] = a => e[2] \in ChildrenOf(a)
    BY DEF HierarchyTypeOK, Edges, ChildrenOf, Frame, Frames
  <1>2. ASSUME NEW r \in Members, a \in Below(links, r)
        PROVE  ChildrenOf(a) \subseteq Below(links, r)
    BY <1>2, BelowIsClosed DEF HierarchyTypeOK, ChildrenOf, Closed
  <1> QED
    BY <1>1, <1>2

\* A sequence that is appended to.
LEMMA AppendParts ==
    ASSUME NEW S, NEW s \in Seq(S), NEW x \in S
    PROVE  /\ Append(s, x) \in Seq(S) /\ Append(s, x) # <<>> /\ Len(s) \in Nat
           /\ Len(Append(s, x)) = Len(s) + 1 /\ Append(s, x)[Len(s) + 1] = x
           /\ DOMAIN s = 1..Len(s) /\ DOMAIN Append(s, x) = 1..(Len(s) + 1)
           /\ \A i \in 1..Len(s) : Append(s, x)[i] = s[i]
  OBVIOUS

\* The parts of a walk.
LEMMA WalkParts ==
    ASSUME HierarchyTypeOK
    PROVE  \E tree \in Seq(Members), stack \in Seq(Frames), knew \in SUBSET Edges, d \in Nat :
             /\ tree = walk.tree /\ stack = walk.stack /\ knew = walk.knew /\ d = Depth /\ d = Len(stack)
             /\ walk = [tree |-> tree, stack |-> stack, knew |-> knew]
  <1>1. /\ walk.tree \in Seq(Members) /\ walk.stack \in Seq(Frames) /\ walk.knew \in SUBSET Edges
        /\ walk = [tree |-> walk.tree, stack |-> walk.stack, knew |-> walk.knew]
    BY DEF HierarchyTypeOK
  <1>2. Depth \in Nat /\ Depth = Len(walk.stack)
    BY <1>1 DEF Depth
  <1> QED
    BY <1>1, <1>2

Without(stack, d, c) == [stack EXCEPT ![d].rest = @ \ {c}]

LEMMA FrameLess ==
    ASSUME NEW stack \in Seq(Frames), NEW d \in 1..Len(stack), NEW c
    PROVE  /\ Without(stack, d, c) \in Seq(Frames) /\ Len(Without(stack, d, c)) = Len(stack)
           /\ Without(stack, d, c)[d].rest = stack[d].rest \ {c}
           /\ \A i \in 1..Len(stack) : i # d => Without(stack, d, c)[i] = stack[i]
  <1> DEFINE f == [stack[d] EXCEPT !.rest = @ \ {c}]
  <1>1. stack[d] \in Frames
    OBVIOUS
  <1>2. f \in Frames /\ f.rest = stack[d].rest \ {c}
    BY <1>1 DEF Frames
  <1>3. [stack EXCEPT ![d].rest = @ \ {c}] = [stack EXCEPT ![d] = f]
    OBVIOUS
  <1> HIDE DEF f
  <1> DEFINE left == [stack EXCEPT ![d] = f]
  <1>4. /\ left \in Seq(Frames) /\ Len(left) = Len(stack) /\ left[d] = f
        /\ \A i \in 1..Len(stack) : i # d => left[i] = stack[i]
    BY <1>2
  <1> HIDE DEF left
  <1>5. left = Without(stack, d, c)
    BY <1>3 DEF left, Without
  <1> QED
    BY <1>2, <1>4, <1>5

LEMMA AddLinkInv ==
    ASSUME HierarchyInv, NEW p \in Members, NEW c \in Members, AddLink(p, c)
    PROVE  HierarchyInv'
  <1> USE DEF HierarchyInv
  <1>1. links \subseteq links' /\ walk' = walk /\ validators' = validators
    BY DEF AddLink
  <1>2. HierarchyTypeOK' /\ TreeIsSimple'
    BY <1>1 DEF HierarchyTypeOK, TreeIsSimple, AddLink, Edges
  <1>3. \A a : Below(links, a) \subseteq Below(links', a)
    BY <1>1, BelowGrows
  <1>4. WalkStaysBelow'
    BY <1>1, <1>3 DEF WalkStaysBelow, Listed
  <1>5. WalkMissesNoOne'
    BY <1>1 DEF WalkMissesNoOne, Listed
  <1> QED
    BY <1>2, <1>4, <1>5

LEMMA GetHierarchyInv ==
    ASSUME HierarchyInv, NEW root \in Members, GetHierarchy(root)
    PROVE  HierarchyInv'
  <1> USE DEF HierarchyInv
  <1>1. /\ walk' = [tree |-> <<root>>, stack |-> <<Frame(root)>>, knew |-> links]
        /\ links' = links /\ validators' = validators
    BY DEF GetHierarchy
  <1>2. /\ ChildrenOf(root) \subseteq Below(links, root) /\ Frame(root) \in Frames
        /\ Frame(root).rest = ChildrenOf(root) /\ root \in Below(links, root)
        /\ \A e \in links : e[1] = root => e[2] \in ChildrenOf(root)
    BY ChildrenAreBelow, BelowIsClosed DEF HierarchyTypeOK
  <1>3. HierarchyTypeOK'
    BY <1>1, <1>2 DEF HierarchyTypeOK
  <1>4. Listed' = {root} /\ walk'.tree[1] = root /\ walk'.tree # <<>>
    BY <1>1 DEF Listed
  <1>5. walk'.stack[1] = Frame(root) /\ DOMAIN walk'.stack = {1} /\ walk'.knew = links
    BY <1>1
  <1>6. TreeIsSimple'
    BY <1>1 DEF TreeIsSimple
  <1>7. WalkStaysBelow'
    BY <1>1, <1>2, <1>4, <1>5 DEF WalkStaysBelow
  <1>8. WalkMissesNoOne'
    BY <1>1, <1>2, <1>4, <1>5 DEF WalkMissesNoOne
  <1> QED
    BY <1>3, <1>6, <1>7, <1>8

LEMMA VisitChildInv ==
    ASSUME HierarchyInv, NEW child \in Members, VisitChild(child)
    PROVE  HierarchyInv'
  <1> USE DEF HierarchyInv
  <1>1. PICK tree \in Seq(Members), stack \in Seq(Frames), knew \in SUBSET Edges, d \in Nat :
           /\ tree = walk.tree /\ stack = walk.stack /\ knew = walk.knew /\ d = Depth /\ d = Len(stack)
           /\ walk = [tree |-> tree, stack |-> stack, knew |-> knew]
    BY WalkParts
  <1>2. links' = links /\ validators' = validators /\ stack # <<>> /\ child \in stack[d].rest
    BY <1>1 DEF VisitChild
  <1>3. d \in DOMAIN stack /\ stack[d] \in Frames /\ d > 0
    BY <1>1, <1>2
  <1>4. PICK left \in Seq(Frames) :
           /\ left = Without(stack, d, child) /\ Len(left) = d
           /\ left[d].rest = stack[d].rest \ {child} /\ \A i \in 1..d : i # d => left[i] = stack[i]
    <2>1. d \in 1..Len(stack)
      BY <1>1, <1>3
    <2> QED
      BY <1>1, <2>1, FrameLess
  <1>5. tree # <<>>
    BY <1>1, <1>2 DEF TreeIsSimple, NoWalk
  <1>6. tree[1] \in Members /\ child \in Below(links, tree[1])
    BY <1>1, <1>2, <1>3, <1>5 DEF WalkStaysBelow
  <1>7. CASE child \in Listed
    <2>1. walk' = [tree |-> tree, stack |-> left, knew |-> knew] /\ Listed' = Listed
      <3>1. walk' = [walk EXCEPT !.stack = left]
        BY <1>1, <1>4, <1>7 DEF VisitChild, Without
      <3> QED
        BY <1>1, <3>1 DEF Listed
    <2>2. HierarchyTypeOK'
      BY <1>2, <2>1 DEF HierarchyTypeOK
    <2>3. TreeIsSimple'
      BY <1>1, <1>5, <2>1 DEF TreeIsSimple
    <2>4. WalkStaysBelow'
      BY <1>1, <1>2, <1>4, <1>5, <2>1 DEF WalkStaysBelow
    <2>5. WalkMissesNoOne'
      <3>1. walk'.knew = knew /\ walk'.stack = left /\ knew \subseteq links
        BY <1>1, <2>1 DEF WalkMissesNoOne
      <3>2. ASSUME NEW e \in knew, e[1] \in Listed, e[2] \notin Listed
            PROVE  \E i \in DOMAIN left : e[2] \in left[i].rest
        <4>1. PICK i \in 1..d : e[2] \in stack[i].rest
          BY <1>1, <3>2 DEF WalkMissesNoOne
        <4>2. e[2] # child
          BY <1>7, <3>2
        <4>3. e[2] \in left[i].rest
          BY <1>4, <4>1, <4>2
        <4> QED
          BY <1>4, <4>3
      <3> QED
        BY <1>2, <2>1, <3>1, <3>2 DEF WalkMissesNoOne
    <2> QED
      BY <2>2, <2>3, <2>4, <2>5
  <1>8. CASE child \notin Listed
    <2>1. PICK tree1 \in Seq(Members), stack1 \in Seq(Frames) :
             /\ tree1 = Append(tree, child) /\ stack1 = Append(left, Frame(child))
      <3>1. Frame(child) \in Frames
        BY ChildrenAreBelow
      <3>2. Append(tree, child) \in Seq(Members) /\ Append(left, Frame(child)) \in Seq(Frames)
        BY <3>1
      <3> QED
        BY <3>2
    <2>2. walk' = [tree |-> tree1, stack |-> stack1, knew |-> knew]
      BY <1>1, <1>4, <1>8, <2>1 DEF VisitChild, Without
    <2>3. /\ Len(tree1) = Len(tree) + 1 /\ tree1[Len(tree) + 1] = child /\ tree1 # <<>> /\ tree1[1] = tree[1]
          /\ \A i \in 1..Len(tree) : tree1[i] = tree[i]
      <3>1. /\ tree1 # <<>> /\ Len(tree) \in Nat /\ Len(tree1) = Len(tree) + 1
            /\ tree1[Len(tree) + 1] = child /\ \A i \in 1..Len(tree) : tree1[i] = tree[i]
        <4>1. Len(tree) \in Nat /\ Len(Append(tree, child)) = Len(tree) + 1
          OBVIOUS
        <4>2. Append(tree, child)[Len(tree) + 1] = child
          OBVIOUS
        <4>3. Len(<<>>) = 0 /\ Len(Append(tree, child)) # 0
          BY <4>1
        <4>4. \A i \in 1..Len(tree) : Append(tree, child)[i] = tree[i]
          OBVIOUS
        <4> QED
          BY <2>1, <4>1, <4>2, <4>3, <4>4
      <3>2. 1 \in 1..Len(tree)
        BY <1>5, <3>1
      <3> QED
        BY <2>1, <3>1, <3>2
    <2>4. /\ Len(stack1) = d + 1 /\ stack1[d + 1] = Frame(child)
          /\ \A i \in 1..d : stack1[i] = left[i]
      BY <1>4, <2>1
    <2>5. Listed' = Listed \cup {child}
      <3>1. walk'.tree = tree1 /\ DOMAIN tree1 = DOMAIN tree \cup {Len(tree) + 1} /\ DOMAIN tree = 1..Len(tree)
        BY <2>1, <2>2
      <3> QED
        <4>1. Listed' = {tree1[i] : i \in DOMAIN tree1}
          BY <3>1 DEF Listed
        <4>2. Listed = {tree[i] : i \in DOMAIN tree}
          BY <1>1 DEF Listed
        <4> QED
          <5>1. \A i \in DOMAIN tree : i \in DOMAIN tree1 /\ tree1[i] = tree[i]
            BY <2>3, <3>1
          <5>2. Len(tree) + 1 \in DOMAIN tree1 /\ tree1[Len(tree) + 1] = child
            BY <2>3, <3>1
          <5>3. \A i \in DOMAIN tree1 : i \in DOMAIN tree \/ i = Len(tree) + 1
            BY <3>1
          <5> QED
            BY <4>1, <4>2, <5>1, <5>2, <5>3
    <2>6. HierarchyTypeOK'
      BY <1>2, <2>2 DEF HierarchyTypeOK
    <2>7. TreeIsSimple'
      <3>1. \A i \in 1..Len(tree) : tree[i] # child
        BY <1>1, <1>8 DEF Listed
      <3>2. \A i, j \in 1..Len(tree) : i # j => tree[i] # tree[j]
        BY <1>1 DEF TreeIsSimple
      <3>3. \A i \in DOMAIN tree1 : i \in 1..Len(tree) \/ i = Len(tree) + 1
        BY <2>3
      <3>4. ASSUME NEW i \in DOMAIN tree1, NEW j \in DOMAIN tree1, i # j
            PROVE  tree1[i] # tree1[j]
        BY <2>3, <3>1, <3>2, <3>3, <3>4
      <3> QED
        BY <2>2, <2>3, <3>4 DEF TreeIsSimple
    <2>8. Frame(child).rest = ChildrenOf(child) /\ ChildrenOf(child) \subseteq Below(links, tree[1])
      BY <1>6, ChildrenAreBelow
    <2>9. WalkStaysBelow'
      <3>1. Listed' \subseteq Below(links, tree[1])
        BY <1>1, <1>5, <1>6, <2>5 DEF WalkStaysBelow
      <3>2. \A i \in 1..d : stack1[i].rest \subseteq Below(links, tree[1])
        <4>1. \A i \in 1..d : stack[i].rest \subseteq Below(links, tree[1])
          BY <1>1, <1>5 DEF WalkStaysBelow
        <4>2. \A i \in 1..d : left[i].rest \subseteq stack[i].rest
          BY <1>4
        <4> QED
          BY <2>4, <4>1, <4>2
      <3>3. \A i \in DOMAIN stack1 : i \in 1..d \/ i = d + 1
        BY <2>4
      <3> QED
        BY <1>2, <2>2, <2>3, <2>4, <2>8, <3>1, <3>2, <3>3 DEF WalkStaysBelow
    <2>10. WalkMissesNoOne'
      <3>1. walk'.knew = knew /\ walk'.stack = stack1 /\ knew \subseteq links
        BY <1>1, <2>2 DEF WalkMissesNoOne
      <3>2. ASSUME NEW e \in knew, e[1] \in Listed'
            PROVE  e[2] \in Listed' \/ \E i \in DOMAIN stack1 : e[2] \in stack1[i].rest
        <4>1. CASE e[1] = child
          <5>1. e[2] \in stack1[d + 1].rest /\ d + 1 \in DOMAIN stack1
            BY <2>4, <2>8, <3>1, <4>1, ChildrenAreBelow
          <5> QED
            BY <5>1
        <4>2. CASE e[1] # child /\ e[2] \notin Listed'
          <5>1. e[1] \in Listed /\ e[2] \notin Listed /\ e[2] # child
            BY <2>5, <3>2, <4>2
          <5>2. PICK i \in 1..d : e[2] \in stack[i].rest
            <6>1. e \in walk.knew /\ DOMAIN walk.stack = 1..d
              BY <1>1, <3>2
            <6> QED
              BY <1>1, <5>1, <6>1 DEF WalkMissesNoOne
          <5>3. e[2] \in left[i].rest
            BY <1>4, <5>1, <5>2
          <5>4. stack1[i] = left[i] /\ i \in DOMAIN stack1
            BY <2>4, <5>2
          <5> QED
            BY <5>3, <5>4
        <4> QED
          BY <4>1, <4>2
      <3> QED
        BY <1>2, <3>1, <3>2 DEF WalkMissesNoOne
    <2> QED
      BY <2>6, <2>7, <2>9, <2>10
  <1> QED
    BY <1>7, <1>8

LEMMA LeaveNodeInv ==
    ASSUME HierarchyInv, LeaveNode
    PROVE  HierarchyInv'
  <1> USE DEF HierarchyInv
  <1>1. PICK tree \in Seq(Members), stack \in Seq(Frames), knew \in SUBSET Edges, d \in Nat :
           /\ tree = walk.tree /\ stack = walk.stack /\ knew = walk.knew /\ d = Depth /\ d = Len(stack)
           /\ walk = [tree |-> tree, stack |-> stack, knew |-> knew]
    BY WalkParts
  <1>2. links' = links /\ validators' = validators /\ stack # <<>> /\ stack[d].rest = {} /\ d > 0
    BY <1>1 DEF LeaveNode
  <1>3. PICK left \in Seq(Frames) :
           left = SubSeq(stack, 1, d - 1) /\ Len(left) = d - 1 /\ \A i \in 1..(d - 1) : left[i] = stack[i]
    <2>1. d - 1 \in Nat /\ d - 1 <= Len(stack)
      BY <1>1, <1>2
    <2>2. \A k \in Nat : k <= Len(stack) =>
            /\ SubSeq(stack, 1, k) \in Seq(Frames) /\ Len(SubSeq(stack, 1, k)) = k
            /\ \A i \in 1..k : SubSeq(stack, 1, k)[i] = stack[i]
      OBVIOUS
    <2> QED
      BY <2>1, <2>2
  <1>4. walk' = [tree |-> tree, stack |-> left, knew |-> knew] /\ Listed' = Listed
    BY <1>1, <1>3 DEF LeaveNode, Listed
  <1>5. tree # <<>>
    BY <1>1, <1>2 DEF TreeIsSimple, NoWalk
  <1>6. HierarchyTypeOK'
    BY <1>2, <1>4 DEF HierarchyTypeOK
  <1>7. TreeIsSimple'
    BY <1>1, <1>4, <1>5 DEF TreeIsSimple
  <1>8. WalkStaysBelow'
    BY <1>1, <1>2, <1>3, <1>4 DEF WalkStaysBelow
  <1>9. WalkMissesNoOne'
    <2>1. \A i \in 1..d : stack[i].rest # {} => i \in 1..(d - 1)
      BY <1>2
    <2>2. ASSUME NEW e \in knew, e[1] \in Listed, e[2] \notin Listed
          PROVE  \E i \in 1..(d - 1) : e[2] \in left[i].rest
      <3>1. PICK i \in 1..d : e[2] \in stack[i].rest
        BY <1>1, <2>2 DEF WalkMissesNoOne
      <3>2. i \in 1..(d - 1)
        BY <2>1, <3>1
      <3> QED
        BY <1>3, <3>1, <3>2
    <2>3. walk'.knew = knew /\ walk'.stack = left /\ DOMAIN left = 1..(d - 1) /\ knew \subseteq links
      BY <1>1, <1>3, <1>4 DEF WalkMissesNoOne
    <2> QED
      BY <1>2, <1>4, <2>2, <2>3 DEF WalkMissesNoOne
  <1> QED
    BY <1>6, <1>7, <1>8, <1>9

LEMMA RegisterValidatorInv ==
    ASSUME HierarchyInv, NEW op \in Operations, NEW lets \in SUBSET Members, RegisterValidator(op, lets)
    PROVE  HierarchyInv'
  <1> USE DEF HierarchyInv
  <1>1. links' = links /\ walk' = walk
    BY DEF RegisterValidator
  <1>2. HierarchyTypeOK'
    BY <1>1 DEF HierarchyTypeOK, RegisterValidator
  <1> QED
    BY <1>1, <1>2 DEF TreeIsSimple, WalkStaysBelow, WalkMissesNoOne, Listed

LEMMA HierarchyStep == HierarchyInv /\ [HierarchyNext]_hierarchyVars => HierarchyInv'
  <1> SUFFICES ASSUME HierarchyInv, [HierarchyNext]_hierarchyVars
               PROVE  HierarchyInv'
    OBVIOUS
  <1>1. CASE UNCHANGED hierarchyVars
    BY <1>1 DEF hierarchyVars, HierarchyInv, HierarchyTypeOK, TreeIsSimple, WalkStaysBelow, WalkMissesNoOne, Listed
  <1>2. CASE HierarchyNext
    BY <1>2, AddLinkInv, GetHierarchyInv, VisitChildInv, LeaveNodeInv, RegisterValidatorInv DEF HierarchyNext
  <1> QED
    BY <1>1, <1>2

\* A tree that is built holds everyone who was below its agent, and no one else.
LEMMA TreeIsWhole == HierarchyInv => TreeHoldsEveryoneOnce
  <1> SUFFICES ASSUME HierarchyInv, walk # NoWalk, walk.stack = <<>>
               PROVE  /\ Below(walk.knew, walk.tree[1]) \subseteq Listed
                      /\ Listed \subseteq Below(links, walk.tree[1])
                      /\ \A i, j \in DOMAIN walk.tree : i # j => walk.tree[i] # walk.tree[j]
    BY DEF TreeHoldsEveryoneOnce
  <1> USE DEF HierarchyInv
  <1>1. walk.tree # <<>> /\ walk.tree[1] \in Listed /\ Listed \in SUBSET Members
    BY DEF TreeIsSimple, HierarchyTypeOK, Listed
  <1>2. Closed(walk.knew, Listed)
    BY DEF WalkMissesNoOne, Closed
  <1>3. Below(walk.knew, walk.tree[1]) \subseteq Listed
    BY <1>1, <1>2, BelowIsLeast
  <1> QED
    BY <1>1, <1>3 DEF TreeIsSimple, WalkStaysBelow

\* A validator that is added lets no one pass who did not pass.
LEMMA Narrows ==
    ASSUME HierarchyInv, [HierarchyNext]_hierarchyVars,
           NEW op \in Operations, NEW a \in Members, validators[op] # <<>>, Passes(op, a)'
    PROVE  Passes(op, a)
  <1>1. CASE validators' = validators
    BY <1>1 DEF Passes
  <1>2. ASSUME NEW o \in Operations, NEW lets \in SUBSET Members, RegisterValidator(o, lets)
        PROVE  Passes(op, a)
    <2>1. PICK old \in Seq(SUBSET Members), new \in Seq(SUBSET Members) :
             old = validators[op] /\ new = validators'[op] /\ (new = old \/ new = Append(old, lets))
      <3>1. validators \in [Operations -> Seq(SUBSET Members)]
        BY DEF HierarchyInv, HierarchyTypeOK
      <3>2. validators' = [validators EXCEPT ![o] = Append(@, lets)]
        BY <1>2 DEF RegisterValidator
      <3>3. validators'[op] = IF op = o THEN Append(validators[op], lets) ELSE validators[op]
        BY <3>1, <3>2
      <3>4. validators[op] \in Seq(SUBSET Members)
        BY <3>1
      <3>5. Append(validators[op], lets) \in Seq(SUBSET Members)
        BY <3>4, AppendParts
      <3> QED
        BY <3>3, <3>4, <3>5
    <2>2. DOMAIN old \subseteq DOMAIN new /\ \A i \in DOMAIN old : new[i] = old[i]
      <3>1. CASE new = old
        BY <3>1
      <3>2. CASE new = Append(old, lets)
        <4>1. DOMAIN old = 1..Len(old) /\ DOMAIN new = 1..(Len(old) + 1) /\ Len(old) \in Nat
              /\ \A i \in 1..Len(old) : new[i] = old[i]
          BY <3>2, AppendParts
        <4> QED
          BY <4>1
      <3> QED
        BY <2>1, <3>1, <3>2
    <2> QED
      BY <2>1, <2>2 DEF Passes
  <1> QED
    BY <1>1, <1>2 DEF HierarchyNext, hierarchyVars, AddLink, GetHierarchy, VisitChild, LeaveNode

\* What every sequence of links, trees and validators keeps of the hierarchy
\* (RegistryService, DAGConstraintHook).
THEOREM HierarchyInvariant == HierarchySpec => []HierarchyInv
  BY HierarchyStart, HierarchyStep, PTL DEF HierarchySpec

\* The hierarchy shows everyone below an agent whatever links were made, and its
\* guards only ever narrow what an operation admits.
THEOREM HierarchyHoldsAlways == HierarchySpec => HierarchyHolds
  <1>1. HierarchyInv => TreeHoldsEveryoneOnce /\ RootsShowAllButCycles
    BY TreeIsWhole, RootsShow, HierarchyAssumption DEF HierarchyInv, HierarchyTypeOK
  <1> DEFINE Narrow == \A op \in Operations, a \in Members :
                          validators[op] # <<>> => (Passes(op, a)' => Passes(op, a))
  <1>2. HierarchyInv /\ [HierarchyNext]_hierarchyVars => [Narrow]_hierarchyVars
    BY Narrows
  <1> QED
    BY <1>1, <1>2, HierarchyInvariant, PTL DEF HierarchySpec, HierarchyHolds, ValidatorsNarrow
=============================================================================
