--------------------------- MODULE AgentLifecycle ---------------------------
(***************************************************************************)
(* The agent registry rows and StateMachine.transition_state, as threads   *)
(* run them.  A call uses three separate sessions: it reads the agent's    *)
(* state and applies the policy to what it read, it overwrites the column  *)
(* (update_lifecycle_state re-reads the row but never re-checks it), and   *)
(* it appends an event to the in-memory log.  create_agent looks for the   *)
(* key and then inserts; the unique constraint is the database's.          *)
(*                                                                         *)
(* A refused or failed call changes nothing and is not a step.  An agent   *)
(* stands for its key (name, tenant, layer), whose row is never deleted.   *)
(***************************************************************************)
EXTENDS Naturals, Sequences, TransitionPolicy

CONSTANTS
    Agents,         \* registry keys
    Tenants,        \* product ids
    Home,           \* [Agents -> Tenants], the tenant of each key
    Callers,        \* threads inside the engine
    Unregistered,   \* a key without a row
    MaxEvents       \* bound on the log and the calls in flight together

ASSUME HomeAssumption == Home \in [Agents -> Tenants]
ASSUME UnregisteredAssumption == Unregistered \notin AgentState
ASSUME MaxEventsAssumption == MaxEvents \in Nat

VARIABLES
    state,      \* lifecycle_state of each key's row
    events,     \* the backend's list of TransitionEvents
    pc,         \* where each caller is
    call,       \* what it is carrying out, from_state being what it read
    origin,     \* each agent's state when the current log began (history)
    raced       \* agents two calls have overlapped on since then (history)

vars == <<state, events, pc, call, origin, raced>>

Event == [agent : Agents, product : Tenants, from : AgentState,
          to : AgentState, authority : Authority]

NoCall == [agent |-> "none"]

(* The callers that have judged a request for the agent and not recorded it. *)
InFlight(a) == {c \in Callers : pc[c] \in {"commit", "record"} /\ call[c].agent = a}

-----------------------------------------------------------------------------
(* Faulty variants, each a mistake the properties below must notice.       *)

(* create_agent as an upsert: the insert does not meet a constraint. *)
UpsertingInsert(c) ==
    /\ pc[c] = "insert"
    /\ state' = [state EXCEPT ![call[c].agent] = "PROVISIONING"]
    /\ pc' = [pc EXCEPT ![c] = "idle"]
    /\ call' = [call EXCEPT ![c] = NoCall]
    /\ origin' = [origin EXCEPT ![call[c].agent] =
                     IF @ = Unregistered THEN "PROVISIONING" ELSE @]
    /\ UNCHANGED <<events, raced>>

(* transition_state that writes its event before the commit, then fails. *)
EventWithoutCommit(c) ==
    /\ pc[c] = "commit"
    /\ pc' = [pc EXCEPT ![c] = "record"]
    /\ UNCHANGED <<state, events, call, origin, raced>>

(* transition_state without the terminal guard and the matrix lookup. *)
UncheckedJudge(c, a, p, to, authority) ==
    /\ pc[c] = "idle"
    /\ Len(events) < MaxEvents
    /\ state[a] # Unregistered /\ Home[a] = p
    /\ pc' = [pc EXCEPT ![c] = "commit"]
    /\ call' = [call EXCEPT ![c] =
                   [agent |-> a, product |-> p, from |-> state[a],
                    to |-> to, authority |-> authority]]
    /\ raced' = IF InFlight(a) = {} THEN raced ELSE raced \cup {a}
    /\ UNCHANGED <<state, events, origin>>

(* get_agent filtering on the id alone. *)
AnyTenant(a, p) == state[a] # Unregistered
-----------------------------------------------------------------------------

Init ==
    /\ state = [a \in Agents |-> Unregistered]
    /\ events = <<>>
    /\ pc = [c \in Callers |-> "idle"]
    /\ call = [c \in Callers |-> NoCall]
    /\ origin = state
    /\ raced = {}

(* _require_agent: the row exists and belongs to the caller's tenant. *)
Found(a, p) == state[a] # Unregistered /\ Home[a] = p

(* create_agent: the duplicate query. *)
LookForDuplicate(c, a) ==
    /\ pc[c] = "idle"
    /\ state[a] = Unregistered
    /\ pc' = [pc EXCEPT ![c] = "insert"]
    /\ call' = [call EXCEPT ![c] = [agent |-> a]]
    /\ UNCHANGED <<state, events, origin, raced>>

(* create_agent: the insert; a second row with the key is an               *)
(* IntegrityError.                                                         *)
Insert(c) ==
    /\ pc[c] = "insert"
    /\ LET a == call[c].agent
           fresh == state[a] = Unregistered
       IN  /\ state' = IF fresh THEN [state EXCEPT ![a] = "PROVISIONING"] ELSE state
           /\ origin' = IF fresh THEN [origin EXCEPT ![a] = "PROVISIONING"] ELSE origin
    /\ pc' = [pc EXCEPT ![c] = "idle"]
    /\ call' = [call EXCEPT ![c] = NoCall]
    /\ UNCHANGED <<events, raced>>

(* transition_state, steps 1 to 5: read the state and judge the request.   *)
Judge(c, a, p, to, authority) ==
    /\ pc[c] = "idle"
    /\ Len(events) < MaxEvents
    /\ Found(a, p)
    /\ Permitted(state[a], to, authority)
    /\ pc' = [pc EXCEPT ![c] = "commit"]
    /\ call' = [call EXCEPT ![c] =
                   [agent |-> a, product |-> p, from |-> state[a],
                    to |-> to, authority |-> authority]]
    /\ raced' = IF InFlight(a) = {} THEN raced ELSE raced \cup {a}
    /\ UNCHANGED <<state, events, origin>>

(* Step 6: update_lifecycle_state in a session of its own. *)
Commit(c) ==
    /\ pc[c] = "commit"
    /\ state' = [state EXCEPT ![call[c].agent] = call[c].to]
    /\ pc' = [pc EXCEPT ![c] = "record"]
    /\ UNCHANGED <<events, call, origin, raced>>

(* Steps 7 and 8: record_event, and the return. *)
Record(c) ==
    /\ pc[c] = "record"
    /\ events' = Append(events, call[c])
    /\ pc' = [pc EXCEPT ![c] = "idle"]
    /\ call' = [call EXCEPT ![c] = NoCall]
    /\ UNCHANGED <<state, origin, raced>>

(* The process restarts: rows survive, the in-memory log and every call    *)
(* in progress do not.                                                     *)
Restart ==
    /\ events' = <<>>
    /\ pc' = [c \in Callers |-> "idle"]
    /\ call' = [c \in Callers |-> NoCall]
    /\ origin' = state
    /\ raced' = {}
    /\ UNCHANGED state

Create(c) == (\E a \in Agents : LookForDuplicate(c, a)) \/ Insert(c)

Transition(c) ==
    \/ \E a \in Agents, p \in Tenants, to \in AgentState, authority \in Authority :
           Judge(c, a, p, to, authority)
    \/ Commit(c)
    \/ Record(c)

Next == Restart \/ \E c \in Callers : Create(c) \/ Transition(c)

Spec == Init /\ [][Next]_vars

-----------------------------------------------------------------------------
(* Properties.                                                             *)

(* The shape of every variable: registry rows hold a lifecycle state or    *)
(* nothing, and a caller past its reads carries a complete event.          *)
TypeOK ==
    /\ state \in [Agents -> AgentState \cup {Unregistered}]
    /\ events \in Seq(Event)
    /\ pc \in [Callers -> {"idle", "insert", "commit", "record"}]
    /\ call \in [Callers -> Event \cup [agent : Agents] \cup {NoCall}]
    /\ \A c \in Callers : pc[c] \in {"commit", "record"} => call[c] \in Event
    /\ \A c \in Callers : pc[c] = "insert" => call[c] \in [agent : Agents]
    /\ origin \in [Agents -> AgentState \cup {Unregistered}]
    /\ raced \subseteq Agents

Lawful(e) ==
    /\ Permitted(e.from, e.to, e.authority)
    /\ e.product = Home[e.agent]

(* Whatever the interleaving, an event in the audit log is a transition    *)
(* its authority may assert, made under the agent's own tenant: the        *)
(* engine's checks and its tenant-scoped read survive to the record.       *)
LogIsLawful == \A i \in 1..Len(events) : Lawful(events[i])

Pending(a) == {call[c] : c \in {d \in Callers : pc[d] = "record" /\ call[d].agent = a}}
Logged(a) == {events[i] : i \in {j \in 1..Len(events) : events[j].agent = a}}

(* No silent change: the state an agent is in is the one it had when the   *)
(* log began, or the target of an event in the log or about to be written. *)
StateIsExplained ==
    \A a \in Agents :
        \/ state[a] = origin[a]
        \/ \E e \in Logged(a) \cup Pending(a) : e.to = state[a]

(* The log and the registry are well formed and account for each other: every *)
(* event is lawful and every state has an event behind it.                    *)
LogIsSound == TypeOK /\ LogIsLawful /\ StateIsExplained

(* Registering a key never resets an agent that is already past            *)
(* PROVISIONING, even when two callers found the key free.                 *)
NeverReprovisioned ==
    [][\A a \in Agents :
           state'[a] = "PROVISIONING" => state[a] \in {Unregistered, "PROVISIONING"}]_vars

(* The log's events of an agent before a position lead to a state: it is   *)
(* the target of the last of them, or what the log began with.             *)
LeadsTo(a, n, s) ==
    LET own == {i \in 1..n - 1 : events[i].agent = a}
    IN  \/ own = {} /\ s = origin[a]
        \/ \E i \in own : s = events[i].to /\ \A j \in own : j <= i

(* While no two calls on an agent overlap, its events, in log order, lead   *)
(* from the state the log began with to the state its row holds; a commit  *)
(* not yet recorded is the last link.                                      *)
LogReplays ==
    \A a \in Agents \ raced :
        LET end == Len(events) + 1
        IN  /\ \A i \in 1..Len(events) : events[i].agent = a => LeadsTo(a, i, events[i].from)
            /\ IF Pending(a) = {} THEN LeadsTo(a, end, state[a])
               ELSE \A e \in Pending(a) : LeadsTo(a, end, e.from) /\ e.to = state[a]

(* The engine implements the policy: while no two calls on an agent        *)
(* overlap, each commit is a permitted move from the state the agent is    *)
(* then in.                                                                *)
Policy == INSTANCE LifecycleSpec
ImplementsPolicy == Policy!Spec

-----------------------------------------------------------------------------
(* enums.py says TERMINATED is "terminal - no exit"; racing callers leave  *)
(* it.                                                                     *)
TerminatedIsFinal ==
    [][\A a \in Agents : state[a] = "TERMINATED" => state'[a] = "TERMINATED"]_vars
=============================================================================
