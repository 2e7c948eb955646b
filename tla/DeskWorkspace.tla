---------------------------- MODULE DeskWorkspace ----------------------------
(* A seat's desk: its provisioning (onboarding_suite.py), the agents its     *)
(* roster adds and runs (contributor_workspace.py, contributor.py,           *)
(* agent_runtime.py), and what is kept on it: files, messages, saved queries *)
(* and runbooks (workspace.py, routes/wace.py).  A service reads whole rows  *)
(* and saves whole rows; every save and every receipt is its own commit.     *)
EXTENDS DeskBlueprint, FiniteSets

CONSTANTS
    Seats,        \* contributors: a seat owns the one desk made for it
    Clerks,       \* requests in progress
    RoleWords,    \* roles a visitor may send, "" when none
    Agents,       \* agents asked for by key
    MaxItems,     \* bound: items ever kept
    NoDesk, NoProfile

ASSUME WorkspaceAssumption == MaxItems \in Nat

VARIABLES
    ground,     \* the rows below the desk's: <<seat, "venture">>, <<seat, "milestone">>
    desks,      \* the role the desk's row has, or NoDesk
    profiles,   \* the agents a profile adds, by discipline, or NoProfile
    runs,       \* the log of agent runs: <<seat, pick>>
    shelf,      \* what is kept, as [id, seat, kind]
    told,       \* receipts: <<seat, event, what>>
    clerk,      \* what each request holds
    items,      \* items ever kept
    interleaved,      \* history: seats whose profile was saved while another request held it
    granted,    \* history: <<seat, pick>> once saved
    dropped     \* history: requests that stopped before their receipt

deskVars == <<ground, desks, profiles, runs, shelf, told, clerk, items, interleaved, granted, dropped>>

AtRest == [at |-> "rest"]

\* A seat comes with the desk of an earlier visit or without; without a profile when its
\* registration stopped (DeskAccounts).
DeskInit ==
    /\ desks \in [Seats -> {NoDesk, "it_ops"}]
    /\ ground = {s \in Seats : desks[s] # NoDesk} \X {"venture", "milestone"}
    /\ profiles \in [Seats -> {NoProfile, {}}]
    /\ runs = {} /\ shelf = {} /\ told = {}
    /\ clerk = [c \in Clerks |-> AtRest]
    /\ items = 0 /\ interleaved = {} /\ granted = {} /\ dropped = {}

Starts(c, job) == clerk[c] = AtRest /\ clerk' = [clerk EXCEPT ![c] = job]
Holds(c, stage) == clerk[c].at = stage
Moves(c, stage) == clerk' = [clerk EXCEPT ![c].at = stage]
Ends(c) == clerk' = [clerk EXCEPT ![c] = AtRest]

\* _own and _owned_wu: the desk is there and is the seat's.
Owns(s) == desks[s] # NoDesk
Discipline(s) == DisciplineOf(desks[s])

\* A venture's own vertical unless it is missing or generic, else the one its idea speaks
\* of; a personal desk's venture is generic and has no idea behind it.
VentureVertical(stored, idea) ==
    IF stored \in Verticals \ {"generic"} THEN stored ELSE DeriveVertical(idea)

-----------------------------------------------------------------------------
\* ensure_personal_desk: each row is its own commit, the desk's last.
MyDesk(c, s, word) ==
    LET role == IF word = "" THEN "it_ops" ELSE word
    IN  /\ desks[s] # role
        /\ Starts(c, [at |-> IF Owns(s) THEN "desk" ELSE "venture", seat |-> s, role |-> role])
        /\ UNCHANGED <<ground, desks, profiles, runs, shelf, told, items, interleaved, granted, dropped>>

PutGround(c) ==
    /\ \/ Holds(c, "venture") /\ Moves(c, "milestone")
       \/ Holds(c, "milestone") /\ Moves(c, "desk")
    /\ ground' = ground \cup {<<clerk[c].seat, clerk[c].at>>}
    /\ UNCHANGED <<desks, profiles, runs, shelf, told, items, interleaved, granted, dropped>>

PutDesk(c) ==
    /\ Holds(c, "desk")
    /\ desks' = [desks EXCEPT ![clerk[c].seat] = clerk[c].role]
    /\ Ends(c)
    /\ UNCHANGED <<ground, profiles, runs, shelf, told, items, interleaved, granted, dropped>>

-----------------------------------------------------------------------------
Pick(d, a) == [discipline |-> d, agent |-> a]
AddedTo(s, d) == IF profiles[s] = NoProfile THEN {} ELSE {a \in Agents : Pick(d, a) \in profiles[s]}

\* What the room shows: the kit and the added agents that are known.
Allocated(s, d) == BaseKit(d).agents \cup {a \in AddedTo(s, d) : FindAgent(d, a)}
Offered(s, d) == AgentCatalog[d] \ Allocated(s, d)

\* What the runtime lets run.
Roster(s, d) == BaseKit(d).agents \cup AddedTo(s, d)

Profiling(s) ==
    {c \in Clerks : clerk[c].at \in {"grant", "profile"} /\ clerk[c].seat = s}

\* Mutant: the request puts its agent where the others were.
AskAnew(c, s, a) ==
    /\ Owns(s) /\ profiles[s] # NoProfile
    /\ LET pick == Pick(Discipline(s), a)
       IN  /\ a \in AgentCatalog[Discipline(s)] /\ pick \notin profiles[s]
           /\ Starts(c, [at |-> "grant", seat |-> s, what |-> pick, row |-> {pick}])
    /\ UNCHANGED <<ground, desks, profiles, runs, shelf, told, items, interleaved, granted, dropped>>

\* request_agent: refused without a profile; an agent already there is no change.
AskAgent(c, s, a) ==
    /\ Owns(s) /\ profiles[s] # NoProfile
    /\ LET pick == Pick(Discipline(s), a)
       IN  /\ a \in AgentCatalog[Discipline(s)] /\ pick \notin profiles[s]
           /\ Starts(c, [at |-> "grant", seat |-> s, what |-> pick,
                         row |-> profiles[s] \cup {pick}])
    /\ UNCHANGED <<ground, desks, profiles, runs, shelf, told, items, interleaved, granted, dropped>>

\* update_profile and promote load the row and save it whole, the added agents with it.
EditProfile(c, s, event) ==
    /\ profiles[s] # NoProfile
    /\ Starts(c, [at |-> "profile", seat |-> s, what |-> [edit |-> event], row |-> profiles[s]])
    /\ UNCHANGED <<ground, desks, profiles, runs, shelf, told, items, interleaved, granted, dropped>>

SaveProfile(c) ==
    LET s == clerk[c].seat
    IN  /\ clerk[c].at \in {"grant", "profile"}
        /\ profiles' = [profiles EXCEPT ![s] = clerk[c].row]
        /\ granted' = IF Holds(c, "grant") THEN granted \cup {<<s, clerk[c].what>>} ELSE granted
        /\ interleaved' = IF Profiling(s) # {c} THEN interleaved \cup {s} ELSE interleaved
        /\ clerk' = [clerk EXCEPT ![c] =
                [at |-> "receipt", seat |-> s, what |-> @.what,
                 event |-> IF @.at = "grant" THEN "agent_added" ELSE @.what.edit]]
        /\ UNCHANGED <<ground, desks, runs, shelf, told, items, dropped>>

-----------------------------------------------------------------------------
\* The calls on a desk's behalf to an agent; only a run is logged, and the reading of a
\* terminal asks no roster.
Consult(c, s, event, a) ==
    /\ Owns(s)
    /\ \/ /\ event \in {"run", "shift_report", "investigate", "analyze"}
          /\ a \in Roster(s, Discipline(s)) /\ FindAgent(Discipline(s), a)
          /\ Starts(c, [at |-> IF event = "run" THEN "log" ELSE "receipt", seat |-> s,
                        what |-> Pick(Discipline(s), a), event |-> event])
       \/ /\ event = "explain"
          /\ Starts(c, [at |-> "receipt", seat |-> s, what |-> [host |-> "named"], event |-> event])
    /\ UNCHANGED <<ground, desks, profiles, runs, shelf, told, items, interleaved, granted, dropped>>

\* The draft is back, from the gateway or made up, and the run is saved.
LogRun(c) ==
    /\ Holds(c, "log")
    /\ runs' = runs \cup {<<clerk[c].seat, clerk[c].what>>}
    /\ Moves(c, "receipt")
    /\ UNCHANGED <<ground, desks, profiles, shelf, told, items, interleaved, granted, dropped>>

\* save_file and post save and then write a receipt; a query or a runbook has none.
Receipted == {"file", "message"}

Keep(c, s, kind) ==
    /\ Owns(s) /\ items < MaxItems
    /\ items' = items + 1
    /\ shelf' = shelf \cup {[id |-> items', seat |-> s, kind |-> kind]}
    /\ IF kind \in Receipted
       THEN Starts(c, [at |-> "receipt", seat |-> s, what |-> [item |-> items'], event |-> kind])
       ELSE UNCHANGED clerk
    /\ UNCHANGED <<ground, desks, profiles, runs, told, interleaved, granted, dropped>>

\* A file goes from its own desk; the routes for the other two ask only for a desk of
\* the caller's.  A message stays.
Discard(s, i) ==
    /\ Owns(s) /\ i \in shelf
    /\ \/ i.kind = "file" /\ i.seat = s
       \/ i.kind \in {"query", "runbook"}
    /\ shelf' = shelf \ {i}
    /\ UNCHANGED <<ground, desks, profiles, runs, told, clerk, items, interleaved, granted, dropped>>

-----------------------------------------------------------------------------
WriteReceipt(c) ==
    /\ Holds(c, "receipt")
    /\ told' = told \cup {<<clerk[c].seat, clerk[c].event, clerk[c].what>>}
    /\ Ends(c)
    /\ UNCHANGED <<ground, desks, profiles, runs, shelf, items, interleaved, granted, dropped>>

\* The process stops or the database fails under a request.
Drop(c) ==
    /\ clerk[c] # AtRest /\ Ends(c)
    /\ dropped' = IF Holds(c, "receipt")
                  THEN dropped \cup {<<clerk[c].seat, clerk[c].event, clerk[c].what>>} ELSE dropped
    /\ UNCHANGED <<ground, desks, profiles, runs, shelf, told, items, interleaved, granted>>

Proceed(c) == PutGround(c) \/ PutDesk(c) \/ SaveProfile(c) \/ LogRun(c) \/ WriteReceipt(c) \/ Drop(c)

RosterSteps ==
    \/ \E c \in Clerks, s \in Seats :
        \/ \E w \in RoleWords : MyDesk(c, s, w)
        \/ \E a \in Agents : AskAgent(c, s, a) \/ Consult(c, s, "run", a)
        \/ \E e \in {"profile_updated", "promoted"} : EditProfile(c, s, e)
    \/ \E c \in Clerks : Proceed(c)

ShelfSteps ==
    \/ \E c \in Clerks, s \in Seats :
        \/ \E k \in Receipted \cup {"query", "runbook"} : Keep(c, s, k)
        \/ \E e \in {"shift_report", "investigate", "analyze", "explain"}, a \in Agents :
            Consult(c, s, e, a)
    \/ \E s \in Seats, i \in shelf : Discard(s, i)
    \/ \E c \in Clerks : Proceed(c)

DeskSpec == DeskInit /\ [][RosterSteps \/ ShelfSteps]_deskVars

-----------------------------------------------------------------------------
\* A desk's row is there only above its venture and milestone, wherever the provisioning
\* stopped and however two of them interleaved (onboarding_suite.ensure_personal_desk).
DesksHaveGround ==
    \A s \in Seats : desks[s] # NoDesk => {<<s, "venture">>, <<s, "milestone">>} \subseteq ground

\* An agent the receipts say was added stays on the profile, whatever roles the desk has
\* had since, unless two requests saved the profile at once (contributor.request_agent).
GrantsStick ==
    \A s \in Seats, d \in Disciplines, a \in Agents :
        <<s, "agent_added", Pick(d, a)>> \in told => s \in interleaved \/ Pick(d, a) \in profiles[s]

\* A logged run's agent was in its discipline's kit or had been added for that very
\* discipline, though the role may change while the draft is made (agent_runtime.run).
RunsFitTheRoster == 
    \A r \in runs : r[2].agent \in BaseKit(r[2].discipline).agents \/ r \in granted

\* The room lists the agents the runtime lets run, and offers no other one twice: two
\* computations of one roster (role_workspace, roster_keys).
RoomMatchesRuntime ==
    \A s \in Seats : Owns(s) =>
        LET d == Discipline(s)
        IN  Allocated(s, d) = Roster(s, d) /\ Offered(s, d) \cap Roster(s, d) = {}

\* What is kept has its receipt, is about to get it, or its request stopped before it.
KeptIsReceipted ==
    \A i \in shelf : i.kind \in Receipted =>
        LET r == <<i.seat, i.kind, [item |-> i.id]>>
        IN  r \in told \cup dropped
            \/ \E c \in Clerks : Holds(c, "receipt") /\ <<clerk[c].seat, clerk[c].event, clerk[c].what>> = r

\* No blueprint lists a tool or an agent twice, every discipline answers to its own name,
\* and every role of the connect flow is a discipline (workspace_blueprint).
BlueprintsAreSound ==
    /\ \A d \in Disciplines :
        /\ DisciplineOf(d) = d /\ d \in DOMAIN RoleTools
        /\ BaseKit(d).agents \cap AgentCatalog[d] = {}
        /\ \A v \in Verticals :
            LET bp == Blueprint(d, v)
            IN  \A set \in {{}, {e[2] : e \in bp.env}} :
                    Cardinality(Statuses(bp, set)) = Cardinality({x[1] : x \in Statuses(bp, set)})
    /\ \A v, w \in Verticals : VentureVertical(v, {w}) \in {v, w}

\* Desks, rosters and shelves hold together under overlapping and half-done requests.
DesksHold ==
    /\ DesksHaveGround /\ GrantsStick /\ RunsFitTheRoster /\ RoomMatchesRuntime
    /\ KeptIsReceipted /\ BlueprintsAreSound
=============================================================================
