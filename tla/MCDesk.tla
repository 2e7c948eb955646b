------------------------------- MODULE MCDesk -------------------------------
(* The desk application's parts in one run.  They share no state, so each    *)
(* behaviour moves one of them, and of the tools and the workspace one thing *)
(* the requests share: the topic.  Connect takes part in three of them.      *)
EXTENDS ConnectedTools, DeskAccounts, DeskWorkspace, ConnectorGate, Scrubbing

CONSTANTS p1, m1, g1, g2, s1, s2

VARIABLE topic

MCBlockLists == {{}, {p1}}
MCSymmetry == Permutations(Requests) \cup Permutations(Clerks)

(* An e-mail, a phone number whose last group begins a card number, a         *)
(* keyword of each kind, and a placeholder that somebody typed.              *)
Raw(s) == [raw |-> s]
MCPatterns ==
    << [type |-> "EMAIL", cells |-> <<Raw("ann")>>],
       [type |-> "PHONE", cells |-> <<Raw("+1"), Raw("4111")>>],
       [type |-> "CARD", cells |-> <<Raw("4111"), Raw("2222")>>] >>
MCRestricted == {Raw("top secret")}
MCInternal == {Raw("private")}
MCCells == {Raw(w) : w \in {"+1", "4111", "2222", "ann", "top secret", "private"}}
           \cup {[type |-> "EMAIL", n |-> 1, sys |-> FALSE]}
MCPrompts == UNION {[1..n -> MCCells] : n \in 0..3}
MCSystems == {<<>>, <<Raw("ann")>>, <<Raw("4111"), Raw("2222"), Raw("ann")>>}

MCTopics == {"row", "policy", "list", "accounts", "role", "roster", "shelf",
             "gate", "scrub"}

(* s2 has a desk where a seat may meet another's things.                     *)
MCInit ==
    /\ ToolsInit /\ AccountsInit /\ DeskInit /\ GateInit /\ ScrubInit
    /\ topic \in MCTopics
    /\ desks[s2] # NoDesk => topic = "shelf"
    /\ topic # "role" => profiles[s1] = NoProfile <=> topic # "roster"
    /\ topic \notin {"role", "shelf"} => desks[s1] = NoDesk <=> topic # "roster"
    /\ profiles[s2] = NoProfile
    /\ topic # "gate" => deployed = {}
    /\ topic # "scrub" => mode = "MASK" /\ guardUp

ToolSteps ==
    \/ topic = "row" /\ \E q \in Requests : OnTool(q)
    \/ topic = "policy" /\ \E q \in Requests :
         \/ \E t \in Tools, k \in Keys : Connect(q, t, k)
         \/ \E p \in Patches : SetPolicy(q, p)
    \/ topic = "list" /\ \E q \in Requests :
         \/ \E t \in Tools, k \in OrgIds : Connect(q, t, k)
         \/ \E o \in OrgIds : AddOrgTool(q, o) \/ RemoveOrgTool(q, o)
    \/ topic \in {"row", "policy", "list"} /\ \E q \in Requests : Continue(q) \/ Abort(q)

(* What one topic leaves out another has: the roster's is the larger kit.    *)
RoleSteps == \E c \in Clerks :
    \/ \E w \in RoleWords : MyDesk(c, s1, w)
    \/ \E a \in {"campaign_analyst", "seo_specialist"} : Consult(c, s1, "run", a)
    \/ AskAgent(c, s1, "seo_specialist")
    \/ EditProfile(c, s1, "profile_updated")

GrantSteps == \E c \in Clerks :
    \/ \E a \in {"log_analyzer", "sql_assistant"} : AskAgent(c, s1, a)
    \/ Consult(c, s1, "run", "sql_assistant")
    \/ EditProfile(c, s1, "promoted")

WorkSteps ==
    \/ topic = "role" /\ RoleSteps
    \/ topic = "roster" /\ GrantSteps
    \/ topic = "shelf" /\ ShelfSteps
    \/ \E c \in Clerks : Proceed(c)

MCNext ==
    /\ UNCHANGED topic
    /\ \/ /\ ToolSteps
          /\ UNCHANGED <<accountVars, deskVars, gateVars, scrubVars>>
       \/ /\ topic = "accounts" /\ AccountsNext
          /\ UNCHANGED <<toolVars, deskVars, gateVars, scrubVars>>
       \/ /\ WorkSteps
          /\ UNCHANGED <<toolVars, accountVars, gateVars, scrubVars>>
       \/ /\ topic = "gate" /\ GateNext
          /\ UNCHANGED <<toolVars, accountVars, deskVars, scrubVars>>
       \/ /\ topic = "scrub" /\ ScrubNext
          /\ UNCHANGED <<toolVars, accountVars, deskVars, gateVars>>

MCSpec == MCInit /\ [][MCNext]_<<topic, toolVars, accountVars, deskVars, gateVars, scrubVars>>
=============================================================================
