--------------------------- MODULE KnowledgeStore ---------------------------
(* One product's skills, memories and playbooks (core/knowledge).            *)
(*                                                                           *)
(* A curator is one request: it loads a row, judges or changes what it       *)
(* loaded, and commits.  A refused request changes nothing and is no step;   *)
(* every operation refuses the rows of another product.                      *)
EXTENDS Naturals, Sequences, FiniteSets

CONSTANTS
    Curators,     \* requests in progress
    SkillAgents,  \* agents a skill may be for
    Nobodys,      \* the agent of a skill of the whole product
    Versions,     \* versions a playbook of the one name may have
    MaxSkills,    \* bound: skills
    MaxHour       \* bound: ticks

ASSUME KnowledgeAssumption ==
    Nobodys \notin SkillAgents /\ MaxSkills \in Nat /\ MaxHour \in Nat

SkillStatus == {"DRAFT", "PROPOSED", "VALIDATED", "APPROVED", "DEPLOYED", "DEPRECATED"}

Sovereign == {"architect"}                      \* and the deputy
Deployers == Sovereign \cup {"director"}
Approvers == Deployers \cup {"lawyer"}
Validators == Approvers \cup {"standards"}
Submitters == Validators \cup {"oracle"}        \* and the system

VARIABLES
    skills,     \* skill rows of the one name, in the order of creation
    memory,     \* the memory context: its narrative's author and updated_at
    playbooks,  \* playbook rows of the one name: version and steps
    hour,
    curators,   \* what each request has loaded
    reviewed,   \* history: the stages a skill passed since it was last a draft
    crossed,    \* history: skills on which two transitions overlapped
    latest,     \* history: the latest time an update of the memory was made at
    outrun      \* history: two updates of the memory overlapped

knowledgeVars == <<skills, memory, playbooks, hour, curators, reviewed, crossed, latest, outrun>>

Reading == [at |-> "free", skill |-> 0, to |-> "none", hour |-> 0]
NoMemory == [by |-> "none", updated |-> 0]

Turn(k, r) == curators' = [curators EXCEPT ![k] = r]

KnowledgeInit ==
    /\ skills = <<>> /\ memory = NoMemory /\ playbooks = {} /\ hour = 0
    /\ curators = [k \in Curators |-> Reading]
    /\ reviewed = <<>> /\ crossed = {} /\ latest = 0 /\ outrun = FALSE

-----------------------------------------------------------------------------
(* Skills.                                                                    *)

\* uq_skill_name_product_agent: to the database no two NULLs are the same.
NameTaken(agent) == agent # Nobodys /\ \E i \in DOMAIN skills : skills[i].agent = agent

CreateSkill(agent) ==
    /\ Len(skills) < MaxSkills /\ ~NameTaken(agent)
    /\ skills' = Append(skills, [agent |-> agent, status |-> "DRAFT"])
    /\ reviewed' = Append(reviewed, {})
    /\ UNCHANGED <<memory, playbooks, hour, curators, crossed, latest, outrun>>

\* Mutant: whoever approves need not wait for the validation.
HastySkillRules(from, to) ==
    IF <<from, to>> = <<"PROPOSED", "APPROVED">> THEN Approvers
    ELSE IF <<from, to>> = <<"APPROVED", "DEPLOYED">> THEN Deployers
    ELSE IF from = "DRAFT" /\ to = "PROPOSED" THEN Submitters ELSE {}

\* TRANSITION_RULES: who may move a skill between two statuses.
SkillRules(from, to) ==
    CASE <<from, to>> = <<"DRAFT", "PROPOSED">> -> Submitters
      [] from = "PROPOSED" /\ to \in {"VALIDATED", "DRAFT"} -> Validators
      [] <<from, to>> = <<"VALIDATED", "APPROVED">> -> Approvers
      [] <<from, to>> \in {<<"VALIDATED", "DRAFT">>, <<"APPROVED", "DRAFT">>,
                           <<"APPROVED", "DEPLOYED">>, <<"DEPLOYED", "DEPRECATED">>} -> Deployers
      [] from \in {"DRAFT", "PROPOSED", "VALIDATED", "APPROVED"} /\ to = "DEPRECATED" -> Sovereign
      [] OTHER -> {}

ValidateTransition(k, i, to, authority) ==
    /\ curators[k] = Reading
    /\ authority \in SkillRules(skills[i].status, to)
    /\ Turn(k, [Reading EXCEPT !.at = "skill", !.skill = i, !.to = to])
    /\ crossed' = IF \E c \in Curators : curators[c].skill = i THEN crossed \cup {i} ELSE crossed
    /\ UNCHANGED <<skills, memory, playbooks, hour, reviewed, latest, outrun>>

Gates == {"VALIDATED", "APPROVED"}

WriteStatus(k) ==
    /\ curators[k].at = "skill"
    /\ LET i == curators[k].skill  to == curators[k].to IN
        /\ skills' = [skills EXCEPT ![i].status = to]
        /\ reviewed' = [reviewed EXCEPT ![i] = IF to = "DRAFT" THEN {} ELSE @ \cup ({to} \cap Gates)]
    /\ Turn(k, Reading)
    /\ UNCHANGED <<memory, playbooks, hour, crossed, latest, outrun>>

-----------------------------------------------------------------------------
(* The memory context and the playbooks.                                      *)

CreateContext ==
    /\ memory = NoMemory
    /\ memory' = [by |-> "creator", updated |-> hour]
    /\ latest' = hour
    /\ UNCHANGED <<skills, playbooks, hour, curators, reviewed, crossed, outrun>>

\* update_narrative loads the row and reads the time; ...
LoadContext(k) ==
    /\ curators[k] = Reading /\ memory # NoMemory
    /\ Turn(k, [Reading EXCEPT !.at = "memory", !.hour = hour])
    /\ outrun' = (outrun \/ \E c \in Curators : curators[c].at = "memory")
    /\ UNCHANGED <<skills, memory, playbooks, hour, reviewed, crossed, latest>>

\* ... the commit writes both columns.
WriteNarrative(k) ==
    /\ curators[k].at = "memory"
    /\ memory' = [by |-> "updater", updated |-> curators[k].hour]
    /\ latest' = IF curators[k].hour > latest THEN curators[k].hour ELSE latest
    /\ Turn(k, Reading)
    /\ UNCHANGED <<skills, playbooks, hour, reviewed, crossed, outrun>>

\* get_summary's last_updated: the one context is the latest.
LastUpdated == memory.updated

\* uq_playbook_name_product_ver
VersionTaken(v) == \E p \in playbooks : p.version = v

CreatePlaybook(v) ==
    /\ ~VersionTaken(v)
    /\ playbooks' = playbooks \cup {[version |-> v, steps |-> "first"]}
    /\ UNCHANGED <<skills, memory, hour, curators, reviewed, crossed, latest, outrun>>

\* update_steps: the version stays what it was.
UpdateSteps(v) ==
    /\ VersionTaken(v)
    /\ playbooks' = {IF p.version = v THEN [p EXCEPT !.steps = "revised"] ELSE p : p \in playbooks}
    /\ UNCHANGED <<skills, memory, hour, curators, reviewed, crossed, latest, outrun>>

-----------------------------------------------------------------------------
Drop(k) ==
    /\ curators[k] # Reading
    /\ Turn(k, Reading)
    /\ UNCHANGED <<skills, memory, playbooks, hour, reviewed, crossed, latest, outrun>>

HourPasses ==
    /\ hour < MaxHour
    /\ hour' = hour + 1
    /\ UNCHANGED <<skills, memory, playbooks, curators, reviewed, crossed, latest, outrun>>

SkillSteps ==
    \/ \E a \in SkillAgents \cup {Nobodys} : CreateSkill(a)
    \/ \E k \in Curators : \E i \in DOMAIN skills, to \in SkillStatus, authority \in Submitters :
          ValidateTransition(k, i, to, authority)
    \/ \E k \in Curators : WriteStatus(k) \/ Drop(k)

RecordSteps ==
    \/ CreateContext
    \/ \E k \in Curators : LoadContext(k) \/ WriteNarrative(k) \/ Drop(k)
    \/ \E v \in Versions : CreatePlaybook(v) \/ UpdateSteps(v)
    \/ HourPasses

KnowledgeSpec == KnowledgeInit /\ [][SkillSteps \/ RecordSteps]_knowledgeVars

-----------------------------------------------------------------------------
\* A skill is deployed only after its validation and its approval, both since
\* it was last sent back to draft, unless two transitions of it overlapped
\* (SkillLifecycleEngine.validate_transition, SkillService.transition_status).
DeployedWasReviewed ==
    \A i \in DOMAIN skills \ crossed : skills[i].status = "DEPLOYED" => reviewed[i] = Gates

\* An agent has one skill of a name, and only a skill of the whole product may
\* be there twice (uq_skill_name_product_agent).
NamedOnce ==
    \A i, j \in DOMAIN skills : skills[i].agent = skills[j].agent => i = j \/ skills[i].agent = Nobodys

\* The summary's last_updated is the time of the latest update, unless two
\* updates overlapped: the time is read before the commit (update_narrative).
SummaryIsCurrent == outrun \/ LastUpdated = latest

\* What agents are given was reviewed, is named once and is told to be as recent
\* as it is.
KnowledgeIsSound == DeployedWasReviewed /\ NamedOnce /\ SummaryIsCurrent
=============================================================================
