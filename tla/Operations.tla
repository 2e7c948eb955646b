----------------------------- MODULE Operations -----------------------------
(* Backup, restore and the readiness probe (core/ops).                       *)
(*                                                                           *)
(* Agents, the links between them and the notes stand for the ten tables: a  *)
(* link refers to an agent, whose table comes first.  A backup reads one     *)
(* table at a time and no snapshot holds them together; restore is a single  *)
(* transaction, and one that fails changes nothing and is no step.           *)
EXTENDS Naturals, Sequences, FiniteSets

CONSTANTS
    AgentIds,   \* agents
    MaxWrites,  \* bound: writes by the rest of the program
    MaxFlips    \* bound: changes of what the probe looks at

ASSUME OperationsAssumption == MaxWrites \in Nat /\ MaxFlips \in Nat

VARIABLES
    database,  \* the rows
    file,      \* the backup file: the rows in it, or why there are none
    copy,      \* rows read so far by the backup in progress
    stage,     \* where it is
    writes,    \* writes made
    before,    \* history: the rows when the backup of the file, and that in
               \*   progress, began; mixed if they were written to since
    spoilt,    \* history: a backup was interrupted while it wrote the file
    up,        \* what each component is: "up", "down", or "absent" if not configured
    flips,     \* changes of them
    results,   \* results of the probe in progress, in order
    shifting,  \* history: a component changed during the probe
    report     \* the last report

backupVars == <<database, file, copy, stage, writes, before, spoilt>>
probeVars == <<up, flips, results, shifting, report>>

Nothing == [agents |-> {}, links |-> {}, note |-> "none"]

\* What is there in place of rows.
Missing == [Nothing EXCEPT !.note = "missing"]
Torn == [Nothing EXCEPT !.note = "torn"]
Mixed == [Nothing EXCEPT !.note = "mixed"]

OperationsInit ==
    /\ database = Nothing /\ file = Missing /\ copy = Nothing /\ stage = "idle" /\ writes = 0
    /\ before = [file |-> Mixed, copy |-> Mixed] /\ spoilt = FALSE
    /\ up \in [{"database", "config", "vault", "auth", "sessions", "openclaw", "integrations"} -> {"up"}]
    /\ flips = 0 /\ results = <<>> /\ shifting = FALSE /\ report = "none"

-----------------------------------------------------------------------------
(* The rest of the program writes rows.                                       *)

WriteRow ==
    /\ writes < MaxWrites
    /\ \/ \E a \in AgentIds : database' = [database EXCEPT !.agents = @ \cup {a}]
       \/ \E a \in database.agents : database' = [database EXCEPT !.links = @ \cup {a}]
       \/ \E n \in {"plain", "dated"} : database' = [database EXCEPT !.note = n]
    /\ writes' = writes + 1
    /\ before' = IF stage = "idle" THEN before ELSE [before EXCEPT !.copy = Mixed]
    /\ UNCHANGED <<file, copy, stage, spoilt>>

-----------------------------------------------------------------------------
(* BackupService.backup                                                       *)

BeginBackup ==
    /\ stage = "idle"
    /\ stage' = "agents" /\ copy' = Nothing
    /\ before' = [before EXCEPT !.copy = database]
    /\ UNCHANGED <<database, file, writes, spoilt>>

Following == [agents |-> "links", links |-> "note", note |-> "open"]

\* Mutant: the links are not among the tables.
ExportAllButLinks ==
    /\ stage \in DOMAIN Following
    /\ copy' = IF stage = "links" THEN copy ELSE [copy EXCEPT ![stage] = database[stage]]
    /\ stage' = Following[stage]
    /\ UNCHANGED <<database, file, writes, before, spoilt>>

\* _export_table, in the order of BACKUP_TABLES
ExportTable ==
    /\ stage \in DOMAIN Following
    /\ copy' = [copy EXCEPT ![stage] = database[stage]]
    /\ stage' = Following[stage]
    /\ UNCHANGED <<database, file, writes, before, spoilt>>

\* Opening the file for writing empties it.
OpenFile ==
    /\ stage = "open"
    /\ file' = Torn /\ stage' = "dump"
    /\ before' = [before EXCEPT !.file = Mixed]
    /\ UNCHANGED <<database, copy, writes, spoilt>>

DumpFile ==
    /\ stage = "dump"
    /\ file' = copy /\ stage' = "idle"
    /\ before' = [before EXCEPT !.file = before.copy]
    /\ UNCHANGED <<database, copy, writes, spoilt>>

StopBackup ==
    /\ stage # "idle"
    /\ stage' = "idle"
    /\ spoilt' = (spoilt \/ stage = "dump")
    /\ UNCHANGED <<database, file, copy, writes, before>>

-----------------------------------------------------------------------------
(* BackupService.verify and restore                                           *)

\* _load_backup: the file is there and can be read to its end.
Loadable == file \notin {Missing, Torn}

\* verify: what a backup wrote whole counts what it says it counts.  Restore
\* does not ask.
Verified == Loadable

\* _deserialise_value: a text that looks like a timestamp becomes one, and is
\* stored in another form.
Deserialised(note) == IF note = "dated" THEN "redated" ELSE note

\* _clear_table, _load_table
Reloaded(rows, loaded, clearExisting) == loaded \cup (IF clearExisting THEN {} ELSE rows)

\* A link must refer to an agent.  Without clearing, a row that is there already
\* is refused.
Restore(clearExisting) ==
    /\ Loadable /\ writes < MaxWrites /\ stage = "idle"
    /\ file.links \subseteq file.agents
    /\ ~clearExisting => file.agents \cap database.agents = {}
    /\ database' = [agents |-> Reloaded(database.agents, file.agents, clearExisting),
                    links |-> Reloaded(database.links, file.links, clearExisting),
                    note |-> Deserialised(file.note)]
    /\ writes' = writes + 1
    /\ UNCHANGED <<file, copy, stage, before, spoilt>>

BackupNext ==
    \/ WriteRow \/ BeginBackup \/ ExportTable \/ OpenFile \/ DumpFile \/ StopBackup
    \/ \E c \in BOOLEAN : Restore(c)

-----------------------------------------------------------------------------
(* ReadinessService.run: the checks, one after another, and what they add up  *)
(* to.  A check catches whatever it meets.                                    *)

Pipeline == <<"database", "config", "vault", "auth", "sessions", "openclaw", "integrations">>
Critical == {"database", "config", "auth", "sessions"}

Optional == {"vault", "openclaw"}

Flip(c) ==
    /\ flips < MaxFlips
    /\ \E v \in {"up", "down"} \cup (IF c \in Optional THEN {"absent"} ELSE {}) :
          v # up[c] /\ up' = [up EXCEPT ![c] = v]
    /\ flips' = flips + 1
    /\ shifting' = (shifting \/ results # <<>>)
    /\ UNCHANGED <<results, report>>

\* check_auth_subsystem, check_session_subsystem, check_integration_governance:
\* the table is in the database.
Queryable(c) == up["database"] = "up" /\ up[c] = "up"

\* check_vault, check_openclaw: what is not configured is no failure.
NotBroken(c) == up[c] # "down"

Answers(c) ==
    CASE c \in Optional -> NotBroken(c)
      [] c \in {"auth", "sessions", "integrations"} -> Queryable(c)
      [] OTHER -> up[c] = "up"

CheckComponent ==
    /\ Len(results) < Len(Pipeline)
    /\ results' = Append(results, Answers(Pipeline[Len(results) + 1]))
    /\ UNCHANGED <<up, flips, shifting, report>>

Failed == {Pipeline[i] : i \in {j \in DOMAIN results : ~results[j]}}

OverallStatus ==
    IF Failed \cap Critical # {} THEN "unavailable"
    ELSE IF Failed # {} THEN "degraded" ELSE "ready"

Conclude ==
    /\ Len(results) = Len(Pipeline)
    /\ report' = OverallStatus
    /\ results' = <<>> /\ shifting' = FALSE
    /\ UNCHANGED <<up, flips>>

\* dependency_checker.check_all, the other probe
DependenciesReady == Answers("database") /\ Answers("config")

ProbeNext == (\E c \in DOMAIN up : Flip(c)) \/ CheckComponent \/ Conclude

OperationsSpec == OperationsInit /\ [][(BackupNext /\ UNCHANGED probeVars)
                                       \/ (ProbeNext /\ UNCHANGED backupVars)]_<<backupVars, probeVars>>

-----------------------------------------------------------------------------
\* A restore of a backup during which nothing was written brings every row back
\* as it was then, except that a text which looks like a timestamp is rendered
\* anew (backup, restore).
RestoreBringsBack ==
    [][Restore(TRUE) => before.file = Mixed
          \/ database' = [before.file EXCEPT !.note = Deserialised(@)]]_backupVars

\* A file that was ever written verifies whenever no backup is writing it, unless
\* one was stopped while it did: it replaces the last good backup in place (backup).
FileIsWhole == file # Missing => Verified \/ stage = "dump" \/ spoilt

\* When nothing changes during a probe its report is what the components are,
\* and it never calls ready what the other probe calls unready (run, check_all).
ReportIsTrue ==
    [][Conclude /\ ~shifting =>
          /\ (report' = "unavailable") <=> \E c \in Critical : ~Answers(c)
          /\ (report' = "ready") <=> \A c \in DOMAIN up : Answers(c)
          /\ report' # "unavailable" => DependenciesReady]_probeVars

\* Operators can rely on the last backup and on the probe.
OperationsHold == []FileIsWhole /\ RestoreBringsBack /\ ReportIsTrue
=============================================================================
