---------------------------- MODULE DeskAccounts ----------------------------
(* The accounts of the desk application (aos/voundry/auth.py): registering,  *)
(* signing in, resetting a password.  A registration commits the account,    *)
(* then the contributor's profile, then the two receipts, each on its own;   *)
(* a token is stateless and stays good until it expires.                     *)
EXTENDS Naturals, Sequences, FiniteSets

CONSTANTS
    Emails,
    Secrets,        \* passwords of eight characters and more
    SignUpRoles,    \* roles a request may name; the public route names "contributor"
    Doors,          \* requests in progress
    SessionLife,    \* hours a token is good for
    LinkLife,       \* hours a reset link is good for
    MaxHours,       \* bound: ticks
    MaxAccounts,    \* bound: accounts
    MaxPapers       \* bound: tokens and reset links given out

ASSUME AccountsAssumption ==
    /\ SessionLife \in Nat /\ LinkLife \in Nat /\ MaxHours \in Nat
    /\ MaxAccounts \in Nat /\ MaxPapers \in Nat

SelfRegisterable == {"founder", "contributor"}

VARIABLES
    accounts,    \* the rows, in the order of their creation: the place is the id
    profiled,    \* ids with a contributor profile
    recorded,    \* receipts: <<id, what>>
    sessions,    \* tokens given out
    links,       \* reset links sent
    hours,       \* the clock
    door,        \* what each request is at
    cutShort,    \* history: ids whose registration stopped after the account's commit
    settled,     \* history: the password each account was last told it has
    crossed      \* history: ids whose resets overlapped or stopped half-way

accountVars == <<accounts, profiled, recorded, sessions, links, hours, door, cutShort,
                 settled, crossed>>

Outside == [at |-> "outside"]
Ids == DOMAIN accounts
Taken(email) == \E i \in Ids : accounts[i].email = email

AccountsInit ==
    /\ accounts = <<>> /\ profiled = {} /\ recorded = {}
    /\ sessions = {} /\ links = {} /\ hours = 0
    /\ door = [d \in Doors |-> Outside]
    /\ cutShort = {} /\ settled = <<>> /\ crossed = {}

Enter(d, there) == door[d] = Outside /\ door' = [door EXCEPT ![d] = there]
At(d, stage) == door[d].at = stage
Onward(d, stage) == door' = [door EXCEPT ![d].at = stage]
Leave(d) == door' = [door EXCEPT ![d] = Outside]

IssueToken(id) ==
    /\ Cardinality(sessions) + Cardinality(links) < MaxPapers
    /\ sessions' = sessions \cup {[id |-> id, till |-> hours + SessionLife]}

\* principal_from_token asks the token alone.
Principal(t) == t.till > hours

\* register(), up to the check that the email is free.
Register(d, email, secret, role) ==
    /\ Len(accounts) < MaxAccounts
    /\ role \in SelfRegisterable /\ ~Taken(email)
    /\ Enter(d, [at |-> "account", id |-> 0, secret |-> secret, email |-> email, role |-> role])
    /\ UNCHANGED <<accounts, profiled, recorded, sessions, links, hours, cutShort, settled, crossed>>

\* Mutant: the table has no unique index on the email.
SaveUnlessFull(d) ==
    /\ At(d, "account") /\ Len(accounts) < MaxAccounts
    /\ LET at == door[d]
           row == [email |-> at.email, secret |-> at.secret, role |-> at.role]
           next == IF at.role = "contributor" THEN "profile" ELSE "account receipt"
       IN  /\ accounts' = Append(accounts, row)
           /\ settled' = Append(settled, at.secret)
           /\ door' = [door EXCEPT ![d].id = Len(accounts) + 1, ![d].at = next]
    /\ UNCHANGED <<profiled, recorded, sessions, links, hours, cutShort, crossed>>

\* save_voundry_account under the unique index: the second of two registrations fails.
SaveAccount(d) ==
    /\ At(d, "account") /\ Len(accounts) < MaxAccounts
    /\ LET at == door[d]
           row == [email |-> at.email, secret |-> at.secret, role |-> at.role]
           next == IF at.role = "contributor" THEN "profile" ELSE "account receipt"
       IN  IF Taken(at.email) THEN Leave(d) /\ UNCHANGED <<accounts, settled>>
           ELSE /\ accounts' = Append(accounts, row)
                /\ settled' = Append(settled, at.secret)
                /\ door' = [door EXCEPT ![d].id = Len(accounts) + 1, ![d].at = next]
    /\ UNCHANGED <<profiled, recorded, sessions, links, hours, cutShort, crossed>>

\* ContributorService.register: the profile, then its receipt.
RegisterProfile(d) ==
    /\ At(d, "profile")
    /\ profiled' = profiled \cup {door[d].id}
    /\ Onward(d, "profile receipt")
    /\ UNCHANGED <<accounts, recorded, sessions, links, hours, cutShort, settled, crossed>>

RecordProfile(d) ==
    /\ At(d, "profile receipt")
    /\ recorded' = recorded \cup {<<door[d].id, "contributor.registered">>}
    /\ Onward(d, "account receipt")
    /\ UNCHANGED <<accounts, profiled, sessions, links, hours, cutShort, settled, crossed>>

\* The last receipt; the caller is handed a token with it.
RecordAccount(d) ==
    /\ At(d, "account receipt")
    /\ recorded' = recorded \cup {<<door[d].id, "account.registered">>}
    /\ IssueToken(door[d].id)
    /\ Leave(d)
    /\ UNCHANGED <<accounts, profiled, links, hours, cutShort, settled, crossed>>

SignIn(email, secret) ==
    /\ \E i \in Ids : accounts[i].email = email /\ accounts[i].secret = secret /\ IssueToken(i)
    /\ UNCHANGED <<accounts, profiled, recorded, links, hours, door, cutShort, settled, crossed>>

RequestReset(email) ==
    /\ Cardinality(sessions) + Cardinality(links) < MaxPapers
    /\ \E i \in Ids :
        /\ accounts[i].email = email
        /\ links' = links \cup {[id |-> i, till |-> hours + LinkLife]}
    /\ UNCHANGED <<accounts, profiled, recorded, sessions, hours, door, cutShort, settled, crossed>>

Resetting(id) == {d \in Doors : door[d].at \in {"reset", "reset receipt"} /\ door[d].id = id}

\* reset_password reads the row under a link still good; nothing spends the link.
BeginReset(d, l, secret) ==
    /\ l.till > hours
    /\ Enter(d, [at |-> "reset", id |-> l.id, secret |-> secret, row |-> accounts[l.id]])
    /\ crossed' = IF Resetting(l.id) # {} THEN crossed \cup {l.id} ELSE crossed
    /\ UNCHANGED <<accounts, profiled, recorded, sessions, links, hours, cutShort, settled>>

SavePassword(d) ==
    /\ At(d, "reset")
    /\ accounts' = [accounts EXCEPT ![door[d].id] = [door[d].row EXCEPT !.secret = door[d].secret]]
    /\ Onward(d, "reset receipt")
    /\ UNCHANGED <<profiled, recorded, sessions, links, hours, cutShort, settled, crossed>>

RecordReset(d) ==
    /\ At(d, "reset receipt")
    /\ recorded' = recorded \cup {<<door[d].id, "password.reset">>}
    /\ settled' = [settled EXCEPT ![door[d].id] = door[d].secret]
    /\ Leave(d)
    /\ UNCHANGED <<accounts, profiled, sessions, links, hours, cutShort, crossed>>

\* The process stops or the database fails in the middle of a request.
Break(d) ==
    /\ door[d] # Outside /\ Leave(d)
    /\ cutShort' = IF door[d].at = "profile" THEN cutShort \cup {door[d].id} ELSE cutShort
    /\ crossed' = IF door[d].at \in {"reset", "reset receipt"} THEN crossed \cup {door[d].id}
                  ELSE crossed
    /\ UNCHANGED <<accounts, profiled, recorded, sessions, links, hours, settled>>

AccountsTick ==
    /\ hours < MaxHours /\ hours' = hours + 1
    /\ UNCHANGED <<accounts, profiled, recorded, sessions, links, door, cutShort, settled, crossed>>

AccountsNext ==
    \/ \E d \in Doors :
        \/ \E e \in Emails, s \in Secrets, r \in SignUpRoles : Register(d, e, s, r)
        \/ SaveAccount(d) \/ RegisterProfile(d) \/ RecordProfile(d) \/ RecordAccount(d)
        \/ \E l \in links, s \in Secrets : BeginReset(d, l, s)
        \/ SavePassword(d) \/ RecordReset(d) \/ Break(d)
    \/ \E e \in Emails, s \in Secrets : SignIn(e, s)
    \/ \E e \in Emails : RequestReset(e)
    \/ AccountsTick

AccountsSpec == AccountsInit /\ [][AccountsNext]_accountVars

-----------------------------------------------------------------------------
\* Two accounts never have one email, however their registrations interleave
\* (auth.register looks first and saves later; models.VoundryAccountRecord.email is unique).
OneAccountPerEmail == \A i, j \in Ids : accounts[i].email = accounts[j].email => i = j

\* A contributor lacks a profile only while registering, or for good when the
\* registration stopped behind the account's commit: signing up again is refused and
\* signing in does not provision (auth.register).
StrandedOnlyByStop ==
    \A i \in Ids : accounts[i].role = "contributor" /\ i \notin profiled =>
        i \in cutShort \/ \E d \in Doors : At(d, "profile") /\ door[d].id = i

\* A token is held only for an account; the one who holds it has a profile unless the
\* registration stopped or is still on its way to it (auth.issue_token).
HoldersAreKnown ==
    \A t \in sessions : Principal(t) =>
        /\ t.id \in Ids
        /\ \/ accounts[t.id].role # "contributor" \/ t.id \in profiled \cup cutShort
           \/ \E d \in Doors : At(d, "profile") /\ door[d].id = t.id

\* The password is the one last told, unless resets of the account crossed or stopped
\* half-way: reset_password saves the row as it read it and a link can be used again.
PasswordIsTheLastTold ==
    \A i \in Ids : i \in crossed \/ Resetting(i) # {} \/ accounts[i].secret = settled[i]

\* Accounts stay whole under overlapping and half-done requests.
AccountsHold ==
    OneAccountPerEmail /\ StrandedOnlyByStop /\ HoldersAreKnown /\ PasswordIsTheLastTold
=============================================================================
