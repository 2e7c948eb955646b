-------------------------- MODULE OperatorSessions --------------------------
(* Operators, their refresh sessions and their access tokens (core/auth).    *)
(*                                                                           *)
(* A handler is one request with a database session of its own: it reads,    *)
(* judges what it read and commits, and every commit makes it read its rows  *)
(* again.  A session row stands for the refresh token it was issued with.    *)
(* Nothing deletes an operator, so a session is never orphaned; a refresh of  *)
(* an expired session changes nothing, so no step here lets one expire.       *)
EXTENDS Naturals, Sequences, FiniteSets

CONSTANTS
    Handlers,      \* requests in progress
    Operators,     \* usernames
    MaxSessions,   \* bound: session rows
    MaxChanges,    \* bound: changes to operator rows
    AccessTTL,     \* ticks an access token lives
    MaxClock,      \* bound: ticks
    NoOne          \* no operator

ASSUME SessionsAssumption ==
    /\ MaxSessions \in Nat /\ MaxChanges \in Nat /\ AccessTTL \in Nat /\ MaxClock \in Nat
    /\ NoOne \notin Operators

Roles == {"admin", "viewer", "auditor"}
RowRoles == {"admin", "viewer", "unknown"}   \* create() stores any string
Passwords == {"old", "new"}
Columns == [active |-> BOOLEAN, role |-> RowRoles \cap Roles, password |-> Passwords]

VARIABLES
    operators,   \* operator rows
    sessions,    \* session rows, in the order they were issued
    tokens,      \* access tokens given out
    clock,
    handlers,    \* what each request holds
    changes,     \* number of changes committed
    roleSince,   \* history: when each operator's role last changed
    late,        \* history: operators whose role changed while a token was signed
    overrun,     \* history: operators disabled behind a handler past its check
    forked,      \* history: logins with two refreshes of one session in flight
    ended,       \* history: logins that were logged out with no refresh in flight
    belated      \* history: operators who acted without the role, and when

history == <<roleSince, late, overrun, forked, ended, belated>>
authVars == <<operators, sessions, tokens, clock, handlers, changes, history>>

Operator == [active : BOOLEAN, role : RowRoles, password : Passwords]
ASSUME OperatorRowAssumption == NoOne \notin Operator
Session == [operator : Operators, login : Nat, active : BOOLEAN]
Ready == [at |-> "free", operator |-> NoOne, session |-> 0, role |-> "viewer",
          column |-> "none", loaded |-> FALSE, value |-> FALSE]

Hold(h, r) == handlers' = [handlers EXCEPT ![h] = r]
Advance(h, stage) == Hold(h, [handlers[h] EXCEPT !.at = stage])

AuthInit ==
    /\ operators = [o \in Operators |-> NoOne]
    /\ sessions = <<>> /\ tokens = {} /\ clock = 0
    /\ handlers = [h \in Handlers |-> Ready]
    /\ changes = 0
    /\ roleSince = [o \in Operators |-> 0]
    /\ late = {} /\ overrun = {} /\ forked = {} /\ ended = {} /\ belated = {}

Known(o) == operators[o] # NoOne

-----------------------------------------------------------------------------
(* OperatorService: create, and the updates of one column each.               *)

CreateOperator(o, role) ==
    /\ ~Known(o)
    /\ operators' = [operators EXCEPT ![o] = [active |-> TRUE, role |-> role, password |-> "old"]]
    /\ roleSince' = [roleSince EXCEPT ![o] = clock]
    /\ UNCHANGED <<sessions, tokens, clock, handlers, changes, late, overrun,
                   forked, ended, belated>>

\* disable, enable, update_role, reset_password: load the row ...
LoadOperator(h, o, column, value) ==
    /\ handlers[h] = Ready /\ Known(o) /\ changes < MaxChanges
    /\ Hold(h, [Ready EXCEPT !.at = "update", !.operator = o, !.column = column,
                             !.loaded = operators[o][column], !.value = value])
    /\ UNCHANGED <<operators, sessions, tokens, clock, changes, history>>

Signing(o) == \E h \in Handlers : handlers[h].operator = o /\ handlers[h].at = "sign"
PastCheck(o) == \E h \in Handlers : handlers[h].operator = o
                                    /\ handlers[h].at \in {"rotate", "identify", "sign"}

\* ... and write the column, if it is not what was loaded.
UpdateOperator(h) ==
    /\ handlers[h].at = "update" /\ changes < MaxChanges
    /\ LET u == handlers[h]  o == u.operator  writes == u.loaded # u.value IN
        /\ operators' = IF writes THEN [operators EXCEPT ![o][u.column] = u.value] ELSE operators
        /\ changes' = IF writes THEN changes + 1 ELSE changes
        /\ roleSince' = IF operators'[o].role # operators[o].role
                        THEN [roleSince EXCEPT ![o] = clock] ELSE roleSince
        /\ late' = IF operators'[o].role # operators[o].role /\ Signing(o)
                   THEN late \cup {o} ELSE late
        /\ overrun' = IF operators[o].active /\ ~operators'[o].active /\ PastCheck(o)
                      THEN overrun \cup {o} ELSE overrun
    /\ Hold(h, Ready)
    /\ UNCHANGED <<sessions, tokens, clock, forked, ended, belated>>

-----------------------------------------------------------------------------
(* Login: authenticate, then issue.                                           *)

Login(h, o, password) ==
    /\ handlers[h] = Ready /\ Known(o)
    /\ operators[o].active /\ operators[o].password = password
    /\ Hold(h, [Ready EXCEPT !.at = "identify", !.operator = o])
    /\ UNCHANGED <<operators, sessions, tokens, clock, changes, history>>

\* An unknown role counts as the least one.
IdentityRole(role) == IF role \in Roles THEN role ELSE "viewer"

Identify(h) ==
    /\ handlers[h].at = "identify"
    /\ Hold(h, [handlers[h] EXCEPT !.at = "sign",
                    !.role = IdentityRole(operators[handlers[h].operator].role)])
    /\ UNCHANGED <<operators, sessions, tokens, clock, changes, history>>

\* The new session and its access token.  A refresh carries its login on.
Sign(h) ==
    /\ handlers[h].at = "sign" /\ Len(sessions) < MaxSessions
    /\ LET o == handlers[h].operator
           old == handlers[h].session
           id == Len(sessions) + 1
       IN  /\ sessions' = Append(sessions,
                  [operator |-> o, active |-> TRUE,
                   login |-> IF old = 0 THEN id ELSE sessions[old].login])
           /\ tokens' = tokens \cup {[operator |-> o, role |-> handlers[h].role,
                                      sid |-> id, exp |-> clock + AccessTTL]}
    /\ Hold(h, Ready)
    /\ UNCHANGED <<operators, clock, changes, history>>

-----------------------------------------------------------------------------
(* refresh: find the session, ask after its operator, revoke it, issue anew.  *)

Rotating(s) == {h \in Handlers : handlers[h].session = s /\ handlers[h].at \in {"check", "rotate"}}

BeginRefresh(h, s) ==
    /\ Hold(h, [Ready EXCEPT !.at = "check", !.session = s, !.operator = sessions[s].operator])
    /\ forked' = IF Rotating(s) # {} THEN forked \cup {sessions[s].login} ELSE forked
    /\ UNCHANGED <<operators, sessions, tokens, clock, changes, roleSince, late,
                   overrun, ended, belated>>

Refresh(h, s) ==
    /\ handlers[h] = Ready
    /\ sessions[s].active
    /\ BeginRefresh(h, s)

\* Mutant: the operator is not asked after.
CheckNobody(h) ==
    /\ handlers[h].at = "check"
    /\ Advance(h, "rotate")
    /\ UNCHANGED <<operators, sessions, tokens, clock, changes, history>>

CheckOperator(h) ==
    /\ handlers[h].at = "check"
    /\ Advance(h, IF operators[handlers[h].operator].active THEN "rotate" ELSE "revoke")
    /\ UNCHANGED <<operators, sessions, tokens, clock, changes, history>>

Deactivated(s) == [sessions EXCEPT ![s].active = FALSE]

Rotate(h) ==
    /\ handlers[h].at = "rotate"
    /\ sessions' = Deactivated(handlers[h].session)
    /\ Advance(h, "identify")
    /\ UNCHANGED <<operators, tokens, clock, changes, history>>

-----------------------------------------------------------------------------
(* revoke (logout), which does nothing to a session already revoked, and the  *)
(* revocation a refresh ends in when the operator is disabled.                *)

Logout(h, s) ==
    /\ handlers[h] = Ready
    /\ sessions[s].active
    /\ Hold(h, [Ready EXCEPT !.at = "logout", !.session = s, !.operator = sessions[s].operator])
    /\ UNCHANGED <<operators, sessions, tokens, clock, changes, history>>

Refreshing(login) ==
    \E h \in Handlers : /\ handlers[h].at \in {"check", "rotate", "identify", "sign"}
                        /\ handlers[h].session # 0
                        /\ sessions[handlers[h].session].login = login

RevokeSession(h) ==
    /\ handlers[h].at \in {"logout", "revoke"}
    /\ LET s == handlers[h].session  login == sessions[s].login IN
        /\ sessions' = Deactivated(s)
        /\ ended' = IF handlers[h].at = "logout" /\ sessions[s].active /\ ~Refreshing(login)
                    THEN ended \cup {login} ELSE ended
    /\ Hold(h, Ready)
    /\ UNCHANGED <<operators, tokens, clock, changes, roleSince, late, overrun, forked, belated>>

\* The handler raises or the server stops: what was not committed is lost.
AbortHandler(h) ==
    /\ handlers[h] # Ready
    /\ Hold(h, Ready)
    /\ UNCHANGED <<operators, sessions, tokens, clock, changes, history>>

-----------------------------------------------------------------------------
(* An access token at work: it is verified by signature and expiry alone,     *)
(* then the policy engine and the authority table judge the role in it.       *)

Verifies(t) == clock <= t.exp

Allowed(role) == IF role = "admin" THEN {"read", "control"} ELSE {"read"}

Command(t) ==
    /\ Verifies(t) /\ "control" \in Allowed(t.role)
    /\ belated' = IF operators[t.operator].role # "admin"
                  THEN belated \cup {<<t.operator, clock - roleSince[t.operator]>>} ELSE belated
    /\ UNCHANGED <<operators, sessions, tokens, clock, handlers, changes, roleSince,
                   late, overrun, forked, ended>>

AuthTick ==
    /\ clock < MaxClock
    /\ clock' = clock + 1
    /\ UNCHANGED <<operators, sessions, tokens, handlers, changes, history>>

AuthNext ==
    \/ \E o \in Operators, role \in RowRoles : CreateOperator(o, role)
    \/ \E h \in Handlers, o \in Operators :
        \/ \E c \in DOMAIN Columns : \E v \in Columns[c] : LoadOperator(h, o, c, v)
        \/ \E p \in Passwords : Login(h, o, p)
    \/ \E h \in Handlers, s \in DOMAIN sessions : Refresh(h, s) \/ Logout(h, s)
    \/ \E h \in Handlers :
        \/ UpdateOperator(h) \/ Identify(h) \/ Sign(h) \/ CheckOperator(h)
        \/ Rotate(h) \/ RevokeSession(h) \/ AbortHandler(h)
    \/ \E t \in tokens : Command(t)
    \/ AuthTick

AuthSpec == AuthInit /\ [][AuthNext]_authVars

-----------------------------------------------------------------------------
\* Every variable stays in its type; no token carries a role that is not one
\* (OperatorService.to_identity).
AuthTypeOK ==
    /\ operators \in [Operators -> Operator \cup {NoOne}]
    /\ sessions \in Seq(Session) /\ Len(sessions) <= MaxSessions
    /\ \A t \in tokens : /\ t.operator \in Operators /\ t.role \in Roles
                         /\ t.sid \in DOMAIN sessions /\ t.exp \in Nat
    /\ clock \in 0..MaxClock /\ changes \in 0..MaxChanges
    /\ \A h \in Handlers : /\ handlers[h].operator \in Operators \cup {NoOne}
                           /\ handlers[h].session \in 0..Len(sessions)
    /\ roleSince \in [Operators -> 0..MaxClock]
    /\ late \cup overrun \subseteq Operators
    /\ forked \cup ended \subseteq DOMAIN sessions
    /\ belated \subseteq Operators \X (0..MaxClock)

Live(login) == {s \in DOMAIN sessions : sessions[s].login = login /\ sessions[s].active}

\* One login has at most one live refresh token: rotation ends the old session
\* before it issues the new one (TokenManager.refresh).  Only two refreshes of
\* one session in flight together can leave two.
OneLivePerLogin ==
    \A s \in DOMAIN sessions :
        Cardinality(Live(sessions[s].login)) > 1 => sessions[s].login \in forked

\* After a logout that met no refresh of the same login, that login has no live
\* session, whatever token of it is presented later (TokenManager.revoke).
LogoutEnds == \A login \in ended \ forked : Live(login) = {}

\* A session is issued to a disabled operator only by a handler that was past
\* its check of the operator when the operator was disabled.
DisabledDrains ==
    [][\A h \in Handlers :
          Sign(h) => operators[handlers[h].operator].active
                     \/ handlers[h].operator \in overrun]_authVars

\* An operator who lost the admin role commands with an old access token no
\* longer than the token's life after the change, unless a token was being
\* signed when the role changed (the role is in the token, not looked up).
OldRoleRunsOut == \A b \in belated : b[1] \in late \/ b[2] <= AccessTTL

\* What sign-out, demotion and disabling promise of the tokens already given out.
SessionsEnd == [](AuthTypeOK /\ OneLivePerLogin /\ LogoutEnds /\ OldRoleRunsOut) /\ DisabledDrains
=============================================================================
