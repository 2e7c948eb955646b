--------------------------- MODULE IdentityProofs ---------------------------
(* For any requests, operators, sessions, changes and clock: sign-out, the    *)
(* demotion and the disabling of operators keep their promises.  For any      *)
(* verifiers, keys, addresses and lifetime of the cache: sign-on judges by    *)
(* keys the provider had.  For any sources, pages, builders and packages: what *)
(* an auditor is handed is whole, signed with the one key, and earned.         *)
EXTENDS OperatorSessions, Compliance, FiniteSetTheorems, TLAPS

-----------------------------------------------------------------------------
(* The inductive invariant of the sessions.  The heart of it is LoginInv: of  *)
(* one login there is one live session or one request that is past revoking   *)
(* it, never both, as long as no two requests refresh one session together.   *)

Stages == {"free", "update", "identify", "sign", "check", "rotate", "logout", "revoke"}
Issuing == {"rotate", "identify", "sign"}
Values == BOOLEAN \cup RowRoles \cup Passwords
Request == [at : Stages, operator : Operators \cup {NoOne}, session : Nat, role : Roles,
            column : {"none", "active", "role", "password"}, loaded : Values, value : Values]

\* The rows, the tokens and the histories.
RowsInv ==
    /\ operators \in [Operators -> Operator \cup {NoOne}]
    /\ sessions \in Seq(Session) /\ Len(sessions) <= MaxSessions
    /\ clock \in 0..MaxClock /\ changes \in 0..MaxChanges
    /\ roleSince \in [Operators -> 0..MaxClock]
    /\ \A o \in Operators : roleSince[o] <= clock
    /\ late \cup overrun \subseteq Operators
    /\ forked \cup ended \subseteq DOMAIN sessions
    /\ belated \subseteq Operators \X (0..MaxClock)
    /\ \A s \in DOMAIN sessions : Known(sessions[s].operator) /\ sessions[s].login \in DOMAIN sessions

\* A token carries the role its operator has, unless the role changed while it was
\* signed, or after: then it is dead within its life of the change.
TokenInv(t) ==
    /\ t.operator \in Operators /\ t.role \in Roles /\ t.sid \in DOMAIN sessions
    /\ t.exp \in Nat /\ t.exp <= clock + AccessTTL
    /\ Known(t.operator)
    /\ \/ t.operator \in late
       \/ t.role = IdentityRole(operators[t.operator].role)
       \/ t.exp <= roleSince[t.operator] + AccessTTL

\* What each request holds.
Column(r) ==
    \/ r.column = "active" /\ r.value \in BOOLEAN
    \/ r.column = "role" /\ r.value \in RowRoles
    \/ r.column = "password" /\ r.value \in Passwords
RequestInv(r) ==
    /\ r.session \in 0..Len(sessions)
    /\ r.at # "free" => r.operator \in Operators /\ Known(r.operator)
    /\ r.at \in {"check", "rotate", "logout", "revoke"} => r.session # 0
    /\ r.at = "update" => Column(r)
    /\ r.at = "sign" => \/ r.operator \in late
                        \/ r.role = IdentityRole(operators[r.operator].role)
    /\ r.at \in Issuing => operators[r.operator].active \/ r.operator \in overrun

\* One login: its live session, the request that refreshes it, and its end.
Alive(s, login) == sessions[s].login = login /\ sessions[s].active
Refreshes(h, login) ==
    /\ handlers[h].at \in {"check", "rotate", "identify", "sign"}
    /\ handlers[h].session # 0
    /\ sessions[handlers[h].session].login = login
LoginInv(login) ==
    /\ \A s, t \in DOMAIN sessions : Alive(s, login) /\ Alive(t, login) => s = t
    /\ \A g, h \in Handlers : Refreshes(g, login) /\ Refreshes(h, login) => g = h
    /\ \A h \in Handlers, s \in DOMAIN sessions :
          Refreshes(h, login) /\ Alive(s, login) =>
              handlers[h].at \in {"check", "rotate"} /\ handlers[h].session = s
    /\ login \in ended => /\ \A s \in DOMAIN sessions : ~ Alive(s, login)
                          /\ \A h \in Handlers : ~ Refreshes(h, login)

SessionsInv ==
    /\ RowsInv
    /\ \A t \in tokens : TokenInv(t)
    /\ handlers \in [Handlers -> Request] /\ \A h \in Handlers : RequestInv(handlers[h])
    /\ \A login \in DOMAIN sessions \ forked : LoginInv(login)
    /\ OldRoleRunsOut

-----------------------------------------------------------------------------
USE SessionsAssumption, OperatorRowAssumption

LEMMA ReadyIsRequest == Ready \in Request /\ RequestInv(Ready)
  BY DEF Ready, Request, RequestInv, Stages, Roles, Values, Issuing

LEMMA SessionsInit == AuthInit => SessionsInv
<1> SUFFICES ASSUME AuthInit PROVE SessionsInv
  OBVIOUS
<1>1. RowsInv
  BY DEF AuthInit, RowsInv
<1>2. \A t \in tokens : TokenInv(t)
  BY DEF AuthInit
<1>3. handlers \in [Handlers -> Request] /\ \A h \in Handlers : RequestInv(handlers[h])
  BY ReadyIsRequest DEF AuthInit
<1>4. \A login \in DOMAIN sessions \ forked : LoginInv(login)
  BY DEF AuthInit
<1>5. OldRoleRunsOut
  BY DEF AuthInit, OldRoleRunsOut
<1> QED
  BY <1>1, <1>2, <1>3, <1>4, <1>5 DEF SessionsInv

LEMMA ColumnWrite ==
    ASSUME NEW o \in Operator, NEW r, Column(r)
    PROVE  /\ [o EXCEPT ![r.column] = r.value] \in Operator
           /\ r.column # "role" => [o EXCEPT ![r.column] = r.value].role = o.role
           /\ r.column # "active" => [o EXCEPT ![r.column] = r.value].active = o.active
<1>1. CASE r.column = "active"
  BY <1>1 DEF Column, Operator
<1>2. CASE r.column = "role"
  BY <1>2 DEF Column, Operator
<1>3. CASE r.column = "password"
  BY <1>3 DEF Column, Operator
<1> QED
  BY <1>1, <1>2, <1>3 DEF Column

-----------------------------------------------------------------------------
(* Lemmas about the steps.                                                    *)

Refreshing4 == {"check", "rotate", "identify", "sign"}

LEMMA HoldsAfter ==
    ASSUME SessionsInv, NEW h \in Handlers, NEW r \in Request, Hold(h, r)
    PROVE  /\ handlers' \in [Handlers -> Request]
           /\ \A g \in Handlers : handlers'[g] = IF g = h THEN r ELSE handlers[g]
  BY DEF SessionsInv, Hold

\* A login keeps its promise when nothing of it comes to life.
LEMMA LoginKept ==
    ASSUME NEW login, LoginInv(login), login \in ended' => login \in ended,
           \A s \in DOMAIN sessions' : Alive(s, login)' => s \in DOMAIN sessions /\ Alive(s, login),
           \A h \in Handlers : Refreshes(h, login)' =>
               /\ Refreshes(h, login)
               /\ handlers'[h].session = handlers[h].session
               /\ \/ handlers'[h].at \in {"check", "rotate"}
                  \/ handlers[h].at \in {"identify", "sign"}
                  \/ \A s \in DOMAIN sessions' : ~ Alive(s, login)'
    PROVE  LoginInv(login)'
<1>1. \A s, t \in DOMAIN sessions' : Alive(s, login)' /\ Alive(t, login)' => s = t
  BY DEF LoginInv
<1>2. \A g, h \in Handlers : Refreshes(g, login)' /\ Refreshes(h, login)' => g = h
  BY DEF LoginInv
<1>3. ASSUME NEW h \in Handlers, NEW s \in DOMAIN sessions',
             Refreshes(h, login)', Alive(s, login)'
      PROVE  handlers'[h].at \in {"check", "rotate"} /\ handlers'[h].session = s
  BY <1>3 DEF LoginInv
<1>4. login \in ended' => /\ \A s \in DOMAIN sessions' : ~ Alive(s, login)'
                          /\ \A h \in Handlers : ~ Refreshes(h, login)'
  BY DEF LoginInv
<1> QED
  BY <1>1, <1>2, <1>3, <1>4 DEF LoginInv

(* A step that changes one request and nothing else.  The request may start    *)
(* or stop, or go on with the login it is refreshing.                          *)
GoesOn(old, r) ==
    r.at \in Refreshing4 /\ r.session # 0 =>
        /\ r.session = old.session
        /\ r.at \in {"check", "rotate"} => old.at \in {"check", "rotate"}
        /\ r.at \in {"identify", "sign"} => old.at \in {"identify", "sign"}

LEMMA HoldInv ==
    ASSUME SessionsInv, NEW h \in Handlers, NEW r \in Request, Hold(h, r),
           RequestInv(r), GoesOn(handlers[h], r),
           UNCHANGED <<operators, sessions, tokens, clock, changes, history>>
    PROVE  SessionsInv'
<1>1. /\ handlers' \in [Handlers -> Request]
      /\ \A g \in Handlers : handlers'[g] = IF g = h THEN r ELSE handlers[g]
  BY HoldsAfter
<1>2. UNCHANGED <<roleSince, late, overrun, forked, ended, belated>>
  BY DEF history
<1>3. RowsInv' /\ OldRoleRunsOut'
  BY <1>2 DEF SessionsInv, RowsInv, OldRoleRunsOut, Known
<1>4. (\A t \in tokens : TokenInv(t))'
  BY <1>2 DEF SessionsInv, TokenInv, Known
<1>5. (\A g \in Handlers : RequestInv(handlers[g]))'
  BY <1>1, <1>2 DEF SessionsInv, RequestInv, Known
<1>6. ASSUME NEW login \in DOMAIN sessions' \ forked' PROVE LoginInv(login)'
  <2>1. LoginInv(login)
    BY <1>2 DEF SessionsInv
  <2>2. \A s \in DOMAIN sessions' : Alive(s, login)' => s \in DOMAIN sessions /\ Alive(s, login)
    BY DEF Alive
  <2>3. \A g \in Handlers : Refreshes(g, login)' =>
               /\ Refreshes(g, login)
               /\ handlers'[g].session = handlers[g].session
               /\ handlers'[g].at \in {"check", "rotate"} \/ handlers[g].at \in {"identify", "sign"}
    BY <1>1 DEF Refreshes, GoesOn, Refreshing4
  <2> QED
    BY <1>2, <2>1, <2>2, <2>3, LoginKept
<1> QED
  BY <1>1, <1>3, <1>4, <1>5, <1>6 DEF SessionsInv

LEMMA RequestFacts ==
    ASSUME SessionsInv, NEW h \in Handlers
    PROVE  handlers[h] \in Request /\ RequestInv(handlers[h])
  BY DEF SessionsInv

LEMMA SessionFacts ==
    ASSUME SessionsInv, NEW s \in DOMAIN sessions
    PROVE  /\ sessions[s] \in Session /\ Known(sessions[s].operator)
           /\ sessions[s].login \in DOMAIN sessions
           /\ s \in Nat /\ s # 0 /\ s <= Len(sessions) /\ DOMAIN sessions = 1..Len(sessions)
           /\ Len(sessions) \in Nat
  BY DEF SessionsInv, RowsInv

LEMMA IndexFacts ==
    ASSUME SessionsInv
    PROVE  /\ DOMAIN sessions = 1..Len(sessions) /\ Len(sessions) \in Nat
           /\ \A h \in Handlers : handlers[h].session # 0 => handlers[h].session \in DOMAIN sessions
<1>1. sessions \in Seq(Session)
  BY DEF SessionsInv, RowsInv
<1>2. DOMAIN sessions = 1..Len(sessions) /\ Len(sessions) \in Nat
  BY <1>1
<1>3. \A h \in Handlers : handlers[h].session \in 0..Len(sessions)
  BY DEF SessionsInv, RequestInv
<1> QED
  BY <1>2, <1>3

LEMMA ClockFacts ==
    ASSUME SessionsInv
    PROVE  /\ clock \in Nat /\ clock <= MaxClock
           /\ \A o \in Operators : roleSince[o] \in Nat /\ roleSince[o] <= clock
<1>1. clock \in 0..MaxClock /\ roleSince \in [Operators -> 0..MaxClock]
  BY DEF SessionsInv, RowsInv
<1>2. \A o \in Operators : roleSince[o] <= clock
  BY DEF SessionsInv, RowsInv
<1> QED
  BY <1>1, <1>2

LEMMA OperatorFacts ==
    ASSUME SessionsInv, NEW o \in Operators, Known(o)
    PROVE  operators[o] \in Operator
  BY DEF SessionsInv, RowsInv, Known

-----------------------------------------------------------------------------
(* The steps that change one request alone.                                   *)

LEMMA LoadOperatorInv ==
    ASSUME SessionsInv, NEW h \in Handlers, NEW o \in Operators,
           NEW c \in DOMAIN Columns, NEW v \in Columns[c], LoadOperator(h, o, c, v)
    PROVE  SessionsInv'
<1> DEFINE r == [Ready EXCEPT !.at = "update", !.operator = o, !.column = c,
                              !.loaded = operators[o][c], !.value = v]
<1>1. Known(o) /\ operators[o] \in Operator
  BY OperatorFacts DEF LoadOperator
<1>2. /\ c \in {"active", "role", "password"} /\ v \in Values
      /\ operators[o][c] \in Values
      /\ \/ c = "active" /\ v \in BOOLEAN
         \/ c = "role" /\ v \in RowRoles
         \/ c = "password" /\ v \in Passwords
  BY <1>1 DEF Columns, Values, Operator
<1>3. r \in Request
  BY <1>2 DEF Request, Ready, Stages, Roles
<1>4. RequestInv(r) /\ GoesOn(handlers[h], r)
  BY <1>1, <1>2 DEF RequestInv, Ready, Column, Issuing, GoesOn, Refreshing4, SessionsInv, RowsInv
<1> HIDE DEF r
<1>5. Hold(h, r) /\ UNCHANGED <<operators, sessions, tokens, clock, changes, history>>
  BY DEF LoadOperator, r
<1> QED
  BY <1>3, <1>4, <1>5, HoldInv

LEMMA LoginStepInv ==
    ASSUME SessionsInv, NEW h \in Handlers, NEW o \in Operators, NEW p, Login(h, o, p)
    PROVE  SessionsInv'
<1> DEFINE r == [Ready EXCEPT !.at = "identify", !.operator = o]
<1>1. r \in Request
  BY ReadyIsRequest DEF Request, Ready, Stages
<1>2. RequestInv(r) /\ GoesOn(handlers[h], r)
  BY DEF RequestInv, Ready, Issuing, GoesOn, Login, Known, SessionsInv, RowsInv
<1> HIDE DEF r
<1>3. Hold(h, r) /\ UNCHANGED <<operators, sessions, tokens, clock, changes, history>>
  BY DEF Login, r
<1> QED
  BY <1>1, <1>2, <1>3, HoldInv

LEMMA IdentifyInv == ASSUME SessionsInv, NEW h \in Handlers, Identify(h) PROVE SessionsInv'
<1> DEFINE r == [handlers[h] EXCEPT !.at = "sign",
                     !.role = IdentityRole(operators[handlers[h].operator].role)]
<1>1. handlers[h] \in Request /\ RequestInv(handlers[h]) /\ handlers[h].at = "identify"
  BY RequestFacts DEF Identify
<1>2. \A x : IdentityRole(x) \in Roles
  BY DEF IdentityRole, Roles
<1>3. r \in Request
  BY <1>1, <1>2 DEF Request, Stages
<1>4. RequestInv(r) /\ GoesOn(handlers[h], r)
  BY <1>1 DEF Request, RequestInv, Issuing, GoesOn, Refreshing4
<1> HIDE DEF r
<1>5. Hold(h, r) /\ UNCHANGED <<operators, sessions, tokens, clock, changes, history>>
  BY DEF Identify, r
<1> QED
  BY <1>3, <1>4, <1>5, HoldInv

LEMMA CheckOperatorInv ==
    ASSUME SessionsInv, NEW h \in Handlers, CheckOperator(h) PROVE SessionsInv'
<1> DEFINE stage == IF operators[handlers[h].operator].active THEN "rotate" ELSE "revoke"
           r == [handlers[h] EXCEPT !.at = stage]
<1>1. handlers[h] \in Request /\ RequestInv(handlers[h]) /\ handlers[h].at = "check"
  BY RequestFacts DEF CheckOperator
<1>2. r \in Request
  BY <1>1 DEF Request, Stages
<1>3. RequestInv(r) /\ GoesOn(handlers[h], r)
  BY <1>1 DEF Request, RequestInv, Issuing, GoesOn, Refreshing4
<1> HIDE DEF r, stage
<1>4. Hold(h, r) /\ UNCHANGED <<operators, sessions, tokens, clock, changes, history>>
  BY DEF CheckOperator, Advance, r, stage
<1> QED
  BY <1>2, <1>3, <1>4, HoldInv

LEMMA LogoutInv ==
    ASSUME SessionsInv, NEW h \in Handlers, NEW s \in DOMAIN sessions, Logout(h, s)
    PROVE  SessionsInv'
<1> DEFINE r == [Ready EXCEPT !.at = "logout", !.session = s, !.operator = sessions[s].operator]
<1>1. /\ sessions[s].operator \in Operators /\ Known(sessions[s].operator)
      /\ s \in 0..Len(sessions) /\ s # 0 /\ s \in Nat
  BY SessionFacts DEF Session
<1>2. r \in Request
  BY <1>1 DEF Request, Ready, Stages, Roles, Values
<1>3. RequestInv(r) /\ GoesOn(handlers[h], r)
  BY <1>1 DEF RequestInv, Ready, Issuing, GoesOn, Refreshing4
<1> HIDE DEF r
<1>4. Hold(h, r) /\ UNCHANGED <<operators, sessions, tokens, clock, changes, history>>
  BY DEF Logout, r
<1> QED
  BY <1>2, <1>3, <1>4, HoldInv

LEMMA AbortHandlerInv ==
    ASSUME SessionsInv, NEW h \in Handlers, AbortHandler(h) PROVE SessionsInv'
<1>1. RequestInv(Ready) /\ GoesOn(handlers[h], Ready)
  BY ReadyIsRequest DEF GoesOn, Ready
<1> QED
  BY <1>1, ReadyIsRequest, HoldInv DEF AbortHandler

-----------------------------------------------------------------------------
(* The operators' rows.                                                       *)

\* A step that leaves the sessions and the requests' refreshes alone.
LEMMA LoginsStay ==
    ASSUME SessionsInv, UNCHANGED <<sessions, forked, ended>>,
           \A g \in Handlers : \/ handlers'[g] = handlers[g]
                             \/ handlers'[g].at \notin Refreshing4
    PROVE  \A login \in DOMAIN sessions' \ forked' : LoginInv(login)'
<1> TAKE login \in DOMAIN sessions' \ forked'
<1>1. LoginInv(login)
  BY DEF SessionsInv
<1>2. \A s \in DOMAIN sessions' : Alive(s, login)' => s \in DOMAIN sessions /\ Alive(s, login)
  BY DEF Alive
<1>3. \A g \in Handlers : Refreshes(g, login)' =>
             /\ Refreshes(g, login)
             /\ handlers'[g].session = handlers[g].session
             /\ handlers'[g].at \in {"check", "rotate"} \/ handlers[g].at \in {"identify", "sign"}
  BY DEF Refreshes, Refreshing4
<1> QED
  BY <1>1, <1>2, <1>3, LoginKept

LEMMA CreateOperatorInv ==
    ASSUME SessionsInv, NEW o \in Operators, NEW role \in RowRoles, CreateOperator(o, role)
    PROVE  SessionsInv'
<1> DEFINE row == [active |-> TRUE, role |-> role, password |-> "old"]
<1>1. row \in Operator /\ row # NoOne
  <2>1. row \in Operator
    BY DEF Operator, Passwords
  <2> QED
    BY <2>1
<1>2. /\ \A x \in Operators : operators'[x] = IF x = o THEN row ELSE operators[x]
      /\ \A x \in Operators : roleSince'[x] = IF x = o THEN clock ELSE roleSince[x]
  BY DEF CreateOperator, SessionsInv, RowsInv
<1>3. \A x \in Operators : Known(x) => x # o /\ Known(x)'
  BY <1>1, <1>2 DEF CreateOperator, Known
<1>4. /\ operators' \in [Operators -> Operator \cup {NoOne}]
      /\ roleSince' \in [Operators -> 0..MaxClock]
  BY <1>1 DEF CreateOperator, SessionsInv, RowsInv
<1> HIDE DEF row
<1>5. UNCHANGED <<sessions, tokens, clock, handlers, changes, late, overrun, forked, ended, belated>>
  BY DEF CreateOperator
<1>6. RowsInv'
  <2>1. \A s \in DOMAIN sessions : sessions[s].operator \in Operators
    BY SessionFacts DEF Session
  <2> QED
    BY SMTT(40), <1>2, <1>3, <1>4, <1>5, <2>1 DEF SessionsInv, RowsInv
<1>7. (\A t \in tokens : TokenInv(t))'
  BY <1>2, <1>3, <1>5 DEF SessionsInv, TokenInv
<1>8. (\A g \in Handlers : RequestInv(handlers[g]))'
  BY <1>2, <1>3, <1>5 DEF SessionsInv, RequestInv, Issuing
<1>9. \A login \in DOMAIN sessions' \ forked' : LoginInv(login)'
  BY <1>5, LoginsStay
<1>10. OldRoleRunsOut'
  BY <1>5 DEF SessionsInv, OldRoleRunsOut
<1> QED
  BY <1>5, <1>6, <1>7, <1>8, <1>9, <1>10 DEF SessionsInv

LEMMA UpdateOperatorInv ==
    ASSUME SessionsInv, NEW h \in Handlers, UpdateOperator(h) PROVE SessionsInv'
<1> DEFINE u == handlers[h]
           o == u.operator
           Demoted == operators'[o].role # operators[o].role
           Disabled == operators[o].active /\ ~operators'[o].active
<1>1. /\ u \in Request /\ RequestInv(u) /\ u.at = "update"
      /\ o \in Operators /\ Known(o) /\ operators[o] \in Operator /\ Column(u)
  BY RequestFacts, OperatorFacts DEF UpdateOperator, RequestInv
<1>2. /\ operators' \in [Operators -> Operator \cup {NoOne}]
      /\ operators'[o] \in Operator /\ operators'[o] # NoOne
      /\ \A x \in Operators : x # o => operators'[x] = operators[x]
  <2>1. operators \in [Operators -> Operator \cup {NoOne}]
    BY DEF SessionsInv, RowsInv
  <2>2. CASE u.loaded # u.value
    <3> DEFINE row == [operators[o] EXCEPT ![u.column] = u.value]
    <3>1. operators' = [operators EXCEPT ![o] = row]
      BY <2>1, <2>2 DEF UpdateOperator
    <3>2. row \in Operator
      BY <1>1, ColumnWrite
    <3> HIDE DEF row, o
    <3>3. operators'[o] = row /\ o \in Operators
      BY <1>1, <2>1, <3>1
    <3>4. row # NoOne
      BY <3>2
    <3> QED
      BY <2>1, <3>1, <3>2, <3>3, <3>4 DEF Known
  <2>3. CASE u.loaded = u.value
    <3>1. operators' = operators
      BY <2>3 DEF UpdateOperator
    <3> QED
      BY <1>1, <2>1, <3>1 DEF Known
  <2> QED
    BY <2>2, <2>3
<1>3. \A x \in Operators : Known(x) => Known(x)'
  BY <1>2 DEF Known
<1>4. /\ changes' \in 0..MaxChanges
      /\ UNCHANGED <<sessions, tokens, clock, forked, ended, belated>>
      /\ Hold(h, Ready)
  BY DEF UpdateOperator, SessionsInv, RowsInv
<1>5. /\ roleSince' = IF Demoted THEN [roleSince EXCEPT ![o] = clock] ELSE roleSince
      /\ late' = IF Demoted /\ Signing(o) THEN late \cup {o} ELSE late
      /\ overrun' = IF Disabled /\ PastCheck(o) THEN overrun \cup {o} ELSE overrun
  BY DEF UpdateOperator
<1>6. /\ handlers' \in [Handlers -> Request]
      /\ \A g \in Handlers : handlers'[g] = IF g = h THEN Ready ELSE handlers[g]
  BY <1>4, HoldsAfter, ReadyIsRequest
<1> HIDE DEF u, o, Demoted, Disabled
<1>7. /\ roleSince' \in [Operators -> 0..MaxClock]
      /\ \A x \in Operators : roleSince'[x] = IF x = o /\ Demoted THEN clock ELSE roleSince[x]
      /\ late \subseteq late' /\ late' \subseteq Operators
      /\ overrun \subseteq overrun' /\ overrun' \subseteq Operators
  BY <1>1, <1>5 DEF SessionsInv, RowsInv
<1>8. RowsInv'
  <2>1. \A s \in DOMAIN sessions : sessions[s].operator \in Operators
    BY SessionFacts DEF Session
  <2>2. (\A s \in DOMAIN sessions : Known(sessions[s].operator) /\ sessions[s].login \in DOMAIN sessions)'
    BY <1>3, <1>4, <2>1 DEF SessionsInv, RowsInv
  <2>3. (\A x \in Operators : roleSince[x] <= clock)'
    BY <1>4, <1>7, ClockFacts
  <2> QED
    BY <1>2, <1>4, <1>7, <2>2, <2>3 DEF SessionsInv, RowsInv
<1>9. (\A t \in tokens : TokenInv(t))'
  <2> SUFFICES ASSUME NEW t \in tokens' PROVE TokenInv(t)'
    OBVIOUS
  <2>1. TokenInv(t) /\ t \in tokens
    BY <1>4 DEF SessionsInv
  <2>2. CASE t.operator = o /\ Demoted
    BY <1>3, <1>4, <1>7, <2>1, <2>2 DEF TokenInv
  <2>3. CASE t.operator # o
    BY <1>2, <1>3, <1>4, <1>7, <2>1, <2>3 DEF TokenInv
  <2>4. CASE t.operator = o /\ ~Demoted
    BY <1>3, <1>4, <1>7, <2>1, <2>4 DEF TokenInv, Demoted
  <2> QED
    BY <2>2, <2>3, <2>4
<1>10. (\A g \in Handlers : RequestInv(handlers[g]))'
  <2> SUFFICES ASSUME NEW g \in Handlers, g # h PROVE RequestInv(handlers[g])'
    BY <1>6 DEF RequestInv, Ready, Issuing, SessionsInv, RowsInv
  <2>1. RequestInv(handlers[g]) /\ handlers'[g] = handlers[g]
    BY <1>6, RequestFacts
  <2>2. handlers[g].at = "sign" /\ handlers[g].operator = o => Signing(o) /\ PastCheck(o)
    BY DEF Signing, PastCheck
  <2>3. handlers[g].at \in Issuing /\ handlers[g].operator = o => PastCheck(o)
    BY DEF PastCheck, Issuing
  <2>4. handlers[g].at = "sign" => \/ handlers[g].operator \in late'
                                   \/ handlers[g].role = IdentityRole(operators'[handlers[g].operator].role)
    BY <1>1, <1>2, <1>5, <1>7, <2>1, <2>2 DEF RequestInv, Demoted
  <2>5. handlers[g].at \in Issuing => \/ operators'[handlers[g].operator].active
                                      \/ handlers[g].operator \in overrun'
    BY <1>1, <1>2, <1>5, <1>7, <2>1, <2>3 DEF RequestInv, Disabled, Issuing
  <2> QED
    BY <1>3, <1>4, <2>1, <2>4, <2>5 DEF RequestInv
<1>11. \A login \in DOMAIN sessions' \ forked' : LoginInv(login)'
  BY <1>4, <1>6, LoginsStay DEF Ready, Refreshing4
<1>12. OldRoleRunsOut'
  BY <1>4, <1>7 DEF SessionsInv, OldRoleRunsOut
<1> QED
  BY <1>6, <1>8, <1>9, <1>10, <1>11, <1>12 DEF SessionsInv

-----------------------------------------------------------------------------
(* Tokens at work, and time.                                                  *)

LEMMA CommandInv == ASSUME SessionsInv, NEW t \in tokens, Command(t) PROVE SessionsInv'
<1> DEFINE o == t.operator
           age == clock - roleSince[o]
<1>1. /\ TokenInv(t) /\ o \in Operators
      /\ clock \in Nat /\ roleSince[o] \in Nat /\ roleSince[o] <= clock /\ clock <= MaxClock
  <2>1. TokenInv(t) /\ o \in Operators
    BY DEF SessionsInv, TokenInv
  <2> QED
    BY <2>1, ClockFacts
<1>2. age \in 0..MaxClock
  BY <1>1
<1>3. operators[o].role # "admin" => o \in late \/ age <= AccessTTL
  <2>1. t.role = "admin" /\ clock <= t.exp
    BY DEF Command, Allowed, Verifies
  <2>2. IdentityRole(operators[o].role) = "admin" => operators[o].role = "admin"
    BY DEF IdentityRole
  <2> QED
    BY <1>1, <2>1, <2>2 DEF TokenInv
<1>4. /\ belated' = IF operators[o].role # "admin" THEN belated \cup {<<o, age>>} ELSE belated
      /\ UNCHANGED <<operators, sessions, tokens, clock, handlers, changes, roleSince,
                     late, overrun, forked, ended>>
  BY DEF Command
<1> HIDE DEF o, age
<1>5. belated' \subseteq Operators \X (0..MaxClock) /\ OldRoleRunsOut'
  BY <1>1, <1>2, <1>3, <1>4 DEF SessionsInv, RowsInv, OldRoleRunsOut
<1>6. RowsInv'
  BY <1>4, <1>5 DEF SessionsInv, RowsInv, Known
<1>7. (\A x \in tokens : TokenInv(x))' /\ (\A g \in Handlers : RequestInv(handlers[g]))'
  BY <1>4 DEF SessionsInv, TokenInv, RequestInv, Known
<1>8. \A login \in DOMAIN sessions' \ forked' : LoginInv(login)'
  BY <1>4, LoginsStay
<1> QED
  BY <1>4, <1>5, <1>6, <1>7, <1>8 DEF SessionsInv

LEMMA AuthTickInv == ASSUME SessionsInv, AuthTick PROVE SessionsInv'
<1>1. UNCHANGED <<operators, sessions, tokens, handlers, changes, roleSince,
                  late, overrun, forked, ended, belated>>
  BY DEF AuthTick, history
<1>2. RowsInv' /\ OldRoleRunsOut'
  BY <1>1 DEF AuthTick, SessionsInv, RowsInv, OldRoleRunsOut, Known
<1>3. (\A t \in tokens : TokenInv(t))'
  <2>1. clock \in Nat /\ clock' = clock + 1
    BY ClockFacts DEF AuthTick
  <2>2. \A t \in tokens : TokenInv(t)
    BY DEF SessionsInv
  <2> QED
    BY <1>1, <2>1, <2>2 DEF TokenInv, Known
<1>4. (\A g \in Handlers : RequestInv(handlers[g]))'
  BY <1>1 DEF SessionsInv, RequestInv, Known
<1>5. \A login \in DOMAIN sessions' \ forked' : LoginInv(login)'
  BY <1>1, LoginsStay
<1> QED
  BY <1>1, <1>2, <1>3, <1>4, <1>5 DEF SessionsInv

-----------------------------------------------------------------------------
(* The steps of a refresh.                                                    *)

LEMMA RefreshInv ==
    ASSUME SessionsInv, NEW h \in Handlers, NEW s \in DOMAIN sessions, Refresh(h, s)
    PROVE  SessionsInv'
<1> DEFINE r == [Ready EXCEPT !.at = "check", !.session = s, !.operator = sessions[s].operator]
           mine == sessions[s].login
<1>1. /\ sessions[s].operator \in Operators /\ Known(sessions[s].operator)
      /\ s \in 0..Len(sessions) /\ s # 0 /\ s \in Nat /\ mine \in DOMAIN sessions
      /\ Alive(s, mine)
  BY SessionFacts DEF Session, Refresh, Alive
<1>2. r \in Request
  BY <1>1 DEF Request, Ready, Stages, Roles, Values
<1>3. RequestInv(r) /\ r.at = "check" /\ r.session = s
  BY <1>1 DEF RequestInv, Ready, Issuing
<1> HIDE DEF r
<1>4. /\ Hold(h, r)
      /\ forked' = IF Rotating(s) # {} THEN forked \cup {mine} ELSE forked
      /\ UNCHANGED <<operators, sessions, tokens, clock, changes, roleSince, late,
                     overrun, ended, belated>>
      /\ handlers[h].at = "free"
  BY DEF Refresh, BeginRefresh, r, Ready
<1>5. /\ handlers' \in [Handlers -> Request]
      /\ \A g \in Handlers : handlers'[g] = IF g = h THEN r ELSE handlers[g]
  BY <1>2, <1>4, HoldsAfter
<1>6. RowsInv' /\ OldRoleRunsOut'
  BY <1>1, <1>4 DEF SessionsInv, RowsInv, OldRoleRunsOut, Known
<1>7. (\A t \in tokens : TokenInv(t))'
  BY <1>4 DEF SessionsInv, TokenInv, Known
<1>8. (\A g \in Handlers : RequestInv(handlers[g]))'
  BY <1>3, <1>4, <1>5 DEF SessionsInv, RequestInv, Known
<1>9. ASSUME NEW login \in DOMAIN sessions' \ forked' PROVE LoginInv(login)'
  <2>1. LoginInv(login) /\ login \notin forked'
    BY <1>4 DEF SessionsInv
  <2>2. \A x : Alive(x, login)' <=> Alive(x, login)
    BY <1>4 DEF Alive
  <2>3. \A g \in Handlers : g # h => (Refreshes(g, login)' <=> Refreshes(g, login))
    BY <1>4, <1>5 DEF Refreshes
  <2>4. CASE login # mine
    <3>1. ~ Refreshes(h, login)'
      BY <1>3, <1>4, <1>5, <2>4 DEF Refreshes
    <3>2. \A g \in Handlers : Refreshes(g, login)' =>
             /\ Refreshes(g, login)
             /\ handlers'[g].session = handlers[g].session
             /\ handlers'[g].at \in {"check", "rotate"} \/ handlers[g].at \in {"identify", "sign"}
      BY <1>5, <2>3, <3>1 DEF Refreshes
    <3> QED
      BY <1>4, <2>1, <2>2, <3>2, LoginKept
  <2>5. CASE login = mine
    <3>1. Rotating(s) = {}
      BY <1>4, <2>1, <2>5
    <3>2. \A g \in Handlers : ~ Refreshes(g, login)
      BY <1>1, <2>1, <2>5, <3>1 DEF LoginInv, Rotating
    <3>3. login \notin ended'
      BY <1>1, <1>4, <2>1, <2>5 DEF LoginInv
    <3>4. \A x \in DOMAIN sessions : Alive(x, login) => x = s
      BY <1>1, <2>1, <2>5 DEF LoginInv
    <3> QED
      BY <1>3, <1>4, <1>5, <2>1, <2>2, <2>3, <3>2, <3>3, <3>4 DEF LoginInv
  <2> QED
    BY <2>4, <2>5
<1> QED
  BY <1>5, <1>6, <1>7, <1>8, <1>9 DEF SessionsInv

LEMMA DeactivatedSession ==
    ASSUME SessionsInv, NEW s \in DOMAIN sessions
    PROVE  /\ Deactivated(s) \in Seq(Session) /\ DOMAIN Deactivated(s) = DOMAIN sessions
           /\ Len(Deactivated(s)) = Len(sessions)
           /\ ~ Deactivated(s)[s].active
           /\ \A x \in DOMAIN sessions :
                 /\ Deactivated(s)[x].operator = sessions[x].operator
                 /\ Deactivated(s)[x].login = sessions[x].login
                 /\ Deactivated(s)[x].active => sessions[x].active
<1>1. sessions \in Seq(Session) /\ sessions[s] \in Session
  BY DEF SessionsInv, RowsInv
<1>2. [sessions[s] EXCEPT !.active = FALSE] \in Session
  BY <1>1 DEF Session
<1>3. /\ Deactivated(s) \in Seq(Session) /\ Len(Deactivated(s)) = Len(sessions)
      /\ \A x \in DOMAIN sessions :
           Deactivated(s)[x] = IF x = s THEN [sessions[s] EXCEPT !.active = FALSE] ELSE sessions[x]
  BY <1>1, <1>2 DEF Deactivated
<1>4. DOMAIN Deactivated(s) = DOMAIN sessions
  BY <1>1, <1>3
<1>5. ASSUME NEW x \in DOMAIN sessions
      PROVE  /\ Deactivated(s)[x].operator = sessions[x].operator
             /\ Deactivated(s)[x].login = sessions[x].login
             /\ Deactivated(s)[x].active => sessions[x].active
  BY <1>1, <1>3 DEF Session
<1>6. ~ Deactivated(s)[s].active
  BY <1>1, <1>3 DEF Session
<1> QED
  BY <1>3, <1>4, <1>5, <1>6

\* A step that ends a session and hands the request on, or frees it.
LEMMA DeactivateInv ==
    ASSUME SessionsInv, NEW h \in Handlers, NEW r \in Request, Hold(h, r),
           handlers[h].session # 0, sessions' = Deactivated(handlers[h].session),
           RequestInv(r), r.session # 0 => r.session = handlers[h].session,
           r.at \in Refreshing4 => handlers[h].at \in Refreshing4,
           UNCHANGED <<operators, tokens, clock, changes, roleSince, late, overrun,
                       forked, belated>>,
           \/ UNCHANGED ended
           \/ /\ r.at = "free" /\ sessions[handlers[h].session].active
              /\ ~ Refreshing(sessions[handlers[h].session].login)
              /\ handlers[h].at \notin Refreshing4
              /\ ended' = ended \cup {sessions[handlers[h].session].login}
    PROVE  SessionsInv'
<1> DEFINE s == handlers[h].session
           mine == sessions[s].login
<1>0. s \in DOMAIN sessions
  BY IndexFacts
<1>1. s \in DOMAIN sessions /\ mine \in DOMAIN sessions
  BY <1>0, SessionFacts
<1>2. /\ handlers' \in [Handlers -> Request]
      /\ \A g \in Handlers : handlers'[g] = IF g = h THEN r ELSE handlers[g]
  BY HoldsAfter
<1> HIDE DEF s, mine
<1>3. /\ sessions' = Deactivated(s)
      /\ sessions' \in Seq(Session) /\ DOMAIN sessions' = DOMAIN sessions
      /\ Len(sessions') = Len(sessions) /\ ~ sessions'[s].active
      /\ \A x \in DOMAIN sessions : /\ sessions'[x].operator = sessions[x].operator
                                    /\ sessions'[x].login = sessions[x].login
                                    /\ sessions'[x].active => sessions[x].active
  BY <1>1, DeactivatedSession DEF s
<1>4. ended' \subseteq DOMAIN sessions
  BY <1>1 DEF SessionsInv, RowsInv, s, mine
<1>5. RowsInv'
  BY <1>3, <1>4 DEF SessionsInv, RowsInv, Known
<1>6. (\A t \in tokens : TokenInv(t))' /\ OldRoleRunsOut'
  BY <1>3 DEF SessionsInv, TokenInv, Known, OldRoleRunsOut
<1>7. (\A g \in Handlers : RequestInv(handlers[g]))'
  BY <1>2, <1>3 DEF SessionsInv, RequestInv, Known
<1>8. ASSUME NEW login \in DOMAIN sessions' \ forked' PROVE LoginInv(login)'
  <2>1. LoginInv(login)
    BY <1>3 DEF SessionsInv
  <2>2. \A x \in DOMAIN sessions' : Alive(x, login)' => x \in DOMAIN sessions /\ Alive(x, login) /\ x # s
    BY <1>3 DEF Alive
  <2>4. \A g \in Handlers : Refreshes(g, login)' =>
             /\ Refreshes(g, login) /\ handlers'[g].session = handlers[g].session
    <3> SUFFICES ASSUME NEW g \in Handlers, Refreshes(g, login)'
                 PROVE  Refreshes(g, login) /\ handlers'[g].session = handlers[g].session
      OBVIOUS
    <3>1. handlers'[g].session = handlers[g].session /\ handlers[g].session \in DOMAIN sessions
      BY <1>1, <1>2, IndexFacts DEF Refreshes, s
    <3>2. handlers[g].at \in Refreshing4
      BY <1>2 DEF Refreshes, Refreshing4
    <3> QED
      BY <1>3, <3>1, <3>2 DEF Refreshes, Refreshing4
  <2>5. CASE login # mine \/ UNCHANGED ended
    <3>1. login \in ended' => login \in ended
      BY <2>5 DEF mine, s
    <3>2. \A g \in Handlers : Refreshes(g, login)' =>
                  \/ handlers'[g].at \in {"check", "rotate"}
                  \/ handlers[g].at \in {"identify", "sign"}
                  \/ \A x \in DOMAIN sessions' : ~ Alive(x, login)'
      <4> SUFFICES ASSUME Refreshes(h, login)'
                   PROVE  \A x \in DOMAIN sessions' : ~ Alive(x, login)'
        BY <1>2 DEF Refreshes
      <4> QED
        BY <2>1, <2>2, <2>4 DEF LoginInv, s
    <3> QED
      BY <2>1, <2>2, <2>4, <3>1, <3>2, LoginKept
  <2>6. CASE login = mine /\ ended' # ended
    <3>1. \A g \in Handlers : ~ Refreshes(g, login)
      BY <2>6 DEF Refreshing, Refreshes, mine, s
    <3>2. Alive(s, login)
      BY <2>6 DEF Alive, mine, s
    <3>3. \A x \in DOMAIN sessions' : ~ Alive(x, login)'
      BY <1>1, <2>1, <2>2, <3>2 DEF LoginInv
    <3> QED
      BY <2>4, <3>1, <3>3 DEF LoginInv
  <2> QED
    BY <2>5, <2>6
<1> QED
  BY <1>2, <1>5, <1>6, <1>7, <1>8 DEF SessionsInv

LEMMA RotateInv == ASSUME SessionsInv, NEW h \in Handlers, Rotate(h) PROVE SessionsInv'
<1> DEFINE r == [handlers[h] EXCEPT !.at = "identify"]
<1>1. handlers[h] \in Request /\ RequestInv(handlers[h]) /\ handlers[h].at = "rotate"
  BY RequestFacts DEF Rotate
<1>2. r \in Request
  BY <1>1 DEF Request, Stages
<1>3. /\ RequestInv(r) /\ r.session = handlers[h].session /\ handlers[h].session # 0
      /\ handlers[h].at \in Refreshing4
  BY <1>1 DEF Request, RequestInv, Issuing, Refreshing4
<1> HIDE DEF r
<1>4. Hold(h, r) /\ sessions' = Deactivated(handlers[h].session)
  BY DEF Rotate, Advance, r
<1>5. UNCHANGED <<operators, tokens, clock, changes, roleSince, late, overrun, forked, ended, belated>>
  BY DEF Rotate, history
<1> QED
  BY <1>2, <1>3, <1>4, <1>5, DeactivateInv

LEMMA RevokeSessionInv ==
    ASSUME SessionsInv, NEW h \in Handlers, RevokeSession(h) PROVE SessionsInv'
<1>1. /\ handlers[h].session # 0 /\ handlers[h].at \notin Refreshing4
  BY RequestFacts DEF RevokeSession, RequestInv, Refreshing4
<1>2. Ready \in Request /\ RequestInv(Ready) /\ Ready.at = "free" /\ Ready.session = 0
  BY ReadyIsRequest DEF Ready
<1>3. Hold(h, Ready) /\ sessions' = Deactivated(handlers[h].session)
  BY DEF RevokeSession
<1>4. UNCHANGED <<operators, tokens, clock, changes, roleSince, late, overrun, forked, belated>>
  BY DEF RevokeSession
<1>5. \/ UNCHANGED ended
      \/ /\ sessions[handlers[h].session].active
         /\ ~ Refreshing(sessions[handlers[h].session].login)
         /\ ended' = ended \cup {sessions[handlers[h].session].login}
  BY DEF RevokeSession
<1> QED
  BY <1>1, <1>2, <1>3, <1>4, <1>5, DeactivateInv DEF Refreshing4

\* A new row is appended: what was there stays.
LEMMA AppendedSession ==
    ASSUME SessionsInv, NEW row \in Session, sessions' = Append(sessions, row)
    PROVE  /\ sessions' \in Seq(Session) /\ Len(sessions') = Len(sessions) + 1
           /\ DOMAIN sessions' = DOMAIN sessions \cup {Len(sessions) + 1}
           /\ Len(sessions) + 1 \notin DOMAIN sessions
           /\ sessions'[Len(sessions) + 1] = row
           /\ \A x \in DOMAIN sessions : sessions'[x] = sessions[x]
<1>1. sessions \in Seq(Session)
  BY DEF SessionsInv, RowsInv
<1>2. /\ sessions' \in Seq(Session) /\ Len(sessions') = Len(sessions) + 1
      /\ \A x \in 1..Len(sessions) : sessions'[x] = sessions[x]
      /\ sessions'[Len(sessions) + 1] = row
  BY <1>1
<1>3. DOMAIN sessions' = 1..(Len(sessions) + 1) /\ DOMAIN sessions = 1..Len(sessions)
  BY <1>1, <1>2
<1>4. Len(sessions) \in Nat
  BY <1>1
<1> QED
  BY <1>2, <1>3, <1>4

LEMMA SignInv == ASSUME SessionsInv, NEW h \in Handlers, Sign(h) PROVE SessionsInv'
<1> DEFINE o == handlers[h].operator
           old == handlers[h].session
           id == Len(sessions) + 1
           mine == IF old = 0 THEN id ELSE sessions[old].login
           row == [operator |-> o, active |-> TRUE, login |-> mine]
           token == [operator |-> o, role |-> handlers[h].role, sid |-> id, exp |-> clock + AccessTTL]
<1>1. /\ handlers[h] \in Request /\ RequestInv(handlers[h]) /\ handlers[h].at = "sign"
      /\ o \in Operators /\ Known(o) /\ handlers[h].role \in Roles
      /\ Len(sessions) < MaxSessions /\ Hold(h, Ready)
  BY RequestFacts DEF Sign, RequestInv, Request
<1>2. /\ sessions' = Append(sessions, row)
      /\ tokens' = tokens \cup {token}
      /\ UNCHANGED <<operators, clock, changes, roleSince, late, overrun, forked, ended, belated>>
  BY DEF Sign, history
<1>3. Len(sessions) \in Nat /\ DOMAIN sessions = 1..Len(sessions) /\ clock \in Nat
  BY IndexFacts, ClockFacts
<1>4. /\ mine \in Nat /\ (old # 0 => old \in DOMAIN sessions /\ mine \in DOMAIN sessions)
      /\ old = 0 => mine = id
  BY <1>1, <1>3, IndexFacts, SessionFacts DEF Session
<1>5. row \in Session
  BY <1>1, <1>4 DEF Session
<1>6. token.operator = o /\ token.role = handlers[h].role /\ token.sid = id /\ token.exp = clock + AccessTTL
  OBVIOUS
<1>7. row.login = mine /\ row.active /\ row.operator = o
  OBVIOUS
<1> HIDE DEF o, old, id, mine, row, token
<1>8. /\ sessions' \in Seq(Session) /\ Len(sessions') = id
      /\ DOMAIN sessions' = DOMAIN sessions \cup {id} /\ id \notin DOMAIN sessions
      /\ sessions'[id] = row
      /\ \A x \in DOMAIN sessions : sessions'[x] = sessions[x]
  BY <1>2, <1>5, AppendedSession DEF id
<1>9. id \in Nat /\ id = Len(sessions) + 1 /\ id <= MaxSessions
  BY <1>1, <1>3 DEF id
<1>10. /\ handlers' \in [Handlers -> Request]
       /\ \A g \in Handlers : handlers'[g] = IF g = h THEN Ready ELSE handlers[g]
  BY <1>1, HoldsAfter, ReadyIsRequest
<1>11. RowsInv'
  <2>1. (\A s \in DOMAIN sessions : Known(sessions[s].operator) /\ sessions[s].login \in DOMAIN sessions)'
    <3> SUFFICES ASSUME NEW s \in DOMAIN sessions'
                 PROVE  operators[sessions'[s].operator] # NoOne /\ sessions'[s].login \in DOMAIN sessions'
      BY <1>2 DEF Known
    <3>1. CASE s = id
      BY <1>1, <1>4, <1>7, <1>8, <3>1 DEF Known
    <3>2. CASE s \in DOMAIN sessions
      BY <1>8, <3>2, SessionFacts DEF Known
    <3> QED
      BY <1>8, <3>1, <3>2
  <2> QED
    BY <1>2, <1>8, <1>9, <2>1 DEF SessionsInv, RowsInv
<1>12. (\A t \in tokens : TokenInv(t))'
  <2> SUFFICES ASSUME NEW t \in tokens' PROVE TokenInv(t)'
    OBVIOUS
  <2>1. CASE t = token
    <3>1. o \in late \/ token.role = IdentityRole(operators[o].role)
      BY <1>1, <1>6 DEF RequestInv, o
    <3>2. clock + AccessTTL \in Nat
      BY <1>3
    <3> QED
      BY <1>1, <1>2, <1>3, <1>6, <1>8, <2>1, <3>1, <3>2 DEF TokenInv, Known
  <2>2. CASE t \in tokens
    <3>1. TokenInv(t)
      BY <2>2 DEF SessionsInv
    <3> QED
      BY <1>2, <1>8, <3>1 DEF TokenInv, Known
  <2> QED
    BY <1>2, <2>1, <2>2
<1>13. (\A g \in Handlers : RequestInv(handlers[g]))'
  <2> SUFFICES ASSUME NEW g \in Handlers PROVE RequestInv(handlers[g])'
    OBVIOUS
  <2>1. CASE g = h
    BY <1>8, <1>9, <1>10, <2>1 DEF RequestInv, Ready, Issuing
  <2>2. CASE g # h
    <3>1. RequestInv(handlers[g]) /\ handlers'[g] = handlers[g]
      BY <1>10, <2>2, RequestFacts
    <3>2. handlers[g].session \in 0..Len(sessions')
      BY <1>3, <1>8, <1>9, <3>1 DEF RequestInv
    <3> QED
      BY <1>2, <3>1, <3>2 DEF RequestInv, Known
  <2> QED
    BY <2>1, <2>2
<1>14. ASSUME NEW login \in DOMAIN sessions' \ forked' PROVE LoginInv(login)'
  <2>1. ASSUME NEW g \in Handlers, Refreshes(g, login)'
        PROVE  /\ g # h /\ Refreshes(g, login) /\ handlers'[g] = handlers[g]
               /\ login \in DOMAIN sessions
    <3>1. g # h /\ handlers'[g] = handlers[g] /\ handlers[g].session \in DOMAIN sessions
      BY <1>10, <2>1, IndexFacts DEF Refreshes, Ready
    <3>2. Refreshes(g, login)
      BY <1>8, <2>1, <3>1 DEF Refreshes
    <3>3. login \in DOMAIN sessions
      BY <3>1, <3>2, SessionFacts DEF Refreshes
    <3> QED
      BY <3>1, <3>2, <3>3
  <2>2. ASSUME NEW s \in DOMAIN sessions', Alive(s, login)'
        PROVE  (s = id /\ login = mine) \/ (s \in DOMAIN sessions /\ Alive(s, login))
    BY <1>7, <1>8, <2>2 DEF Alive
  <2>3. ended \subseteq DOMAIN sessions /\ ended' = ended
    BY <1>2 DEF SessionsInv, RowsInv
  <2>4. \A s \in DOMAIN sessions : Alive(s, login) => login \in DOMAIN sessions
    BY SessionFacts DEF Alive
  <2>5. CASE login \notin DOMAIN sessions
    <3>1. login = id /\ login \notin ended'
      BY <1>8, <2>3, <2>5
    <3>2. \A s \in DOMAIN sessions' : Alive(s, login)' => s = id
      BY <2>2, <2>4, <2>5
    <3>3. \A g \in Handlers : ~ Refreshes(g, login)'
      BY <2>1, <2>5
    <3> QED
      BY <3>1, <3>2, <3>3 DEF LoginInv
  <2>6. CASE login \in DOMAIN sessions
    <3>1. LoginInv(login)
      BY <1>2, <2>6 DEF SessionsInv
    <3>2. CASE login # mine
      <4>1. \A s \in DOMAIN sessions' : Alive(s, login)' => s \in DOMAIN sessions /\ Alive(s, login)
        BY <2>2, <3>2
      <4>2. \A g \in Handlers : Refreshes(g, login)' =>
               /\ Refreshes(g, login) /\ handlers'[g].session = handlers[g].session
               /\ handlers'[g].at \in {"check", "rotate"} \/ handlers[g].at \in {"identify", "sign"}
        BY <2>1 DEF Refreshes
      <4> QED
        BY <2>3, <3>1, <4>1, <4>2, LoginKept
    <3>3. CASE login = mine
      <4>1. Refreshes(h, login)
        <5>1. old # 0
          BY <1>4, <1>8, <2>6, <3>3
        <5> QED
          BY <1>1, <3>3, <5>1 DEF Refreshes, mine, old
      <4>2. \A s \in DOMAIN sessions : ~ Alive(s, login)
        BY <1>1, <3>1, <4>1 DEF LoginInv
      <4>3. login \notin ended'
        BY <2>3, <3>1, <4>1 DEF LoginInv
      <4>4. \A g \in Handlers : ~ Refreshes(g, login)'
        BY <2>1, <3>1, <4>1 DEF LoginInv
      <4>5. \A s \in DOMAIN sessions' : Alive(s, login)' => s = id
        BY <2>2, <4>2
      <4> QED
        BY <4>3, <4>4, <4>5 DEF LoginInv
    <3> QED
      BY <3>2, <3>3
  <2> QED
    BY <2>5, <2>6
<1>15. OldRoleRunsOut'
  BY <1>2 DEF SessionsInv, OldRoleRunsOut
<1> QED
  BY <1>10, <1>11, <1>12, <1>13, <1>14, <1>15 DEF SessionsInv

-----------------------------------------------------------------------------
LEMMA SessionsNext == ASSUME SessionsInv, [AuthNext]_authVars PROVE SessionsInv'
<1>1. CASE UNCHANGED authVars
  <2>1. UNCHANGED <<operators, sessions, tokens, clock, handlers, changes,
                    roleSince, late, overrun, forked, ended, belated>>
    BY <1>1 DEF authVars, history
  <2>2. \A login \in DOMAIN sessions' \ forked' : LoginInv(login)'
    BY <2>1, LoginsStay
  <2> QED
    BY <2>1, <2>2 DEF SessionsInv, RowsInv, TokenInv, RequestInv, Known, OldRoleRunsOut
<1>2. ASSUME NEW h \in Handlers,
             \/ UpdateOperator(h) \/ Identify(h) \/ Sign(h) \/ CheckOperator(h)
             \/ Rotate(h) \/ RevokeSession(h) \/ AbortHandler(h)
      PROVE  SessionsInv'
  BY <1>2, UpdateOperatorInv, IdentifyInv, SignInv, CheckOperatorInv, RotateInv,
     RevokeSessionInv, AbortHandlerInv
<1>3. ASSUME NEW h \in Handlers, NEW s \in DOMAIN sessions, Refresh(h, s) \/ Logout(h, s)
      PROVE  SessionsInv'
  BY <1>3, RefreshInv, LogoutInv
<1>4. ASSUME NEW h \in Handlers, NEW o \in Operators,
             \/ \E c \in DOMAIN Columns : \E v \in Columns[c] : LoadOperator(h, o, c, v)
             \/ \E p \in Passwords : Login(h, o, p)
      PROVE  SessionsInv'
  BY <1>4, LoadOperatorInv, LoginStepInv
<1> QED
  BY <1>1, <1>2, <1>3, <1>4, CreateOperatorInv, CommandInv, AuthTickInv DEF AuthNext

\* Every reachable state of the operators' sessions satisfies the invariant.
THEOREM SessionsInvariant == AuthSpec => []SessionsInv
<1> QED
  BY SessionsInit, SessionsNext, PTL DEF AuthSpec

LEMMA SessionsAreTyped == SessionsInv => AuthTypeOK
<1> SUFFICES ASSUME SessionsInv PROVE AuthTypeOK
  OBVIOUS
<1>1. \A t \in tokens : /\ t.operator \in Operators /\ t.role \in Roles
                        /\ t.sid \in DOMAIN sessions /\ t.exp \in Nat
  BY DEF SessionsInv, TokenInv
<1>2. \A h \in Handlers : /\ handlers[h].operator \in Operators \cup {NoOne}
                          /\ handlers[h].session \in 0..Len(sessions)
  BY DEF SessionsInv, RequestInv, Request
<1> QED
  BY <1>1, <1>2 DEF SessionsInv, RowsInv, AuthTypeOK

LEMMA LoginsAreKept == SessionsInv => OneLivePerLogin /\ LogoutEnds
<1> SUFFICES ASSUME SessionsInv PROVE OneLivePerLogin /\ LogoutEnds
  OBVIOUS
<1>1. ASSUME NEW login \in DOMAIN sessions, login \notin forked
      PROVE  ~ (Cardinality(Live(login)) > 1) /\ (login \in ended => Live(login) = {})
  <2>1. LoginInv(login)
    BY <1>1 DEF SessionsInv
  <2>2. \A s, t \in Live(login) : s = t
    BY <2>1 DEF LoginInv, Live, Alive
  <2>3. CASE Live(login) = {}
    BY <2>3, FS_EmptySet
  <2>4. ASSUME NEW s \in Live(login) PROVE ~ (Cardinality(Live(login)) > 1)
    <3>1. Live(login) = {s}
      BY <2>2
    <3> QED
      BY <3>1, FS_Singleton
  <2>5. login \in ended => Live(login) = {}
    BY <2>1 DEF LoginInv, Live, Alive
  <2> QED
    BY <2>3, <2>4, <2>5
<1>2. \A s \in DOMAIN sessions : sessions[s].login \in DOMAIN sessions
  BY SessionFacts
<1>3. ended \subseteq DOMAIN sessions
  BY DEF SessionsInv, RowsInv
<1> QED
  BY <1>1, <1>2, <1>3 DEF OneLivePerLogin, LogoutEnds

\* For any requests, sessions and operators: one login never has two live
\* refresh tokens and a logout is final, unless two refreshes of one session
\* overlapped; a demoted operator's old token runs out within its life; a
\* disabled operator is issued nothing but by a request past its check.
THEOREM SessionsEndAlways == AuthSpec => SessionsEnd
<1>1. SessionsInv => AuthTypeOK /\ OneLivePerLogin /\ LogoutEnds /\ OldRoleRunsOut
  BY SessionsAreTyped, LoginsAreKept DEF SessionsInv
<1>2. ASSUME SessionsInv, [AuthNext]_authVars
      PROVE  [\A h \in Handlers :
                Sign(h) => operators[handlers[h].operator].active
                           \/ handlers[h].operator \in overrun]_authVars
  BY <1>2, RequestFacts DEF Sign, RequestInv, Issuing
<1> QED
  BY <1>1, <1>2, SessionsInvariant, PTL DEF AuthSpec, SessionsEnd, DisabledDrains

-----------------------------------------------------------------------------
(* Single sign-on.  The inductive invariant says what a document that was read *)
(* at a time is worth later: whatever it holds was published then or since,    *)
(* and whatever it lacks was published since.                                  *)

Verdicts == {"none", "config", "unknown key", "invalid", "issuer", "no subject", "accepted"}
Doc == [at : Int, says : {Void} \cup Uris \cup (SUBSET Kids)]
Verifier == [at : {"out", "look", "fetch", "store", "judge", "done"}, token : Tokens \cup {Void},
             want : {Discovery} \cup Uris, began : Nat, doc : Doc, verdict : Verdicts]

\* The clock of the provider: what it publishes was last seen now.
IdpInv ==
    /\ tick \in Nat /\ idp.uri \in Uris /\ idp.keys \subseteq Kids
    /\ lastSeen \in [Kids -> Int] /\ since \in [Kids -> Nat]
    /\ \A k \in Kids : lastSeen[k] <= tick /\ since[k] <= tick
    /\ \A k \in idp.keys : lastSeen[k] = tick

\* A document of keys read at a time: whatever is in it was published then or
\* later, whatever is published and not in it was published since.
KeysOf(doc) ==
    /\ doc.at \in Nat /\ doc.at <= tick /\ doc.says \in SUBSET Kids
    /\ \A k \in doc.says : lastSeen[k] >= doc.at
    /\ \A k \in idp.keys \ doc.says : since[k] >= doc.at
AddressOf(doc) == doc.at \in Nat /\ doc.at <= tick /\ doc.says \in Uris
Truthful(want, doc) == IF want = Discovery THEN AddressOf(doc) ELSE KeysOf(doc)

KeptInv ==
    /\ kept \in [{Discovery} \cup Uris -> Doc]
    /\ \A d \in {Discovery} \cup Uris : kept[d] = NoDoc \/ Truthful(d, kept[d])

\* What a thread knows of the keys it judges by.
JudgesBy(keys, began) ==
    /\ keys \in SUBSET Kids
    /\ \A k \in keys : lastSeen[k] >= 0 /\ lastSeen[k] + TTL > began
    /\ \A k \in idp.keys \ keys : since[k] + TTL > began
VerifierInv(r) ==
    /\ r.began <= tick
    /\ r.at \in {"fetch", "store"} => r.doc.at \in Nat /\ r.began <= r.doc.at /\ r.doc.at <= tick
    /\ r.at = "store" => Truthful(r.want, r.doc)
    /\ r.at = "judge" => JudgesBy(r.doc.says, r.began)
    /\ r.at = "done" /\ r.verdict = "accepted" =>
          /\ r.token.key \in Kids
          /\ lastSeen[r.token.key] >= 0 /\ lastSeen[r.token.key] + TTL > r.began
          /\ r.token.valid /\ r.token.subject /\ r.token.iss \in AllowedIssuers
    /\ r.at = "done" /\ r.verdict = "unknown key" =>
          (r.token.kid \in idp.keys => since[r.token.kid] + TTL > r.began)

SignOnInv ==
    /\ IdpInv /\ KeptInv
    /\ verifier \in [Verifiers -> Verifier] /\ \A v \in Verifiers : VerifierInv(verifier[v])

-----------------------------------------------------------------------------
USE SignOnAssumption DEF Discovery

LEMMA Lifetime == TTL \in Nat /\ TTL > 0
  OBVIOUS

LEMMA NoDocIsDoc == NoDoc \in Doc /\ NoDoc.at = -TTL
<1>1. -TTL \in Int
  OBVIOUS
<1> QED
  BY <1>1 DEF NoDoc, Doc

LEMMA AwayIsVerifier == Away \in Verifier
  BY NoDocIsDoc DEF Away, Verifier, Verdicts

LEMMA SignOnInitInv == SignOnInit => SignOnInv
<1> SUFFICES ASSUME SignOnInit PROVE SignOnInv
  OBVIOUS
<1>1. IdpInv
  BY DEF SignOnInit, IdpInv
<1>2. KeptInv
  BY NoDocIsDoc DEF SignOnInit, KeptInv
<1>3. verifier \in [Verifiers -> Verifier] /\ \A v \in Verifiers : VerifierInv(verifier[v])
  BY <1>1, AwayIsVerifier DEF SignOnInit, VerifierInv, Away, IdpInv
<1> QED
  BY <1>1, <1>2, <1>3 DEF SignOnInv

\* A thread's step, and perhaps a document it keeps.
LEMMA BusyInv ==
    ASSUME SignOnInv, NEW v \in Verifiers, NEW r \in Verifier, VerifierInv(r), Busy(v, r),
           UNCHANGED <<sso, tick, idp, lastSeen, since>>,
           \/ UNCHANGED kept
           \/ \E d \in {Discovery} \cup Uris, doc \in Doc :
                 kept' = [kept EXCEPT ![d] = doc] /\ Truthful(d, doc)
    PROVE  SignOnInv'
<1>1. IdpInv'
  BY DEF SignOnInv, IdpInv
<1>2. KeptInv'
  BY DEF SignOnInv, KeptInv, Truthful, AddressOf, KeysOf
<1>3. verifier' \in [Verifiers -> Verifier]
  BY DEF SignOnInv, Busy
<1>4. ASSUME NEW u \in Verifiers PROVE VerifierInv(verifier[u])'
  <2>1. VerifierInv(verifier[u])
    BY DEF SignOnInv
  <2>2. verifier'[u] = IF u = v THEN r ELSE verifier[u]
    BY DEF SignOnInv, Busy
  <2>3. AllowedIssuers' = AllowedIssuers
    BY DEF AllowedIssuers
  <2>5. CASE u = v
    BY <2>2, <2>3, <2>5 DEF VerifierInv, Truthful, AddressOf, KeysOf, JudgesBy
  <2>6. CASE u # v
    BY <2>1, <2>2, <2>3, <2>6 DEF VerifierInv, Truthful, AddressOf, KeysOf, JudgesBy
  <2> QED
    BY <2>5, <2>6
<1> QED
  BY <1>1, <1>2, <1>3, <1>4 DEF SignOnInv

LEMMA VerifierFacts ==
    ASSUME SignOnInv, NEW v \in Verifiers
    PROVE  /\ verifier[v] \in Verifier /\ VerifierInv(verifier[v])
           /\ tick \in Nat
  BY DEF SignOnInv, IdpInv

LEMMA BeginVerifyInv == ASSUME SignOnInv, NEW v \in Verifiers, BeginVerify(v) PROVE SignOnInv'
<1> DEFINE look == [Away EXCEPT !.at = "look", !.began = tick]
           off == [Away EXCEPT !.at = "done", !.verdict = "config"]
<1>1. tick \in Nat
  BY VerifierFacts
<1>2. look \in Verifier /\ off \in Verifier
  BY <1>1, AwayIsVerifier DEF Verifier, Verdicts
<1>3. VerifierInv(look) /\ VerifierInv(off)
  BY <1>1 DEF VerifierInv, Away
<1> HIDE DEF look, off
<1>4. Busy(v, look) \/ Busy(v, off)
  BY DEF BeginVerify, look, off
<1> QED
  BY <1>2, <1>3, <1>4, BusyInv DEF BeginVerify

\* A document that is true and fresh leads on: the address to the keys, the
\* keys to the verdict.
LEMMA UseInv ==
    ASSUME SignOnInv, NEW v \in Verifiers, NEW doc \in Doc,
           Truthful(verifier[v].want, doc), doc.at + TTL > verifier[v].began
    PROVE  Use(v, doc) \in Verifier /\ VerifierInv(Use(v, doc))
<1> DEFINE w == verifier[v].want
           next == [verifier[v] EXCEPT !.at = "look", !.want = doc.says, !.doc = NoDoc]
           judge == [verifier[v] EXCEPT !.at = "judge", !.doc.says = doc.says, !.doc.at = 0]
<1>1. verifier[v] \in Verifier /\ VerifierInv(verifier[v]) /\ tick \in Nat
  BY VerifierFacts
<1>2. CASE w = Discovery
  <2>1. doc.says \in Uris
    BY <1>2 DEF Truthful, AddressOf
  <2>2. next \in Verifier
    BY <1>1, <2>1, NoDocIsDoc DEF Verifier
  <2>3. VerifierInv(next)
    BY <1>1 DEF Verifier, VerifierInv
  <2> QED
    BY <1>2, <2>2, <2>3 DEF Use
<1>3. CASE w # Discovery
  <2>1. KeysOf(doc)
    BY <1>3 DEF Truthful
  <2> DEFINE said == [verifier[v].doc EXCEPT !.says = doc.says]
             held == [said EXCEPT !.at = 0]
  <2>5. held \in Doc /\ held.says = doc.says
    <3>1. verifier[v].doc \in Doc /\ doc.says \in {Void} \cup Uris \cup (SUBSET Kids) /\ 0 \in Int
      BY <1>1, <2>1 DEF Verifier, KeysOf
    <3>2. said \in Doc /\ said.says = doc.says
      BY <3>1 DEF Doc
    <3> HIDE DEF said
    <3> QED
      BY <3>1, <3>2 DEF Doc
  <2>6. judge = [verifier[v] EXCEPT !.at = "judge", !.doc = held]
    BY <1>1 DEF Verifier, Doc
  <2> HIDE DEF held
  <2>2. judge \in Verifier /\ judge.at = "judge" /\ judge.doc.says = doc.says
        /\ judge.began = verifier[v].began
    BY <1>1, <2>5, <2>6 DEF Verifier
  <2>3. JudgesBy(doc.says, verifier[v].began)
    <3>1. lastSeen \in [Kids -> Int] /\ since \in [Kids -> Nat] /\ idp.keys \subseteq Kids
      BY DEF SignOnInv, IdpInv
    <3>2. verifier[v].began \in Nat
      BY <1>1 DEF Verifier
    <3> QED
      BY <2>1, <3>1, <3>2 DEF JudgesBy, KeysOf
  <2>4. VerifierInv(judge)
    <3> HIDE DEF judge
    <3> QED
      BY <1>1, <2>2, <2>3 DEF VerifierInv
  <2> QED
    BY <1>3, <2>2, <2>4 DEF Use
<1> QED
  BY <1>2, <1>3

LEMMA LookInv == ASSUME SignOnInv, NEW v \in Verifiers, Look(v) PROVE SignOnInv'
<1> DEFINE doc == kept[verifier[v].want]
           r == [verifier[v] EXCEPT !.at = "fetch", !.doc.at = tick]
<1>1. verifier[v] \in Verifier /\ VerifierInv(verifier[v]) /\ tick \in Nat
  BY VerifierFacts
<1>2. /\ doc \in Doc /\ doc.at \in Int
      /\ doc = NoDoc \/ Truthful(verifier[v].want, doc)
  BY <1>1 DEF SignOnInv, KeptInv, Verifier, Doc
<1>3. CASE tick - doc.at < TTL
  <2>1. doc # NoDoc
    BY <1>1, <1>3, NoDocIsDoc
  <2>2. doc.at + TTL > verifier[v].began
    <3>1. verifier[v].began \in Nat /\ verifier[v].began <= tick
      BY <1>1 DEF VerifierInv, Verifier
    <3> HIDE DEF doc
    <3> QED
      BY <1>1, <1>2, <1>3, <3>1
  <2>3. Use(v, doc) \in Verifier /\ VerifierInv(Use(v, doc))
    BY <1>2, <2>1, <2>2, UseInv
  <2>4. Busy(v, Use(v, doc))
    BY <1>3 DEF Look
  <2> QED
    BY <2>3, <2>4, BusyInv DEF Look
<1>4. CASE ~ (tick - doc.at < TTL)
  <2> DEFINE begun == [verifier[v].doc EXCEPT !.at = tick]
  <2>4. begun \in Doc /\ begun.at = tick
    BY <1>1 DEF Verifier, Doc
  <2>5. r = [verifier[v] EXCEPT !.at = "fetch", !.doc = begun]
    BY <1>1 DEF Verifier, Doc
  <2>3. Busy(v, r)
    BY <1>4 DEF Look
  <2> HIDE DEF begun, r
  <2>1. /\ r \in Verifier /\ r.at = "fetch" /\ r.doc = begun
        /\ r.began = verifier[v].began /\ r.began \in Nat
    BY <1>1, <2>4, <2>5 DEF Verifier
  <2>2. VerifierInv(r)
    <3>1. r.began <= tick
      BY <1>1, <2>1 DEF VerifierInv
    <3>2. r.doc.at \in Nat /\ r.began <= r.doc.at /\ r.doc.at <= tick
      BY <1>1, <2>1, <2>4, <3>1
    <3> QED
      BY <2>1, <3>1, <3>2 DEF VerifierInv
  <2> QED
    BY <2>1, <2>2, <2>3, BusyInv DEF Look
<1> QED
  BY <1>3, <1>4

LEMMA FetchInv == ASSUME SignOnInv, NEW v \in Verifiers, Fetch(v) PROVE SignOnInv'
<1>1. verifier[v] \in Verifier /\ VerifierInv(verifier[v]) /\ tick \in Nat /\ verifier[v].at = "fetch"
  BY VerifierFacts DEF Fetch
<1>2. CASE Say(v, Void, "config")
  <2> DEFINE r == [Away EXCEPT !.at = "done", !.token = Void, !.verdict = "config", !.began = 0]
  <2>1. r \in Verifier
    BY AwayIsVerifier DEF Verifier, Verdicts
  <2>2. VerifierInv(r)
    BY <1>1 DEF VerifierInv, Away
  <2>3. Busy(v, r)
    BY <1>2 DEF Say
  <2> HIDE DEF r
  <2> QED
    BY <2>1, <2>2, <2>3, BusyInv DEF Fetch
<1>3. CASE /\ verifier[v].want \in {Discovery, idp.uri}
           /\ Busy(v, [verifier[v] EXCEPT !.at = "store", !.doc.says = Says(verifier[v].want)])
  <2> DEFINE r == [verifier[v] EXCEPT !.at = "store", !.doc.says = Says(verifier[v].want)]
  <2>1. /\ idp.uri \in Uris /\ idp.keys \subseteq Kids
        /\ \A k \in idp.keys : lastSeen[k] = tick
    BY DEF SignOnInv, IdpInv
  <2>2. Says(verifier[v].want) \in Uris \cup (SUBSET Kids)
    BY <2>1 DEF Says
  <2>3. /\ r \in Verifier /\ r.at = "store" /\ r.want = verifier[v].want /\ r.began = verifier[v].began
        /\ r.doc.at = verifier[v].doc.at /\ r.doc.says = Says(r.want)
    BY <1>1, <2>2 DEF Verifier, Doc
  <2> HIDE DEF r
  <2>4. Truthful(r.want, r.doc)
    BY <1>1, <1>3, <2>1, <2>3 DEF VerifierInv, Truthful, AddressOf, KeysOf, Says
  <2>5. VerifierInv(r)
    BY <1>1, <2>3, <2>4 DEF VerifierInv
  <2> QED
    BY <1>3, <2>3, <2>5, BusyInv DEF Fetch, r
<1> QED
  BY <1>2, <1>3 DEF Fetch

LEMMA StoreInv == ASSUME SignOnInv, NEW v \in Verifiers, Store(v) PROVE SignOnInv'
<1> DEFINE doc == verifier[v].doc
<1>1. verifier[v] \in Verifier /\ VerifierInv(verifier[v]) /\ verifier[v].at = "store"
  BY VerifierFacts DEF Store
<1>2. /\ doc \in Doc /\ Truthful(verifier[v].want, doc) /\ doc.at + TTL > verifier[v].began
      /\ verifier[v].want \in {Discovery} \cup Uris
  BY <1>1 DEF Verifier, VerifierInv
<1>3. Use(v, doc) \in Verifier /\ VerifierInv(Use(v, doc))
  BY <1>2, UseInv
<1> QED
  BY <1>2, <1>3, BusyInv DEF Store

\* The key found is one of those published, or there is none of that name.
LEMMA FoundKey ==
    ASSUME NEW keys \in SUBSET Kids, NEW kid
    PROVE  /\ FindKey(keys, kid) # Void => FindKey(keys, kid) \in keys
           /\ FindKey(keys, kid) = Void => kid \notin keys
<1>1. CASE kid \in keys
  BY <1>1 DEF FindKey
<1>2. CASE kid \notin keys
  <2>1. Cardinality(keys) = 1 => keys # {}
    BY FS_EmptySet
  <2> QED
    BY <1>2, <2>1 DEF FindKey
<1> QED
  BY <1>1, <1>2

LEMMA JudgeTokenInv == ASSUME SignOnInv, NEW v \in Verifiers, JudgeToken(v) PROVE SignOnInv'
<1> DEFINE keys == verifier[v].doc.says
<1>1. /\ verifier[v] \in Verifier /\ VerifierInv(verifier[v]) /\ tick \in Nat
      /\ JudgesBy(keys, verifier[v].began) /\ keys \in SUBSET Kids
      /\ verifier[v].began \in Nat /\ verifier[v].began <= tick
  BY VerifierFacts DEF JudgeToken, VerifierInv, JudgesBy, Verifier
<1> PICK t \in Tokens : Say(v, t, Verdict(keys, t))
  BY DEF JudgeToken
<1> DEFINE verdict == Verdict(keys, t)
           began == IF verdict = "config" THEN 0 ELSE verifier[v].began
           r == [Away EXCEPT !.at = "done", !.token = t, !.verdict = verdict, !.began = began]
           key == FindKey(keys, t.kid)
<1>2. /\ verdict \in Verdicts
      /\ verdict = "accepted" => /\ key # Void /\ key = t.key
                                 /\ t.valid /\ t.subject /\ t.iss \in AllowedIssuers
      /\ verdict = "unknown key" => key = Void
  BY DEF Verdict, Verdicts
<1>3. /\ key # Void => key \in keys
      /\ key = Void => t.kid \notin keys
  BY <1>1, FoundKey
<1>4. Busy(v, r)
  BY DEF Say
<1> HIDE DEF verdict, key, keys
<1>5. /\ began \in Nat /\ began <= verifier[v].began
      /\ verdict # "config" => began = verifier[v].began
  BY <1>1
<1> HIDE DEF began
<1>7. /\ r \in Verifier /\ r.at = "done" /\ r.token = t /\ r.verdict = verdict
      /\ r.began = began
  BY <1>2, <1>5, AwayIsVerifier DEF Verifier
<1> HIDE DEF r
<1>6. VerifierInv(r)
  <2>1. r.began <= tick
    BY <1>1, <1>5, <1>7
  <2>2. r.verdict = "accepted" =>
          /\ t.key \in Kids
          /\ lastSeen[t.key] >= 0 /\ lastSeen[t.key] + TTL > r.began
          /\ t.valid /\ t.subject /\ t.iss \in AllowedIssuers
    BY <1>1, <1>2, <1>3, <1>5, <1>7 DEF JudgesBy
  <2>3. r.verdict = "unknown key" => (t.kid \in idp.keys => since[t.kid] + TTL > r.began)
    BY <1>1, <1>2, <1>3, <1>5, <1>7 DEF JudgesBy
  <2> QED
    BY <1>7, <2>1, <2>2, <2>3 DEF VerifierInv
<1> QED
  BY <1>4, <1>7, <1>6, BusyInv DEF JudgeToken

-----------------------------------------------------------------------------
(* The provider and the clock: what is published keeps being seen, and what    *)
(* was seen was seen no earlier than before.                                   *)
LEMMA ProviderStep ==
    ASSUME SignOnInv, UNCHANGED <<sso, kept, verifier>>, IdpInv',
           tick' >= tick,
           \A k \in Kids : lastSeen'[k] >= lastSeen[k],
           \A k \in idp'.keys : (k \in idp.keys /\ since'[k] = since[k]) \/ since'[k] = tick
    PROVE  SignOnInv'
<1>1. /\ tick \in Nat /\ tick' \in Nat /\ idp.keys \subseteq Kids /\ idp'.keys \subseteq Kids
      /\ lastSeen \in [Kids -> Int] /\ lastSeen' \in [Kids -> Int] /\ since \in [Kids -> Nat]
      /\ since' \in [Kids -> Nat]
  BY DEF SignOnInv, IdpInv
<1>2. ASSUME NEW d, NEW doc, Truthful(d, doc) PROVE Truthful(d, doc)'
  BY <1>1, <1>2 DEF Truthful, AddressOf, KeysOf
<1>3. KeptInv'
  BY <1>2 DEF SignOnInv, KeptInv
<1>4. ASSUME NEW v \in Verifiers PROVE VerifierInv(verifier[v])'
  <2> DEFINE r == verifier[v]
  <2>1. VerifierInv(r) /\ r.began \in Nat /\ r.doc.at \in Int
    BY VerifierFacts DEF Verifier, Doc
  <2>2. r.at = "store" => Truthful(r.want, r.doc)
    BY <2>1 DEF VerifierInv
  <2>3. AllowedIssuers' = AllowedIssuers /\ verifier'[v] = r
    BY DEF AllowedIssuers
  <2>4. r.at = "store" => Truthful(verifier[v].want, verifier[v].doc)'
    BY <1>2, <2>2
  <2>5. r.at = "judge" => JudgesBy(verifier[v].doc.says, verifier[v].began)'
    BY <1>1, <2>1 DEF VerifierInv, JudgesBy
  <2>6. r.at = "done" /\ r.verdict = "accepted" =>
          /\ r.token.key \in Kids
          /\ lastSeen'[r.token.key] >= 0 /\ lastSeen'[r.token.key] + TTL > r.began
          /\ r.token.valid /\ r.token.subject /\ r.token.iss \in AllowedIssuers
    BY <1>1, <2>1 DEF VerifierInv
  <2>9. r.began <= tick /\ r.began <= tick'
    <3>1. r.began <= tick
      BY <2>1 DEF VerifierInv
    <3> HIDE DEF r
    <3> QED
      BY <1>1, <2>1, <3>1
  <2>7. r.at = "done" /\ r.verdict = "unknown key" =>
          (r.token.kid \in idp'.keys => since'[r.token.kid] + TTL > r.began)
    <3>1. r.at = "done" /\ r.verdict = "unknown key" =>
            (r.token.kid \in idp.keys => since[r.token.kid] + TTL > r.began)
      BY <2>1 DEF VerifierInv
    <3> HIDE DEF r
    <3>2. ASSUME NEW k \in idp'.keys, k \in idp.keys => since[k] + TTL > r.began
          PROVE  since'[k] + TTL > r.began
      <4>1. tick + TTL > r.began
        BY <1>1, <2>1, <2>9, Lifetime
      <4>2. CASE since'[k] = tick
        BY <4>1, <4>2
      <4>3. CASE k \in idp.keys /\ since'[k] = since[k]
        BY <3>2, <4>3
      <4> QED
        BY <4>2, <4>3
    <3> QED
      BY <3>1, <3>2
  <2>8. r.at \in {"fetch", "store"} => r.doc.at \in Nat /\ r.began <= r.doc.at /\ r.doc.at <= tick'
    <3>1. r.at \in {"fetch", "store"} => r.doc.at \in Nat /\ r.began <= r.doc.at /\ r.doc.at <= tick
      BY <2>1 DEF VerifierInv
    <3> HIDE DEF r
    <3> QED
      BY <1>1, <3>1
  <2> QED
    BY <2>3, <2>4, <2>5, <2>6, <2>7, <2>8, <2>9 DEF VerifierInv
<1> QED
  BY <1>3, <1>4 DEF SignOnInv

LEMMA TickSsoInv == ASSUME SignOnInv, TickSso PROVE SignOnInv'
<1>1. IdpInv'
  BY DEF SignOnInv, IdpInv, TickSso
<1>2. /\ tick' >= tick
      /\ \A k \in Kids : lastSeen'[k] >= lastSeen[k]
  BY DEF SignOnInv, IdpInv, TickSso
<1> QED
  BY <1>1, <1>2, ProviderStep DEF TickSso

LEMMA ChangeIdpInv == ASSUME SignOnInv, ChangeIdp PROVE SignOnInv'
<1> PICK u \in Uris, keys \in SUBSET Kids \ {{}} :
      /\ idp' = [uri |-> u, keys |-> keys]
      /\ lastSeen' = [k \in Kids |-> IF k \in keys THEN tick ELSE lastSeen[k]]
      /\ since' = [k \in Kids |-> IF k \in keys \ idp.keys THEN tick ELSE since[k]]
  BY DEF ChangeIdp
<1>1. idp'.uri = u /\ idp'.keys = keys
  OBVIOUS
<1>2. IdpInv'
  BY <1>1 DEF SignOnInv, IdpInv, ChangeIdp
<1>3. /\ tick' >= tick
      /\ \A k \in Kids : lastSeen'[k] >= lastSeen[k]
      /\ \A k \in idp'.keys : (k \in idp.keys /\ since'[k] = since[k]) \/ since'[k] = tick
  BY <1>1 DEF SignOnInv, IdpInv, ChangeIdp
<1> QED
  BY <1>2, <1>3, ProviderStep DEF ChangeIdp

\* Every reachable state of sign-on satisfies the invariant.
THEOREM SignOnInvariant == SignOnSpec => []SignOnInv
<1>1. ASSUME SignOnInv, [SignOnNext]_signOnVars PROVE SignOnInv'
  <2>1. CASE UNCHANGED signOnVars
    <3>1. UNCHANGED <<sso, tick, idp, kept, verifier, lastSeen, since>>
      BY <2>1 DEF signOnVars
    <3> QED
      BY ZenonT(60), <1>1, <3>1 DEF SignOnInv, IdpInv, KeptInv, VerifierInv, Truthful, AddressOf,
         KeysOf, JudgesBy, AllowedIssuers
  <2> QED
    BY <1>1, <2>1, TickSsoInv, ChangeIdpInv, BeginVerifyInv, LookInv, FetchInv, StoreInv,
       JudgeTokenInv DEF SignOnNext
<1> QED
  BY <1>1, SignOnInitInv, PTL DEF SignOnSpec

\* For any threads, keys, moves of the provider and lifetime of the cache: a
\* token is accepted only if its key was published less than that lifetime
\* before the request, and a published key is refused only while it is younger.
THEOREM SignOnIsTimely == SignOnSpec => []SignOnHolds
<1>1. SignOnInv => SignOnHolds
  BY DEF SignOnInv, VerifierInv, SignOnHolds, AcceptedWasCurrent, RefusalPasses, Judged
<1> QED
  BY <1>1, SignOnInvariant, PTL
-----------------------------------------------------------------------------
(* The export.  A source is read down: what lies above the floor, the next     *)
(* record or the next page, is in the body already.                            *)

Kinds == {"aa_apply", "sal_autonomy"}
Line == [type : Kinds, n : Nat]
Floor == IF export.at = "lines" THEN export.next ELSE Len(created[Source]) - export.offset

ReadDown(s, floor) ==
    \A n \in 1..export.before[s] :
        InWindow(s, n) /\ n > floor => \E i \in LinesOf(s) : export.body[i].n = n
Orderly(s, floor) ==
    \/ Grew(s)
    \/ /\ \A i \in LinesOf(s) : export.body[i].n > floor
       /\ \A i, j \in LinesOf(s) : i < j => export.body[i].n > export.body[j].n
LinesTrue(s) ==
    \A i \in LinesOf(s) : export.body[i].n \in 1..Len(created[s]) /\ InWindow(s, export.body[i].n)

CreatedInv ==
    /\ created \in [Kinds -> Seq(RecordTimes)]
    /\ \A s \in Kinds : \A i, j \in 1..Len(created[s]) : i < j => created[s][i] <= created[s][j]
ExportFields ==
    /\ export.at \in {"out", "refused", "paging", "lines", "signed"}
    /\ export.since \in Int /\ export.until \in Int
    /\ export.types \in SubLists /\ export.asked \subseteq Kinds
    /\ export.offset \in Nat /\ export.next \in Nat /\ export.last \in Nat /\ export.full \in BOOLEAN
    /\ export.body \in Seq(Line) /\ export.before \in [Kinds -> Nat]
ExportTypes == export \in
    [at : {"out", "refused", "paging", "lines", "signed"}, since : Int, until : Int,
     types : SubLists, asked : SUBSET Kinds, offset : Nat, next : Nat, last : Nat, full : BOOLEAN,
     body : Seq(Line), before : [Kinds -> Nat]]
\* Where a page ends: exactly a page below where it began, unless records came between.
PageInv ==
    export.at = "lines" =>
        /\ export.types # <<>>
        /\ export.last <= export.next /\ export.next <= Len(created[Source])
        /\ ~export.full => export.last = 0
        /\ export.full => /\ export.last <= Len(created[Source]) - export.offset - PageSize
                          /\ \/ Grew(Source)
                             \/ export.last = Len(created[Source]) - export.offset - PageSize
SourcesInv ==
    export.at \in {"paging", "lines", "signed"} =>
        /\ ToSet(export.types) \subseteq export.asked
        /\ \A s \in Kinds : export.before[s] <= Len(created[s]) /\ LinesTrue(s)
        /\ \A s \in export.asked \ ToSet(export.types) : ReadDown(s, 0) /\ Orderly(s, 0)
        /\ \A s \in Kinds, floor \in Int :
              export.types # <<>> /\ s = Source /\ floor = Floor => ReadDown(s, floor) /\ Orderly(s, floor)
        /\ \A s \in ToSet(export.types) : s # Source => LinesOf(s) = {}
        /\ export.at = "signed" => export.types = <<>>
ExportInv == CreatedInv /\ ExportTypes /\ PageInv /\ SourcesInv

LEMMA KindsAre == ToSet(Sources) = Kinds
  BY DEF ToSet, Sources, Kinds

\* A sublist of the sources has its head once, and its tail is one too.
LEMMA SubListFacts ==
  ASSUME NEW t \in SubLists
  PROVE  /\ ToSet(t) \subseteq Kinds /\ (t = <<>> <=> ToSet(t) = {})
         /\ t # <<>> => /\ Head(t) \in ToSet(t) /\ Tail(t) \in SubLists
                        /\ ToSet(Tail(t)) = ToSet(t) \ {Head(t)}
<1>1. CASE t = <<>>
  BY <1>1 DEF ToSet
<1>2. CASE t = <<Sources[1]>>
  <2>1. /\ Head(t) = "aa_apply" /\ Tail(t) = <<>> /\ ToSet(t) = {"aa_apply"} /\ ToSet(Tail(t)) = {}
    BY <1>2 DEF ToSet, Sources
  <2> QED
    BY <1>2, <2>1 DEF SubLists, Kinds
<1>3. CASE t = <<Sources[2]>>
  <2>1. /\ Head(t) = "sal_autonomy" /\ Tail(t) = <<>> /\ ToSet(t) = {"sal_autonomy"} /\ ToSet(Tail(t)) = {}
    BY <1>3 DEF ToSet, Sources
  <2> QED
    BY <1>3, <2>1 DEF SubLists, Kinds
<1>4. CASE t = Sources
  <2>1. /\ Head(t) = "aa_apply" /\ Tail(t) = <<Sources[2]>>
        /\ ToSet(t) = {"aa_apply", "sal_autonomy"} /\ ToSet(Tail(t)) = {"sal_autonomy"}
    BY <1>4 DEF ToSet, Sources
  <2>2. t # <<>>
    BY <1>4 DEF Sources
  <2> QED
    BY <2>1, <2>2 DEF SubLists, Kinds
<1> QED
  BY <1>1, <1>2, <1>3, <1>4 DEF SubLists

LEMMA PageIsNat == PageSize \in Nat /\ PageSize > 0 /\ RecordTimes \subseteq Int
  BY ComplianceAssumption

\* Sources of which neither the records nor the lines changed are as they were.
LEMMA SourceStays ==
  ASSUME NEW s, created'[s] = created[s], export'.body = export.body,
         export'.before = export.before, export'.since = export.since, export'.until = export.until
  PROVE  /\ LinesOf(s)' = LinesOf(s) /\ Grew(s)' = Grew(s) /\ LinesTrue(s)' = LinesTrue(s)
         /\ \A floor : ReadDown(s, floor)' = ReadDown(s, floor) /\ Orderly(s, floor)' = Orderly(s, floor)
<1>1. /\ LinesOf(s)' = LinesOf(s) /\ Grew(s)' = Grew(s) /\ \A n : InWindow(s, n)' = InWindow(s, n)
  BY DEF LinesOf, Grew, InWindow
<1>2. LinesTrue(s)' = LinesTrue(s)
  BY <1>1 DEF LinesTrue
<1>3. ASSUME NEW floor PROVE ReadDown(s, floor)' = ReadDown(s, floor) /\ Orderly(s, floor)' = Orderly(s, floor)
  BY <1>1 DEF ReadDown, Orderly
<1> QED
  BY <1>1, <1>2, <1>3

LEMMA ComplianceStart == ASSUME ComplianceInit PROVE ExportInv
<1>1. CreatedInv
  BY KindsAre DEF ComplianceInit, CreatedInv
<1>2. ExportTypes
  BY KindsAre DEF ComplianceInit, ExportTypes, Unstarted, SubLists
<1> QED
  BY <1>1, <1>2 DEF ComplianceInit, ExportInv, PageInv, SourcesInv, Unstarted

LEMMA StartExportInv == ASSUME ExportInv, StartExport PROVE ExportInv'
<1> PICK from \in RecordTimes, to \in RecordTimes, types \in SubLists, secret \in {0, 31, 32} :
      export' = [Unstarted EXCEPT !.at = IF secret < 32 THEN "refused" ELSE "paging",
                   !.since = from, !.until = to, !.types = types, !.asked = ToSet(types),
                   !.before = [s \in ToSet(Sources) |-> Len(created[s])]]
  BY DEF StartExport
<1>1. created' = created
  BY DEF StartExport
<1>2. /\ export'.at \in {"refused", "paging"} /\ export'.types = types /\ export'.asked = ToSet(types)
      /\ export'.offset = 0 /\ export'.body = <<>> /\ export'.before = [s \in Kinds |-> Len(created[s])]
      /\ export'.since = from /\ export'.until = to
  BY KindsAre DEF Unstarted
<1>3. \A s \in Kinds : Len(created[s]) \in Nat
  BY DEF ExportInv, CreatedInv
<1>4. ExportTypes'
  <2>1. ToSet(types) \subseteq Kinds
    BY SubListFacts
  <2>2. from \in Int /\ to \in Int
    BY PageIsNat
  <2>3. [s \in Kinds |-> Len(created[s])] \in [Kinds -> Nat] /\ <<>> \in Seq(Line)
    BY <1>3
  <2> QED
    BY <1>2, <2>1, <2>2, <2>3, KindsAre DEF ExportTypes, Unstarted
<1>5. \A s : LinesOf(s)' = {}
  BY <1>2 DEF LinesOf
<1>6. SourcesInv'
  <2>1. \A s \in Kinds : export'.before[s] = Len(created'[s]) /\ LinesTrue(s)'
    BY <1>1, <1>2, <1>5 DEF LinesTrue
  <2>2. ASSUME NEW s \in Kinds, NEW floor \in Int, s = Source', floor = Floor'
        PROVE  ReadDown(s, floor)' /\ Orderly(s, floor)'
    <3>1. floor = Len(created[s]) /\ export'.before[s] = Len(created[s])
      BY <1>1, <1>2, <1>3, <2>1, <2>2 DEF Floor
    <3> QED
      BY <1>3, <1>5, <3>1 DEF ReadDown, Orderly
  <2> QED
    BY <1>2, <1>3, <1>5, <2>1, <2>2, SubListFacts DEF SourcesInv
<1> QED
  BY <1>1, <1>2, <1>4, <1>6 DEF ExportInv, CreatedInv, PageInv

\* What holds of the source at hand.
LEMMA AtSource ==
  ASSUME ExportInv, export.at \in {"paging", "lines"}, export.types # <<>>
  PROVE  /\ Source \in Kinds /\ Source \in ToSet(export.types) /\ Source \in export.asked
         /\ created[Source] \in Seq(RecordTimes) /\ Len(created[Source]) \in Nat
         /\ export.before[Source] \in Nat /\ export.before[Source] <= Len(created[Source])
         /\ ReadDown(Source, Floor) /\ Orderly(Source, Floor) /\ LinesTrue(Source)
         /\ Floor \in Int
<1>1. Source \in Kinds /\ Source \in ToSet(export.types) /\ Source \in export.asked
  BY SubListFacts DEF ExportInv, ExportTypes, SourcesInv, Source
<1>2. created[Source] \in Seq(RecordTimes) /\ Len(created[Source]) \in Nat
  BY <1>1 DEF ExportInv, CreatedInv
<1> QED
  BY <1>1, <1>2 DEF ExportInv, SourcesInv, ExportTypes, Floor

\* A source ends when all of it that is in the window has been read.
LEMMA EndSourceInv ==
  ASSUME ExportInv, export.at \in {"paging", "lines"}, export.types # <<>>,
         created' = created, export' = EndSource,
         ReadDown(Source, 0), Orderly(Source, 0)
  PROVE  ExportInv'
<1> USE DEF ExportInv
<1>1. /\ export'.at = "paging" /\ export'.types = Tail(export.types) /\ export'.offset = 0
      /\ export'.asked = export.asked /\ export'.body = export.body /\ export'.before = export.before
      /\ export'.since = export.since /\ export'.until = export.until
  BY DEF ExportTypes, EndSource
<1>2. /\ Tail(export.types) \in SubLists /\ Source \in ToSet(export.types)
      /\ ToSet(Tail(export.types)) = ToSet(export.types) \ {Source}
      /\ ToSet(export.types) \subseteq Kinds
  BY SubListFacts DEF ExportTypes, Source
<1>3. ExportTypes'
  BY <1>2 DEF ExportTypes, EndSource
<1>4. \A s : /\ LinesOf(s)' = LinesOf(s) /\ Grew(s)' = Grew(s) /\ LinesTrue(s)' = LinesTrue(s)
             /\ ReadDown(s, 0)' = ReadDown(s, 0) /\ Orderly(s, 0)' = Orderly(s, 0)
  BY <1>1, SourceStays
<1>5. SourcesInv'
  <2>1. ToSet(export'.types) \subseteq export'.asked
    BY <1>1, <1>2 DEF SourcesInv
  <2>2. \A s \in Kinds : export'.before[s] <= Len(created'[s]) /\ LinesTrue(s)'
    BY <1>1, <1>4 DEF SourcesInv
  <2>3. \A s \in export'.asked \ ToSet(export'.types) : ReadDown(s, 0)' /\ Orderly(s, 0)'
    BY <1>1, <1>2, <1>4 DEF SourcesInv
  <2>4. \A s \in ToSet(export'.types) : LinesOf(s)' = {}
    BY <1>1, <1>2, <1>4 DEF SourcesInv
  <2>5. ASSUME NEW s \in Kinds, NEW floor \in Int, export'.types # <<>>, s = Source', floor = Floor'
        PROVE  ReadDown(s, floor)' /\ Orderly(s, floor)'
    <3>1. s \in ToSet(export'.types)
      BY <1>1, <1>2, <2>5, SubListFacts DEF Source
    <3>2. Len(created'[s]) \in Nat /\ export'.before[s] \in Nat
      BY <1>3 DEF CreatedInv, ExportTypes
    <3>3. floor = Len(created'[s])
      BY <1>1, <2>5, <3>2 DEF Floor
    <3> QED
      BY <2>2, <2>4, <3>1, <3>2, <3>3 DEF ReadDown, Orderly
  <2> QED
    BY <1>1, <2>1, <2>2, <2>3, <2>4, <2>5 DEF SourcesInv
<1> QED
  BY <1>1, <1>3, <1>5 DEF CreatedInv, PageInv

LEMMA ReadPageInv == ASSUME ExportInv, ReadPage PROVE ExportInv'
<1> USE DEF ExportInv
<1>1. export.at = "paging" /\ export.types # <<>> /\ created' = created
  BY DEF ReadPage
<1> DEFINE top == Len(created[Source]) - export.offset
<1>2. top \in Int /\ Floor = top /\ export.offset \in Nat
  BY <1>1, AtSource DEF ExportTypes, Floor
<1>3. /\ ReadDown(Source, top) /\ Orderly(Source, top) /\ LinesTrue(Source)
      /\ Len(created[Source]) \in Nat /\ Source \in Kinds
  BY <1>1, <1>2, AtSource
<1>4. CASE top <= 0
  <2>1. export' = EndSource
    BY <1>4 DEF ReadPage
  <2>2. ReadDown(Source, 0)
    BY <1>2, <1>3, <1>4 DEF ReadDown, ExportTypes
  <2>3. Orderly(Source, 0)
    BY <1>2, <1>3, <1>4 DEF Orderly, LinesTrue
  <2> QED
    BY <1>1, <2>1, <2>2, <2>3, EndSourceInv
<1>5. CASE top > 0
  <2> DEFINE last == IF top < PageSize THEN 0 ELSE top - PageSize
  <2>1. export' = [export EXCEPT !.at = "lines", !.next = top, !.last = last, !.full = top >= PageSize]
    BY <1>2, <1>5 DEF ReadPage
  <2>2. last \in Nat /\ last <= top /\ top \in Nat /\ (top >= PageSize) \in BOOLEAN
    BY <1>2, <1>5, PageIsNat
  <2>3. /\ export'.at = "lines" /\ export'.next = top /\ export'.last = last
        /\ (export'.full <=> top >= PageSize) /\ export'.types = export.types
        /\ export'.offset = export.offset
        /\ export'.asked = export.asked /\ export'.body = export.body /\ export'.before = export.before
        /\ export'.since = export.since /\ export'.until = export.until
    BY <2>1 DEF ExportTypes
  <2>4. ExportTypes'
    BY <2>1, <2>2 DEF ExportTypes
  <2>5. Source' = Source /\ Floor' = top
    BY <2>3 DEF Source, Floor
  <2>6. \A s : /\ LinesOf(s)' = LinesOf(s) /\ LinesTrue(s)' = LinesTrue(s) /\ Grew(s)' = Grew(s)
               /\ \A floor : ReadDown(s, floor)' = ReadDown(s, floor) /\ Orderly(s, floor)' = Orderly(s, floor)
    BY <1>1, <2>3, SourceStays
  <2>7. PageInv'
    BY <1>1, <1>2, <1>3, <2>2, <2>3, <2>5, PageIsNat DEF PageInv
  <2>8. \A s \in Kinds, floor \in Int :
          s = Source' /\ floor = Floor' => ReadDown(s, floor)' /\ Orderly(s, floor)'
    BY <1>3, <2>5, <2>6
  <2>9. SourcesInv'
    BY <1>1, <2>3, <2>5, <2>6, <2>8 DEF SourcesInv
  <2> QED
    BY <1>1, <2>4, <2>7, <2>9 DEF CreatedInv
<1> QED
  BY <1>2, <1>4, <1>5

\* A step within the source at hand.
LEMMA SameSource ==
  ASSUME ExportInv, created' = created, ExportTypes', PageInv',
         export.at \in {"paging", "lines"}, export'.at \in {"paging", "lines"},
         export.types # <<>>, export'.types = export.types, export'.asked = export.asked,
         export'.before = export.before, export'.since = export.since, export'.until = export.until,
         \A s \in Kinds : s # Source => LinesOf(s)' = LinesOf(s)
                                       /\ \A i \in LinesOf(s) : export'.body[i] = export.body[i],
         LinesTrue(Source)',
         \A floor \in Int : floor = Floor' => ReadDown(Source, floor)' /\ Orderly(Source, floor)'
  PROVE  ExportInv'
<1> USE DEF ExportInv
<1>1. Source' = Source /\ Source \in Kinds
  BY AtSource DEF Source
<1>2. ASSUME NEW s \in Kinds, s # Source
      PROVE  /\ LinesTrue(s)' = LinesTrue(s) /\ LinesOf(s)' = LinesOf(s)
             /\ ReadDown(s, 0) => ReadDown(s, 0)'
             /\ Orderly(s, 0) => Orderly(s, 0)'
  <2>1. /\ LinesOf(s)' = LinesOf(s) /\ \A i \in LinesOf(s) : export'.body[i] = export.body[i]
    BY <1>2
  <2>2. \A n : InWindow(s, n)' = InWindow(s, n)
    BY DEF InWindow
  <2> QED
    BY <2>1, <2>2 DEF LinesTrue, ReadDown, Orderly, Grew
<1>3. \A s \in Kinds : export'.before[s] <= Len(created'[s]) /\ LinesTrue(s)'
  <2>1. \A s \in Kinds : export.before[s] <= Len(created[s]) /\ LinesTrue(s)
    BY DEF SourcesInv
  <2> QED
    BY <1>1, <1>2, <2>1
<1>4. \A s \in export'.asked \ ToSet(export'.types) : ReadDown(s, 0)' /\ Orderly(s, 0)'
  <2>1. Source \in ToSet(export.types) /\ export.asked \subseteq Kinds
    BY AtSource DEF ExportTypes
  <2> QED
    BY <1>2, <2>1 DEF SourcesInv
<1>5. SourcesInv'
  <2>1. ToSet(export.types) \subseteq Kinds
    BY SubListFacts DEF ExportTypes
  <2> QED
    BY <1>1, <1>2, <1>3, <1>4, <2>1 DEF SourcesInv
<1> QED
  BY <1>5 DEF CreatedInv

\* A sequence with one more element.
LEMMA OneMore ==
  ASSUME NEW T, NEW q \in Seq(T), NEW x, x \in T, NEW k, k = Len(q) + 1
  PROVE  /\ k \in Nat /\ DOMAIN Append(q, x) = DOMAIN q \cup {k} /\ Append(q, x)[k] = x
         /\ \A i \in DOMAIN q : i < k /\ i \in Nat /\ Append(q, x)[i] = q[i]
<1>1. DOMAIN q = 1..Len(q) /\ Len(q) \in Nat
  OBVIOUS
<1>2. Append(q, x)[Len(q) + 1] = x /\ \A i \in 1..Len(q) : Append(q, x)[i] = q[i]
  OBVIOUS
<1>3. DOMAIN Append(q, x) = 1..(Len(q) + 1)
  OBVIOUS
<1>4. 1..(Len(q) + 1) = 1..Len(q) \cup {Len(q) + 1}
  BY <1>1
<1> QED
  BY <1>1, <1>2, <1>3, <1>4

LEMMA ReadLineInv == ASSUME ExportInv, ReadLine PROVE ExportInv'
<1> USE DEF ExportInv
<1>1. export.at = "lines" /\ export.next > export.last /\ created' = created /\ export.types # <<>>
  BY DEF ReadLine, PageInv
<1>2. /\ Source \in Kinds /\ created[Source] \in Seq(RecordTimes) /\ Len(created[Source]) \in Nat
      /\ export.next \in Nat /\ export.last \in Nat /\ export.next \in 1..Len(created[Source])
      /\ Floor = export.next
      /\ export.before[Source] \in Nat /\ export.before[Source] <= Len(created[Source])
      /\ ReadDown(Source, export.next) /\ Orderly(Source, export.next) /\ LinesTrue(Source)
      /\ export.since \in Int /\ export.until \in Int /\ export.body \in Seq(Line)
  BY <1>1, AtSource DEF ExportTypes, PageInv, Floor
<1> PICK s \in Kinds, n \in Nat : s = Source /\ n = export.next
  BY <1>2
<1>3. PICK time \in Int : /\ time = created[s][n]
                          /\ \A m \in 1..Len(created[s]) :
                                created[s][m] \in Int /\ (m < n => created[s][m] <= time)
  <2>1. \A m \in 1..Len(created[s]) : created[s][m] \in RecordTimes
    BY <1>2
  <2>2. \A m \in 1..Len(created[s]) : created[s][m] \in Int
    BY <2>1, PageIsNat
  <2> QED
    BY <1>2, <2>2 DEF CreatedInv
<1> DEFINE line == [type |-> s, n |-> n]
<1>4. /\ time \in Int /\ n \in 1..Len(created[s]) /\ export.last < n
  BY <1>1, <1>2, <1>3
<1>5. CASE time < export.since
  <2>1. export' = EndSource
    BY <1>3, <1>5 DEF ReadLine
  <2>2. ReadDown(s, 0)
    <3> SUFFICES ASSUME NEW m \in 1..export.before[s], InWindow(s, m), m > 0
                 PROVE  \E i \in LinesOf(s) : export.body[i].n = m
      BY DEF ReadDown
    <3>1. m \in 1..Len(created[s]) /\ created[s][m] >= export.since
      BY <1>2, <1>3 DEF InWindow
    <3>2. m > n
      BY <1>2, <1>3, <1>4, <1>5, <3>1
    <3> QED
      BY <1>2, <3>2 DEF ReadDown
  <2>3. Orderly(s, 0)
    BY <1>2 DEF Orderly, LinesTrue
  <2> QED
    BY <1>1, <2>1, <2>2, <2>3, EndSourceInv
<1>6. CASE ~(time < export.since)
  <2> DEFINE body == IF time > export.until THEN export.body ELSE Append(export.body, line)
  <2>1. export' = [export EXCEPT !.next = n - 1, !.body = body]
    BY <1>3, <1>6 DEF ReadLine
  <2>2. n - 1 \in Nat /\ body \in Seq(Line) /\ line \in Line
    <3>1. n - 1 \in Nat /\ line \in Line
      BY <1>4 DEF Line
    <3> QED
      BY <1>2, <3>1
  <2>3. /\ export'.at = "lines" /\ export'.next = n - 1 /\ export'.last = export.last
        /\ export'.full = export.full /\ export'.types = export.types
        /\ export'.offset = export.offset /\ export'.body = body
        /\ export'.asked = export.asked /\ export'.before = export.before
        /\ export'.since = export.since /\ export'.until = export.until
    BY <1>1, <2>1 DEF ExportTypes
  <2>4. ExportTypes'
    BY <2>1, <2>2 DEF ExportTypes
  <2>5. Source' = s /\ Floor' = n - 1 /\ Grew(s)' = Grew(s) /\ \A m : InWindow(s, m)' = InWindow(s, m)
    BY <1>1, <2>3 DEF Source, Floor, Grew, InWindow
  <2>6. PageInv'
    BY <1>1, <1>2, <1>4, <2>3, <2>5 DEF PageInv
  <2>7. CASE time > export.until
    <3>1. \A k : LinesOf(k)' = LinesOf(k)
      BY <2>3, <2>7 DEF LinesOf
    <3>2. LinesTrue(s)'
      BY <1>1, <1>2, <2>3, <2>5, <2>7, <3>1 DEF LinesTrue
    <3>3. ~InWindow(s, n)
      BY <1>3, <1>4, <2>7, <1>2 DEF InWindow
    <3>4. ReadDown(s, n - 1)'
      BY <1>2, <2>3, <2>5, <2>7, <3>1, <3>3 DEF ReadDown
    <3>5. Orderly(s, n - 1)'
      BY <1>2, <2>3, <2>5, <2>7, <3>1 DEF Orderly, LinesTrue
    <3> QED
      BY <1>1, <2>3, <2>4, <2>5, <2>6, <2>7, <3>1, <3>2, <3>4, <3>5, SameSource
  <2>8. CASE ~(time > export.until)
    <3> PICK k \in Nat : k = Len(export.body) + 1
      BY <1>2
    <3>1. /\ export'.body = Append(export.body, line) /\ k \in Nat
          /\ DOMAIN export'.body = DOMAIN export.body \cup {k} /\ export'.body[k] = line
          /\ \A i \in DOMAIN export.body : i < k /\ i \in Nat /\ export'.body[i] = export.body[i]
      <4>1. export'.body = Append(export.body, line)
        BY <2>3, <2>8
      <4> HIDE DEF line
      <4>2. /\ k \in Nat /\ DOMAIN Append(export.body, line) = DOMAIN export.body \cup {k}
            /\ Append(export.body, line)[k] = line
            /\ \A i \in DOMAIN export.body :
                  i < k /\ i \in Nat /\ Append(export.body, line)[i] = export.body[i]
        BY <1>2, <2>2, OneMore
      <4> QED
        BY <4>1, <4>2
    <3>2. line.type = s /\ line.n = n
      OBVIOUS
    <3> HIDE DEF line
    <3>3. LinesOf(s)' = LinesOf(s) \cup {k} /\ \A x \in Kinds : x # s => LinesOf(x)' = LinesOf(x)
      BY <3>1, <3>2 DEF LinesOf
    <3>4. \A x : \A i \in LinesOf(x) : i < k /\ i \in Nat /\ export'.body[i] = export.body[i]
      BY <3>1 DEF LinesOf
    <3>5. InWindow(s, n)
      BY <1>2, <1>3, <1>4, <1>6, <2>8 DEF InWindow
    <3>6. LinesTrue(s)'
      <4> SUFFICES ASSUME NEW i \in LinesOf(s)'
                   PROVE  export'.body[i].n \in 1..Len(created[s]) /\ InWindow(s, export'.body[i].n)
        BY <1>1, <2>5 DEF LinesTrue
      <4>1. CASE i = k
        BY <1>2, <3>1, <3>2, <3>5, <4>1
      <4>2. CASE i # k
        <5>1. i \in LinesOf(s)
          BY <3>3, <4>2
        <5> QED
          BY <1>2, <3>4, <5>1 DEF LinesTrue
      <4> QED
        BY <4>1, <4>2
    <3>7. ReadDown(s, n - 1)'
      <4> SUFFICES ASSUME NEW m \in 1..export.before[s], InWindow(s, m), m > n - 1
                   PROVE  \E i \in LinesOf(s) \cup {k} : export'.body[i].n = m
        BY <2>3, <2>5, <3>3 DEF ReadDown
      <4>1. m = n \/ m > n
        BY <1>2
      <4>2. CASE m > n
        BY <1>2, <3>4, <4>2 DEF ReadDown
      <4> QED
        BY <3>1, <3>2, <4>1, <4>2
    <3>8. Orderly(s, n - 1)'
      <4>1. CASE Grew(s)
        BY <2>5, <4>1 DEF Orderly
      <4>2. CASE ~Grew(s)
        <5>1. \A i \in LinesOf(s) : export.body[i].n \in Nat /\ export.body[i].n > n
          BY <1>2, <4>2 DEF Orderly, LinesTrue
        <5>2. \A i \in LinesOf(s)' : export'.body[i].n > n - 1
          <6>1. \A i \in LinesOf(s) : export'.body[i].n > n - 1
            BY <3>4, <5>1
          <6>2. export'.body[k].n > n - 1
            BY <3>1, <3>2
          <6> QED
            BY <3>3, <6>1, <6>2
        <5>3. ASSUME NEW i \in LinesOf(s)', NEW j \in LinesOf(s)', i < j
              PROVE  export'.body[i].n > export'.body[j].n
          <6>1. i \in LinesOf(s)
            BY <3>3, <3>4, <5>3
          <6>2. CASE j = k
            BY <3>1, <3>2, <3>4, <5>1, <6>1, <6>2
          <6>3. CASE j \in LinesOf(s)
            BY <1>2, <3>4, <4>2, <5>3, <6>1, <6>3 DEF Orderly
          <6> QED
            BY <3>3, <6>2, <6>3
        <5> QED
          BY <5>2, <5>3 DEF Orderly
      <4> QED
        BY <4>1, <4>2
    <3> QED
      BY <1>1, <2>3, <2>4, <2>5, <2>6, <3>3, <3>4, <3>6, <3>7, <3>8, SameSource
  <2> QED
    BY <2>7, <2>8
<1> QED
  BY <1>5, <1>6

LEMMA EndPageInv == ASSUME ExportInv, EndPage PROVE ExportInv'
<1> USE DEF ExportInv
<1>1. export.at = "lines" /\ export.next = export.last /\ created' = created /\ export.types # <<>>
  BY DEF EndPage, PageInv
<1>2. /\ Floor = export.last /\ export.last \in Nat /\ export.offset \in Nat
      /\ ReadDown(Source, export.last) /\ Orderly(Source, export.last) /\ LinesTrue(Source)
      /\ Len(created[Source]) \in Nat /\ Source \in Kinds
      /\ export.before[Source] \in Nat
  BY <1>1, AtSource DEF ExportTypes, Floor
<1>3. CASE ~export.full
  BY <1>1, <1>2, <1>3, EndSourceInv DEF EndPage, PageInv
<1>4. CASE export.full
  <2>1. export' = [export EXCEPT !.at = "paging", !.offset = @ + PageSize]
    BY <1>4 DEF EndPage
  <2>2. /\ export'.at = "paging" /\ export'.types = export.types
        /\ export'.offset = export.offset + PageSize /\ export'.body = export.body
        /\ export'.asked = export.asked /\ export'.before = export.before
        /\ export'.since = export.since /\ export'.until = export.until
    BY <2>1 DEF ExportTypes
  <2>3. ExportTypes' /\ PageInv'
    <3>1. export.offset + PageSize \in Nat
      BY <1>2, PageIsNat
    <3> QED
      BY <2>1, <2>2, <3>1 DEF ExportTypes, PageInv
  <2>4. \A s : /\ LinesOf(s)' = LinesOf(s) /\ LinesTrue(s)' = LinesTrue(s) /\ Grew(s)' = Grew(s)
               /\ \A floor : ReadDown(s, floor)' = ReadDown(s, floor) /\ Orderly(s, floor)' = Orderly(s, floor)
    BY <1>1, <2>2, SourceStays
  <2>5. Source' = Source /\ Floor' = Len(created[Source]) - export.offset - PageSize
    BY <1>1, <1>2, <2>2, PageIsNat DEF Source, Floor
  <2>6. ASSUME NEW floor \in Int, floor = Floor'
        PROVE  ReadDown(Source, floor) /\ Orderly(Source, floor)
    <3>1. floor >= export.last /\ (Grew(Source) \/ floor = export.last)
      BY <1>1, <1>2, <1>4, <2>5, <2>6, PageIsNat DEF PageInv
    <3> QED
      BY <1>2, <3>1 DEF ReadDown, Orderly
  <2> QED
    BY <1>1, <1>2, <2>2, <2>3, <2>4, <2>5, <2>6, SameSource
<1> QED
  BY <1>3, <1>4

LEMMA SignExportInv == ASSUME ExportInv, SignExport PROVE ExportInv'
<1> USE DEF ExportInv
<1>1. export.at = "paging" /\ export.types = <<>> /\ created' = created
      /\ export' = [export EXCEPT !.at = "signed"]
  BY DEF SignExport
<1>2. /\ export'.at = "signed" /\ export'.types = export.types /\ export'.body = export.body
      /\ export'.asked = export.asked /\ export'.before = export.before
      /\ export'.since = export.since /\ export'.until = export.until
  BY <1>1 DEF ExportTypes
<1>3. \A s : /\ LinesOf(s)' = LinesOf(s) /\ LinesTrue(s)' = LinesTrue(s)
             /\ \A floor : ReadDown(s, floor)' = ReadDown(s, floor) /\ Orderly(s, floor)' = Orderly(s, floor)
  BY <1>1, <1>2, SourceStays
<1>4. ExportTypes' /\ PageInv'
  BY <1>1, <1>2 DEF ExportTypes, PageInv
<1>5. SourcesInv'
  <2>1. ToSet(export.types) = {}
    BY <1>1 DEF ToSet
  <2> QED
    BY <1>1, <1>2, <1>3, <2>1 DEF SourcesInv
<1> QED
  BY <1>1, <1>4, <1>5 DEF CreatedInv

\* A record added while the export runs moves every later page by one.
LEMMA AddRecordInv == ASSUME ExportInv, NEW a \in Kinds, AddRecord(a) PROVE ExportInv'
<1> USE DEF ExportInv
<1> PICK t \in RecordTimes : /\ \A i \in DOMAIN created[a] : created[a][i] <= t
                             /\ created' = [created EXCEPT ![a] = Append(@, t)]
  BY DEF AddRecord
<1>1. export' = export /\ export.at \in {"out", "paging", "lines"}
  BY DEF AddRecord
<1>2. \A s \in Kinds : created[s] \in Seq(RecordTimes) /\ Len(created[s]) \in Nat
  BY DEF CreatedInv
<1>3. /\ created' \in [Kinds -> Seq(RecordTimes)] /\ created'[a] = Append(created[a], t)
      /\ \A s \in Kinds : s # a => created'[s] = created[s]
  BY <1>2 DEF CreatedInv
<1>4. /\ Len(created'[a]) = Len(created[a]) + 1
      /\ \A i \in 1..Len(created[a]) : created'[a][i] = created[a][i]
      /\ created'[a][Len(created[a]) + 1] = t
  BY <1>2, <1>3
<1>5. CreatedInv'
  <2>1. ASSUME NEW s \in Kinds, NEW i \in 1..Len(created'[s]), NEW j \in 1..Len(created'[s]), i < j
        PROVE  created'[s][i] <= created'[s][j]
    <3>1. CASE s # a
      BY <1>3, <2>1, <3>1 DEF CreatedInv
    <3>2. CASE s = a /\ j <= Len(created[a])
      BY <1>2, <1>4, <2>1, <3>2 DEF CreatedInv
    <3>3. CASE s = a /\ j = Len(created[a]) + 1
      <4>1. i \in 1..Len(created[a]) /\ DOMAIN created[a] = 1..Len(created[a])
        BY <1>2, <2>1, <3>3
      <4> QED
        BY <1>4, <3>3, <4>1
    <3> QED
      BY <1>2, <1>4, <2>1, <3>1, <3>2, <3>3
  <2> QED
    BY <1>3, <2>1 DEF CreatedInv
<1>6. \A s : LinesOf(s)' = LinesOf(s)
  BY <1>1 DEF LinesOf
<1>7. CASE export.at = "out"
  BY <1>1, <1>5, <1>7 DEF ExportTypes, PageInv, SourcesInv
<1>8. CASE export.at \in {"paging", "lines"}
  <2>1. \A s \in Kinds : /\ export.before[s] \in Nat /\ export.before[s] <= Len(created[s])
                         /\ Len(created'[s]) >= Len(created[s]) /\ Len(created'[s]) \in Nat
                         /\ \A n \in 1..Len(created[s]) : InWindow(s, n)' = InWindow(s, n)
                         /\ LinesTrue(s)
    BY <1>1, <1>2, <1>3, <1>4, <1>8 DEF SourcesInv, ExportTypes, InWindow
  <2>2. ASSUME NEW s \in Kinds
        PROVE  LinesTrue(s)' /\ (Grew(s) => Grew(s)')
    BY <1>1, <1>2, <1>6, <2>1 DEF LinesTrue, Grew
  <2>3. ASSUME NEW s \in Kinds, NEW floor \in Int, NEW low \in Int, low <= floor,
               ReadDown(s, low), Orderly(s, low), s = a \/ floor = low
        PROVE  ReadDown(s, floor)' /\ Orderly(s, floor)'
    <3>1. ReadDown(s, floor)'
      BY <1>1, <1>2, <1>6, <2>1, <2>3 DEF ReadDown
    <3>2. CASE s = a
      <4>1. Grew(a)'
        BY <1>1, <1>2, <1>4, <2>1, <3>2 DEF Grew
      <4> QED
        BY <3>1, <3>2, <4>1 DEF Orderly
    <3>3. CASE s # a
      BY <1>1, <1>6, <2>2, <2>3, <3>1, <3>3 DEF Orderly
    <3> QED
      BY <3>2, <3>3
  <2>4. Source' = Source
    BY <1>1 DEF Source
  <2>5. ASSUME NEW s \in Kinds, NEW floor \in Int, export.types # <<>>, s = Source, floor = Floor'
        PROVE  ReadDown(s, floor)' /\ Orderly(s, floor)'
    <3>1. Floor \in Int /\ ReadDown(s, Floor) /\ Orderly(s, Floor)
      BY <1>8, <2>5, AtSource
    <3>2. Floor <= floor /\ (s = a \/ floor = Floor)
      BY <1>1, <1>2, <1>3, <1>4, <1>8, <2>4, <2>5 DEF Floor, ExportTypes
    <3> QED
      BY <2>3, <3>1, <3>2
  <2>6. \A s \in export.asked \ ToSet(export.types) : ReadDown(s, 0)' /\ Orderly(s, 0)'
    BY <1>8, <2>3 DEF SourcesInv, ExportTypes
  <2>7. SourcesInv'
    BY <1>1, <1>6, <1>8, <2>1, <2>2, <2>4, <2>5, <2>6 DEF SourcesInv
  <2>8. PageInv'
    <3> SUFFICES ASSUME export.at = "lines" PROVE PageInv'
      BY <1>1, <1>8 DEF PageInv
    <3>1. /\ Source \in Kinds /\ Len(created'[Source]) >= Len(created[Source])
          /\ Len(created[Source]) \in Nat /\ Len(created'[Source]) \in Nat
          /\ export.offset \in Nat /\ export.last \in Nat /\ export.next \in Nat
          /\ export.types # <<>>
      BY <1>2, <2>1, AtSource DEF PageInv, ExportTypes
    <3>2. Source = a \/ created'[Source] = created[Source]
      BY <1>3, <3>1
    <3>3. (Grew(Source) \/ Source = a) => export'.before[Source'] < Len(created'[Source'])
      BY <1>1, <1>2, <1>4, <2>1, <2>4, <3>1, <3>2 DEF Grew
    <3>4. Grew(Source)' <=> Len(created'[Source']) > export'.before[Source']
      BY DEF Grew
    <3>5. \A m, l \in Nat : m < l <=> l > m
      OBVIOUS
    <3>6. Source = a \/ Grew(Source) => Grew(Source)'
      BY <1>1, <2>1, <2>4, <3>1, <3>3, <3>4, <3>5
    <3> QED
      BY <1>1, <2>4, <3>1, <3>2, <3>6, PageIsNat DEF PageInv
  <2> QED
    BY <1>1, <1>5, <2>7, <2>8 DEF ExportTypes
<1> QED
  BY <1>1, <1>7, <1>8

LEMMA ExportNextInv == ASSUME ExportInv, [ExportNext]_exportVars PROVE ExportInv'
<1>1. CASE UNCHANGED exportVars
  <2>1. created' = created /\ export' = export
    BY <1>1 DEF exportVars
  <2>2. \A s : /\ LinesOf(s)' = LinesOf(s) /\ LinesTrue(s)' = LinesTrue(s) /\ Grew(s)' = Grew(s)
               /\ \A floor : ReadDown(s, floor)' = ReadDown(s, floor) /\ Orderly(s, floor)' = Orderly(s, floor)
    BY <2>1, SourceStays
  <2>3. Source' = Source /\ Floor' = Floor
    BY <2>1 DEF Source, Floor
  <2> QED
    BY <2>1, <2>2, <2>3 DEF ExportInv, CreatedInv, ExportTypes, PageInv, SourcesInv
<1> QED
  BY <1>1, KindsAre, StartExportInv, ReadPageInv, ReadLineInv, EndPageInv, SignExportInv,
     AddRecordInv DEF ExportNext

LEMMA WholeIsTold == ExportInv => ExportIsWhole
<1> SUFFICES ASSUME ExportInv, export.at = "signed", NEW s \in export.asked
             PROVE  /\ \A n \in 1..export.before[s] :
                         InWindow(s, n) => \E i \in LinesOf(s) : export.body[i].n = n
                    /\ Grew(s) \/ \A i, j \in LinesOf(s) : i < j => export.body[i].n > export.body[j].n
                    /\ \A i \in LinesOf(s) : InWindow(s, export.body[i].n)
  BY DEF ExportIsWhole
<1>1. s \in Kinds /\ s \notin ToSet(export.types) /\ export.before[s] \in Nat
  BY SubListFacts DEF ExportInv, ExportTypes, SourcesInv
<1>2. ReadDown(s, 0) /\ Orderly(s, 0) /\ LinesTrue(s)
  BY <1>1 DEF ExportInv, SourcesInv
<1> QED
  BY <1>1, <1>2 DEF ReadDown, Orderly, LinesTrue
-----------------------------------------------------------------------------
(* The bundle's key.  While a thread has yet to save a key of its own, every   *)
(* signature made or about to be made by another has raced with it.             *)

BuilderType == [at : {"out", "save", "sign"}, key : Nat, raced : BOOLEAN]
BundleInv ==
    /\ keyRow \in Nat /\ minted \in Nat
    /\ builder \in [Builders -> BuilderType]
    /\ \A x \in bundles : x.raced \in BOOLEAN
    /\ \A b \in Builders : builder[b].at = "save" => builder[b].key # 0
    /\ keyRow = 0 => bundles = {} /\ \A b \in Builders : builder[b].at # "sign"
    /\ \A b \in Builders : builder[b].at = "sign" => builder[b].key = keyRow \/ builder[b].raced
    /\ \A x \in bundles : x.key = keyRow \/ x.raced
    /\ \A o \in Builders : builder[o].at = "save" =>
          /\ \A x \in bundles : x.raced
          /\ \A b \in Builders : builder[b].at = "sign" => builder[b].raced

LEMMA BundleStart == ASSUME ComplianceInit PROVE BundleInv
  BY DEF ComplianceInit, BundleInv, BuilderType, Unbuilding

\* One thread moves, the others stay.
LEMMA BuilderMoves ==
  ASSUME BundleInv, NEW b \in Builders, NEW r \in BuilderType, BuilderIs(b, r)
  PROVE  /\ builder' \in [Builders -> BuilderType] /\ builder'[b] = r
         /\ \A o \in Builders : o # b => builder'[o] = builder[o]
  BY DEF BundleInv, BuilderIs

LEMMA LoadKeyInv == ASSUME BundleInv, NEW b \in Builders, LoadKey(b) PROVE BundleInv'
<1>1. builder[b].at = "out" /\ keyRow' = keyRow /\ bundles' = bundles
  BY DEF LoadKey
<1>2. CASE keyRow # 0
  <2> DEFINE r == [at |-> "sign", key |-> keyRow, raced |-> OthersSave(b)]
  <2>1. minted' = minted /\ BuilderIs(b, r)
    BY <1>2 DEF LoadKey
  <2>2. OthersSave(b) \in BOOLEAN
    BY DEF OthersSave
  <2>3. r \in BuilderType
    BY <2>2 DEF BundleInv, BuilderType
  <2>4. /\ builder' \in [Builders -> BuilderType]
        /\ builder'[b].at = "sign" /\ builder'[b].key = keyRow /\ builder'[b].raced = OthersSave(b)
        /\ \A o \in Builders : o # b => builder'[o] = builder[o]
    BY <2>1, <2>3, BuilderMoves
  <2>5. \A o \in Builders : builder'[o].at = "save" => o # b /\ builder[o].at = "save" /\ builder'[b].raced
    BY <2>4 DEF OthersSave
  <2> QED
    BY <1>1, <1>2, <2>1, <2>4, <2>5 DEF BundleInv
<1>3. CASE keyRow = 0
  <2> DEFINE r == [Unbuilding EXCEPT !.at = "save", !.key = minted + 1]
  <2>1. minted' = minted + 1 /\ BuilderIs(b, r)
    BY <1>3 DEF LoadKey
  <2>2. r \in BuilderType /\ r.at = "save" /\ r.key = minted + 1 /\ minted + 1 # 0
    <3>1. minted + 1 \in Nat /\ minted + 1 # 0
      BY DEF BundleInv
    <3>2. Unbuilding \in BuilderType
      BY DEF Unbuilding, BuilderType
    <3> DEFINE key == minted + 1
    <3> HIDE DEF key
    <3>3. \A k \in Nat : LET q == [Unbuilding EXCEPT !.at = "save", !.key = k]
                         IN  q \in BuilderType /\ q.at = "save" /\ q.key = k
      BY <3>2 DEF BuilderType
    <3> QED
      BY <3>1, <3>3
  <2>3. /\ builder' \in [Builders -> BuilderType] /\ builder'[b].at = "save" /\ builder'[b].key # 0
        /\ \A o \in Builders : o # b => builder'[o] = builder[o]
    BY <2>1, <2>2, BuilderMoves
  <2> QED
    BY <1>1, <1>3, <2>1, <2>3 DEF BundleInv
<1> QED
  BY <1>2, <1>3

LEMMA SaveKeyInv == ASSUME BundleInv, NEW b \in Builders, SaveKey(b) PROVE BundleInv'
<1> DEFINE r == [builder[b] EXCEPT !.at = "sign", !.raced = keyRow # 0 \/ OthersSave(b)]
<1>1. /\ builder[b].at = "save" /\ keyRow' = builder[b].key /\ BuilderIs(b, r)
      /\ minted' = minted /\ bundles' = bundles
  BY DEF SaveKey
<1>2. (keyRow # 0 \/ OthersSave(b)) \in BOOLEAN /\ builder[b] \in BuilderType
  BY DEF OthersSave, BundleInv
<1>3. r \in BuilderType /\ r.at = "sign" /\ r.key = builder[b].key /\ (r.raced <=> keyRow # 0 \/ OthersSave(b))
  BY <1>2 DEF BuilderType
<1>4. /\ builder' \in [Builders -> BuilderType]
      /\ builder'[b].at = "sign" /\ builder'[b].key = keyRow'
      /\ (builder'[b].raced <=> keyRow # 0 \/ OthersSave(b))
      /\ \A o \in Builders : o # b => builder'[o] = builder[o]
  BY <1>1, <1>3, BuilderMoves
<1>5. \A o \in Builders : builder'[o].at = "save" => o # b /\ builder[o].at = "save" /\ builder'[b].raced
  BY <1>4 DEF OthersSave
<1>6. keyRow' \in Nat /\ keyRow' # 0
  BY <1>1, <1>2 DEF BundleInv, BuilderType
<1>7. \A x \in bundles : x.raced
  BY <1>1 DEF BundleInv
<1>8. \A o \in Builders : o # b /\ builder[o].at = "sign" => builder[o].raced
  BY <1>1 DEF BundleInv
<1> QED
  BY <1>1, <1>4, <1>5, <1>6, <1>7, <1>8 DEF BundleInv

LEMMA SignBundleInv == ASSUME BundleInv, NEW b \in Builders, SignBundle(b) PROVE BundleInv'
<1> DEFINE x == [key |-> builder[b].key, raced |-> builder[b].raced]
<1>1. /\ builder[b].at = "sign" /\ keyRow' = keyRow /\ minted' = minted
      /\ bundles' = bundles \cup {x} /\ BuilderIs(b, Unbuilding)
  BY DEF SignBundle
<1>2. Unbuilding \in BuilderType /\ Unbuilding.at = "out" /\ builder[b] \in BuilderType
  BY DEF Unbuilding, BuilderType, BundleInv
<1>3. /\ builder' \in [Builders -> BuilderType] /\ builder'[b].at = "out"
      /\ \A o \in Builders : o # b => builder'[o] = builder[o]
  BY <1>1, <1>2, BuilderMoves
<1>4. x.key = builder[b].key /\ x.raced = builder[b].raced /\ builder[b].raced \in BOOLEAN
  BY <1>2 DEF BuilderType
<1> HIDE DEF x
<1>5. x.key = keyRow \/ x.raced
  BY <1>1, <1>4 DEF BundleInv
<1>6. \A o \in Builders : builder[o].at = "save" => x.raced
  BY <1>1, <1>4 DEF BundleInv
<1>7. keyRow # 0
  BY <1>1 DEF BundleInv
<1> QED
  BY <1>1, <1>3, <1>4, <1>5, <1>6, <1>7 DEF BundleInv

LEMMA BundleNextInv == ASSUME BundleInv, [BundleNext]_bundleVars PROVE BundleInv'
<1>1. CASE UNCHANGED bundleVars
  BY <1>1 DEF BundleInv, bundleVars
<1> QED
  BY <1>1, LoadKeyInv, SaveKeyInv, SignBundleInv DEF BundleNext

-----------------------------------------------------------------------------
(* The manifest and the signature: what they say of any settings and packages. *)

ReportInv ==
    manifest # NoManifest =>
        \E m \in Manifests : /\ manifest.of = m /\ manifest.signals = Signals(m)
                             /\ manifest.overall = Overall(Signals(m))

LEMMA ReportKeeps == ASSUME ReportInv, [Report]_manifest PROVE ReportInv'
  BY DEF ReportInv, Report

\* A signal that is not green is seen in the overall one.
LEMMA OverallIsWorst ==
  ASSUME NEW m
  PROVE  LET seen == {Signals(m)[s] : s \in DOMAIN Signals(m)}
         IN  /\ "red" \in seen => Overall(Signals(m)) = "red"
             /\ Overall(Signals(m)) = "green" => "red" \notin seen /\ "yellow" \notin seen
  BY DEF Overall

LEMMA SignalsSeen ==
  ASSUME NEW m
  PROVE  /\ Secret(m.jwt) \in {Signals(m)[s] : s \in DOMAIN Signals(m)}
         /\ Secret(m.hmac) \in {Signals(m)[s] : s \in DOMAIN Signals(m)}
         /\ (IF m.sso THEN GreenIf(m.domains) ELSE "red") \in {Signals(m)[s] : s \in DOMAIN Signals(m)}
         /\ GreenIf(m.strict) \in {Signals(m)[s] : s \in DOMAIN Signals(m)}
         /\ WithPackage("sal", GreenIf(m.sal)) \in {Signals(m)[s] : s \in DOMAIN Signals(m)}
         /\ WithPackage("sal_auto", GreenIf(m.gate /\ m.enforce)) \in {Signals(m)[s] : s \in DOMAIN Signals(m)}
         /\ WithPackage("governance_customer", "green") \in {Signals(m)[s] : s \in DOMAIN Signals(m)}
<1> DEFINE g == Signals(m)
<1>1. /\ DOMAIN g = {"jwt_secret", "sso_enabled", "audit_export_hmac", "governance_profile",
                     "sal_ve_gate", "aa_proposal_gate", "tenant_isolation", "egl_tiers"}
      /\ g["jwt_secret"] = Secret(m.jwt) /\ g["audit_export_hmac"] = Secret(m.hmac)
      /\ g["sso_enabled"] = (IF m.sso THEN GreenIf(m.domains) ELSE "red")
      /\ g["governance_profile"] = GreenIf(m.strict)
      /\ g["sal_ve_gate"] = WithPackage("sal", GreenIf(m.sal))
      /\ g["aa_proposal_gate"] = WithPackage("sal_auto", GreenIf(m.gate /\ m.enforce))
      /\ g["egl_tiers"] = WithPackage("governance_customer", "green")
  BY DEF Signals
<1> HIDE DEF g
<1>2. \A s \in DOMAIN g : g[s] \in {g[k] : k \in DOMAIN g}
  OBVIOUS
<1> QED
  BY <1>1, <1>2 DEF g

LEMMA ReportTells == ReportInv => GreenIsEarned
<1> SUFFICES ASSUME NEW m \in Manifests, manifest.of = m, manifest.overall = Overall(Signals(m))
             PROVE  /\ manifest.overall = "green" =>
                          /\ m.sso /\ m.domains /\ m.strict /\ m.jwt = 32 /\ m.hmac = 32
                    /\ Installed # Packages => manifest.overall = "red"
  BY DEF ReportInv, GreenIsEarned
<1> DEFINE seen == {Signals(m)[s] : s \in DOMAIN Signals(m)}
<1>1. m.jwt \in {0, 31, 32} /\ m.hmac \in {0, 31, 32}
  BY DEF Manifests
<1>2. /\ "red" \in seen => manifest.overall = "red"
      /\ manifest.overall = "green" => "red" \notin seen /\ "yellow" \notin seen
  BY OverallIsWorst
<1>3. /\ Secret(m.jwt) \in seen /\ Secret(m.hmac) \in seen
      /\ (IF m.sso THEN GreenIf(m.domains) ELSE "red") \in seen /\ GreenIf(m.strict) \in seen
      /\ WithPackage("sal", GreenIf(m.sal)) \in seen
      /\ WithPackage("sal_auto", GreenIf(m.gate /\ m.enforce)) \in seen
      /\ WithPackage("governance_customer", "green") \in seen
  BY SignalsSeen
<1> HIDE DEF seen
<1>4. ASSUME manifest.overall = "green"
      PROVE  m.sso /\ m.domains /\ m.strict /\ m.jwt = 32 /\ m.hmac = 32
  BY <1>1, <1>2, <1>3, <1>4 DEF Secret, GreenIf
<1>5. ASSUME Installed # Packages PROVE manifest.overall = "red"
  <2>1. PICK p \in Packages : p \notin Installed
    BY <1>5, ComplianceAssumption
  <2> QED
    BY <1>2, <1>3, <2>1 DEF Packages, WithPackage
<1> QED
  BY <1>4, <1>5

LEMMA AlterationsAreFound == AlterationIsFound
<1>1. /\ Built.files = "f" /\ Built.digests = "f" /\ Built.by = "k" /\ Built.over = "f"
      /\ Built.public = "k" /\ Built.counts = "f"
      /\ DOMAIN Built = {"files", "digests", "by", "over", "public", "counts"}
  BY DEF Built
<1>2. VerifyBundle(Built)
  BY <1>1 DEF VerifyBundle
<1>3. ASSUME NEW f \in DOMAIN Built
      PROVE  VerifyBundle([Built EXCEPT ![f] = "altered"]) <=> f = "counts"
  BY <1>1, <1>3 DEF VerifyBundle, Built
<1> QED
  BY <1>2, <1>3 DEF AlterationIsFound

-----------------------------------------------------------------------------
EvidenceInv == ExportInv /\ BundleInv /\ ReportInv

\* The inductive invariant of the export, the bundle and the manifest.
THEOREM EvidenceInvariant == ComplianceSpec => []EvidenceInv
<1>1. ComplianceInit => EvidenceInv
  BY ComplianceStart, BundleStart DEF ComplianceInit, EvidenceInv, ReportInv
<1>2. ASSUME EvidenceInv, [ComplianceNext]_complianceVars PROVE EvidenceInv'
  <2>1. [ExportNext]_exportVars /\ [BundleNext]_bundleVars /\ [Report]_manifest
    BY <1>2 DEF ComplianceNext, complianceVars, exportVars, bundleVars
  <2> QED
    BY <1>2, <2>1, ExportNextInv, BundleNextInv, ReportKeeps DEF EvidenceInv
<1> QED
  BY <1>1, <1>2, PTL DEF ComplianceSpec

LEMMA EvidenceTold == EvidenceInv => ExportIsWhole /\ OneKey /\ AlterationIsFound /\ GreenIsEarned
  BY WholeIsTold, ReportTells, AlterationsAreFound DEF EvidenceInv, BundleInv, OneKey

\* For any verifiers and keys, sources, page size, records added meanwhile and
\* threads that build a bundle: what the auditor is handed is true.  An export has
\* every record of its window, a bundle is signed with the stored key unless its
\* thread raced to make the first one, and no manifest is green that is not earned.
THEOREM EvidenceHoldsAlways == SignOnSpec /\ ComplianceSpec => []EvidenceHolds
<1>1. ComplianceSpec => []EvidenceInv
  BY EvidenceInvariant
<1>2. SignOnSpec => []SignOnHolds
  BY SignOnIsTimely
<1>3. EvidenceInv /\ SignOnHolds => EvidenceHolds
  BY EvidenceTold DEF EvidenceHolds
<1> QED
  BY <1>1, <1>2, <1>3, PTL
=============
