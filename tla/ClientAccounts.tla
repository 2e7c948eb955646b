--------------------------- MODULE ClientAccounts ---------------------------
(* Client accounts, their subscriptions and their directives (core/clients). *)
(* Every function opens a session, reads, and commits later; Stripe is       *)
(* called in between.  Nothing makes an account inactive, and no expiry date *)
(* of a subscription is ever looked at.                                      *)
EXTENDS Naturals, FiniteSets

CONSTANTS
    Desks,        \* requests in progress
    Emails,       \* an account is known by its address, which is unique
    Identities,   \* Google's subject identifiers
    Subs,         \* subscriptions
    NoOwner       \* no account, no identity

ASSUME ClientsAssumption == NoOwner \notin Emails \cup Identities

VARIABLES
    accounts,      \* each address: no row, or whether it has a password and which
                   \*   Google identity it is linked to
    subs,          \* each subscription: its status here
    stripe,        \* its status at Stripe
    directives,    \* each subscription's latest directive
    desk,          \* what each request is doing
    relinked,      \* history: accounts two identities were linking at once
    drifted,       \* history: subscriptions Stripe did not cancel when asked
    interrupted    \* history: subscriptions whose cancelling request stopped half-way

clientVars == <<accounts, subs, stripe, directives, desk, relinked, drifted, interrupted>>

Vacant == [at |-> "free", account |-> NoOwner, identity |-> NoOwner, sub |-> NoOwner]
Serve(d, r) == desk' = [desk EXCEPT ![d] = r]

Account == [password : BOOLEAN, google : Identities \cup {NoOwner}]

ASSUME NoAccountAssumption == NoOwner \notin Account

ClientsInit ==
    /\ accounts = [e \in Emails |-> NoOwner]
    /\ subs = [s \in Subs |-> "none"] /\ stripe = [s \in Subs |-> "none"]
    /\ directives = [s \in Subs |-> "none"]
    /\ desk = [d \in Desks |-> Vacant]
    /\ relinked = {} /\ drifted = {} /\ interrupted = {}

Registered(e) == accounts[e] # NoOwner
Linked(g) == {e \in Emails : Registered(e) /\ accounts[e].google = g}

-----------------------------------------------------------------------------
(* Accounts.                                                                  *)

RegisterClient(e) ==
    /\ ~Registered(e)
    /\ accounts' = [accounts EXCEPT ![e] = [password |-> TRUE, google |-> NoOwner]]
    /\ UNCHANGED <<subs, stripe, directives, desk, relinked, drifted, interrupted>>

\* google_auth_or_create reads by identity, then by address.  An account that is
\* linked already is returned as it is.
GoogleSignIn(d, g, e) ==
    /\ desk[d] = Vacant
    /\ Linked(g) = {}
    /\ Registered(e) => accounts[e].google = NoOwner
    /\ Serve(d, [Vacant EXCEPT !.at = IF Registered(e) THEN "link" ELSE "create",
                               !.account = e, !.identity = g])
    /\ relinked' = IF \E o \in Desks : desk[o].account = e THEN relinked \cup {e} ELSE relinked
    /\ UNCHANGED <<accounts, subs, stripe, directives, drifted, interrupted>>

\* Mutant: the address is not unique, so the new row hides the old one.
CreateOver(d) ==
    /\ desk[d].at = "create" /\ Linked(desk[d].identity) = {}
    /\ accounts' = [accounts EXCEPT ![desk[d].account] =
                       [password |-> FALSE, google |-> desk[d].identity]]
    /\ Serve(d, Vacant)
    /\ UNCHANGED <<subs, stripe, directives, relinked, drifted, interrupted>>

\* The address and the identity are unique: a second row is refused.
CreateLinked(d) ==
    /\ desk[d].at = "create"
    /\ ~Registered(desk[d].account) /\ Linked(desk[d].identity) = {}
    /\ accounts' = [accounts EXCEPT ![desk[d].account] =
                       [password |-> FALSE, google |-> desk[d].identity]]
    /\ Serve(d, Vacant)
    /\ UNCHANGED <<subs, stripe, directives, relinked, drifted, interrupted>>

LinkAccount(d) ==
    /\ desk[d].at = "link" /\ Linked(desk[d].identity) \subseteq {desk[d].account}
    /\ accounts' = [accounts EXCEPT ![desk[d].account].google = desk[d].identity]
    /\ Serve(d, Vacant)
    /\ UNCHANGED <<subs, stripe, directives, relinked, drifted, interrupted>>

-----------------------------------------------------------------------------
(* Subscriptions.                                                             *)

CreateSubscription(s) ==
    /\ subs[s] = "none"
    /\ subs' = [subs EXCEPT ![s] = "active"]
    /\ \E paid \in {"none", "active"} : stripe' = [stripe EXCEPT ![s] = paid]
    /\ UNCHANGED <<accounts, directives, desk, relinked, drifted, interrupted>>

BeginCancel(d, s) ==
    /\ desk[d] = Vacant /\ subs[s] = "active"
    /\ Serve(d, [Vacant EXCEPT !.at = IF stripe[s] = "none" THEN "cancel" ELSE "stripe", !.sub = s])
    /\ UNCHANGED <<accounts, subs, stripe, directives, relinked, drifted, interrupted>>

\* Stripe may refuse, which is logged and no more.
CancelAtStripe(d) ==
    /\ desk[d].at = "stripe"
    /\ \/ stripe' = [stripe EXCEPT ![desk[d].sub] = "cancelled"] /\ UNCHANGED drifted
       \/ drifted' = drifted \cup {desk[d].sub} /\ UNCHANGED stripe
    /\ Serve(d, [desk[d] EXCEPT !.at = "cancel"])
    /\ UNCHANGED <<accounts, subs, directives, relinked, interrupted>>

CancelHere(d) ==
    /\ desk[d].at = "cancel"
    /\ subs' = [subs EXCEPT ![desk[d].sub] = "cancelled"]
    /\ Serve(d, Vacant)
    /\ UNCHANGED <<accounts, stripe, directives, relinked, drifted, interrupted>>

AddDirective(s) ==
    /\ subs[s] # "none"
    /\ directives' = [directives EXCEPT ![s] = "pending"]
    /\ UNCHANGED <<accounts, subs, stripe, desk, relinked, drifted, interrupted>>

UpdateDirectiveResponse(s) ==
    /\ directives[s] # "none"
    /\ directives' = [directives EXCEPT ![s] = "completed"]
    /\ UNCHANGED <<accounts, subs, stripe, desk, relinked, drifted, interrupted>>

\* The request raises, or the server stops.
Hangup(d) ==
    /\ desk[d] # Vacant
    /\ Serve(d, Vacant)
    /\ interrupted' = IF desk[d].at = "cancel" THEN interrupted \cup {desk[d].sub} ELSE interrupted
    /\ UNCHANGED <<accounts, subs, stripe, directives, relinked, drifted>>

AccountSteps ==
    \/ \E e \in Emails : RegisterClient(e)
    \/ \E d \in Desks, g \in Identities, e \in Emails : GoogleSignIn(d, g, e)
    \/ \E d \in Desks : CreateLinked(d) \/ LinkAccount(d) \/ Hangup(d)

SubscriptionSteps ==
    \/ \E s \in Subs : CreateSubscription(s) \/ AddDirective(s) \/ UpdateDirectiveResponse(s)
    \/ \E d \in Desks, s \in Subs : BeginCancel(d, s)
    \/ \E d \in Desks : CancelAtStripe(d) \/ CancelHere(d) \/ Hangup(d)

ClientsSpec == ClientsInit /\ [][AccountSteps \/ SubscriptionSteps]_clientVars

-----------------------------------------------------------------------------
\* An account linked to an identity stays linked to it, and one that has a
\* password keeps it, unless two identities were linking the account at once
\* (google_auth_or_create).
LinkIsKept ==
    [][\A e \in Emails : Registered(e) =>
          /\ accounts[e].password => accounts'[e].password
          /\ accounts[e].google # NoOwner /\ e \notin relinked
                => accounts'[e].google = accounts[e].google]_clientVars

Cancelling(s) == \E d \in Desks : desk[d].at = "cancel" /\ desk[d].sub = s

\* Nobody pays Stripe for a subscription cancelled here unless Stripe refused to
\* cancel it, and what Stripe cancelled is cancelled here or about to be, unless
\* the request stopped in between (cancel_client_subscription).
BillingFollowsStatus ==
    \A s \in Subs :
        /\ subs[s] = "cancelled" /\ stripe[s] = "active" => s \in drifted
        /\ stripe[s] = "cancelled" /\ subs[s] = "active" => Cancelling(s) \/ s \in interrupted

\* Accounts stay with their owners and billing with the status of the
\* subscription, however requests race or stop.
ClientsAreKept == [](BillingFollowsStatus /\ accounts \in [Emails -> Account \cup {NoOwner}]) /\ LinkIsKept
=============================================================================
