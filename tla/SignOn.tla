------------------------------- MODULE SignOn -------------------------------
(* Single sign-on (core/auth/sso/oidc.py): an identity provider's token is   *)
(* verified against documents the process keeps for a time - the discovery   *)
(* document, which names the address of the keys, and the keys - while the   *)
(* provider changes its keys and moves them.                                 *)
EXTENDS Integers, FiniteSetsExt

CONSTANTS
    Verifiers,    \* threads
    Kids,         \* the provider's signing keys
    Uris,         \* addresses of the key set
    Tokens,       \* [kid, key, iss, valid, subject]: the key named, the key that signed
    SsoSettings,  \* [on, discovery, client, issuers]
    TTL,          \* _JWKS_CACHE_TTL_SECONDS, an hour, in ticks; never 0
    MaxTick,      \* bound on the clock
    MaxMoves,     \* bound on the provider's changes
    Void          \* no key, no document, no address

ASSUME SignOnAssumption ==
    /\ TTL \in Nat \ {0} /\ MaxTick \in Nat /\ MaxMoves \in Nat
    /\ Void \notin Kids /\ "discovery" \notin Uris

VARIABLES
    sso,          \* the settings, read on every call
    tick,         \* the clock
    idp,          \* [uri, keys]: where the provider's keys are, and which
    moves,        \* its changes
    kept,         \* _jwks_cache: [at, says] for the discovery and each address
    verifier,     \* what each thread is doing
    lastSeen,     \* history: when each key was last published, -1 for never
    since         \* history: since when it is

signOnVars == <<sso, tick, idp, moves, kept, verifier, lastSeen, since>>

Discovery == "discovery"
NoDoc == [at |-> -TTL, says |-> Void]
Says(want) == IF want = Discovery THEN idp.uri ELSE idp.keys
Away == [at |-> "out", token |-> Void, want |-> Discovery, began |-> 0, doc |-> NoDoc, verdict |-> "none"]

SignOnInit ==
    /\ sso \in SsoSettings
    /\ tick = 0 /\ moves \in 0..MaxMoves
    /\ \E u \in Uris, k \in Kids : idp = [uri |-> u, keys |-> {k}]
    /\ kept = [d \in {Discovery} \cup Uris |-> NoDoc]
    /\ verifier = [v \in Verifiers |-> Away]
    /\ lastSeen = [k \in Kids |-> IF k \in idp.keys THEN 0 ELSE -1]
    /\ since = [k \in Kids |-> 0]

Busy(v, r) == verifier' = [verifier EXCEPT ![v] = r]
Say(v, token, verdict) ==
    Busy(v, [Away EXCEPT !.at = "done", !.token = token, !.verdict = verdict,
                         !.began = IF verdict = "config" THEN 0 ELSE verifier[v].began])

\* get_active_provider and the first reader of verify.
BeginVerify(v) ==
    /\ verifier[v].at \in {"out", "done"}
    /\ Busy(v, IF sso.on /\ sso.discovery THEN [Away EXCEPT !.at = "look", !.began = tick]
               ELSE [Away EXCEPT !.at = "done", !.verdict = "config"])
    /\ UNCHANGED <<sso, tick, idp, moves, kept, lastSeen, since>>

\* The address found leads to the keys; with the keys the token can be judged.
Use(v, doc) ==
    IF verifier[v].want = Discovery
    THEN [verifier[v] EXCEPT !.at = "look", !.want = doc.says, !.doc = NoDoc]
    ELSE [verifier[v] EXCEPT !.at = "judge", !.doc.says = doc.says, !.doc.at = 0]

\* Mutant: a document once fetched is kept for good.
LookForever(v) ==
    /\ verifier[v].at = "look"
    /\ LET doc == kept[verifier[v].want] IN
        Busy(v, IF doc # NoDoc THEN Use(v, doc)
                ELSE [verifier[v] EXCEPT !.at = "fetch", !.doc.at = tick])
    /\ UNCHANGED <<sso, tick, idp, moves, kept, lastSeen, since>>

\* _fetch_discovery and _fetch_jwks read the clock, then the cache ...
Look(v) ==
    /\ verifier[v].at = "look"
    /\ LET doc == kept[verifier[v].want] IN
        Busy(v, IF tick - doc.at < TTL THEN Use(v, doc)
                ELSE [verifier[v] EXCEPT !.at = "fetch", !.doc.at = tick])
    /\ UNCHANGED <<sso, tick, idp, moves, kept, lastSeen, since>>

\* ... then the provider, which may not answer, and no longer does at an old address ...
Fetch(v) ==
    /\ verifier[v].at = "fetch"
    /\ \/ Say(v, Void, "config")
       \/ /\ verifier[v].want \in {Discovery, idp.uri}
          /\ Busy(v, [verifier[v] EXCEPT !.at = "store", !.doc.says = Says(verifier[v].want)])
    /\ UNCHANGED <<sso, tick, idp, moves, kept, lastSeen, since>>

\* ... and keep what came under the time read first, over what another thread kept.
Store(v) ==
    /\ verifier[v].at = "store"
    /\ kept' = [kept EXCEPT ![verifier[v].want] = verifier[v].doc]
    /\ Busy(v, Use(v, verifier[v].doc))
    /\ UNCHANGED <<sso, tick, idp, moves, lastSeen, since>>

\* _find_key: the key a token names, or the only one when it names none.
FindKey(keys, kid) ==
    IF kid \in keys THEN kid
    ELSE IF kid = Void /\ Cardinality(keys) = 1 THEN CHOOSE k \in keys : TRUE ELSE Void

\* The issuers an operator lists, or the discovery document's.
AllowedIssuers == IF sso.issuers # {} THEN sso.issuers ELSE {"idp"}

Verdict(keys, t) ==
    LET key == FindKey(keys, t.kid) IN
    CASE key = Void -> "unknown key"
      [] key # Void /\ ~sso.client -> "config"
      [] key # Void /\ sso.client /\ (key # t.key \/ ~t.valid) -> "invalid"
      [] OTHER -> IF t.iss \notin AllowedIssuers THEN "issuer"
                  ELSE IF t.subject THEN "accepted" ELSE "no subject"

\* Nothing was asked of the token before.
JudgeToken(v) ==
    /\ verifier[v].at = "judge"
    /\ \E t \in Tokens : Say(v, t, Verdict(verifier[v].doc.says, t))
    /\ UNCHANGED <<sso, tick, idp, moves, kept, lastSeen, since>>

-----------------------------------------------------------------------------
TickSso ==
    /\ tick < MaxTick
    /\ tick' = tick + 1
    /\ lastSeen' = [k \in Kids |-> IF k \in idp.keys THEN tick + 1 ELSE lastSeen[k]]
    /\ UNCHANGED <<sso, idp, moves, kept, verifier, since>>

\* The provider replaces its keys, or moves them and answers no more at the old address.
ChangeIdp ==
    /\ moves < MaxMoves
    /\ moves' = moves + 1
    /\ \E u \in Uris, keys \in SUBSET Kids \ {{}} :
        /\ [uri |-> u, keys |-> keys] # idp
        /\ idp' = [uri |-> u, keys |-> keys]
        /\ lastSeen' = [k \in Kids |-> IF k \in keys THEN tick ELSE lastSeen[k]]
        /\ since' = [k \in Kids |-> IF k \in keys \ idp.keys THEN tick ELSE since[k]]
    /\ UNCHANGED <<sso, tick, kept, verifier>>

SignOnNext ==
    \/ TickSso \/ ChangeIdp
    \/ \E v \in Verifiers : BeginVerify(v) \/ Look(v) \/ Fetch(v) \/ Store(v) \/ JudgeToken(v)

SignOnSpec == SignOnInit /\ [][SignOnNext]_signOnVars

-----------------------------------------------------------------------------
Judged(v, verdict) == verifier[v].at = "done" /\ verifier[v].verdict = verdict

\* A token is accepted only if the key that signed it was the provider's less than the
\* lifetime of the cache before the request came, however the threads' fetches overlap:
\* a withdrawn key is honoured no longer than that (verify).
AcceptedWasCurrent == \A v \in Verifiers :
    Judged(v, "accepted") =>
        LET t == verifier[v].token IN
        /\ lastSeen[t.key] >= 0 /\ lastSeen[t.key] + TTL > verifier[v].began
        /\ t.valid /\ t.subject /\ t.iss \in AllowedIssuers

\* A key the provider publishes is refused as unknown only while it is younger than the
\* cache: nothing clears the cache before, though the error says the next request will.
RefusalPasses == \A v \in Verifiers :
    Judged(v, "unknown key") =>
        LET k == verifier[v].token.kid IN
        k \in idp.keys => since[k] + TTL > verifier[v].began

\* What sign-on promises while the provider's keys change under it.
SignOnHolds == AcceptedWasCurrent /\ RefusalPasses
=============================================================================
