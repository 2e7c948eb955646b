----------------------------- MODULE LlmRouting -----------------------------
(* How a prompt finds a model: the tenant's key posture (byok.py), the agent *)
(* run that reads it (agent_runtime.py), and the gateway's resolution chain  *)
(* with the cooldown all workers of a node share through one file            *)
(* (gateway.py).                                                             *)
(*                                                                           *)
(* A call is one worker thread inside LLMGateway.complete.  Desk calls come  *)
(* from agent_runtime and read the posture first; scrapes come from          *)
(* smart_scraper and always use the platform's key.  A governor may change   *)
(* the posture between any two steps, and an account may be out of credit at *)
(* any attempt.                                                              *)
EXTENDS Naturals

CONSTANTS
    Desk,          \* calls made by agent runs
    Scrapes,       \* calls made by the scraper
    NoKey,         \* no API key
    Cooldown,      \* length of the cooldown, in ticks
    MaxTime        \* bound on the clock

Tenant == "tenant"
Platform == "platform"
Accounts == {Tenant, Platform}
Keys == Accounts \cup {NoKey}
Calls == Desk \cup Scrapes

ASSUME RoutingAssumption ==
    /\ Desk \cap Scrapes = {}
    /\ NoKey \notin Accounts
    /\ Cooldown \in Nat /\ MaxTime \in Nat \ {0}

VARIABLES
    env,        \* what the operator configured, read on every call
    kv,         \* the posture row: the sealed key and the fallback knob
    clock,      \* wall-clock time
    deadline,   \* the content of the shared cooldown file; 0 when absent
    pc,         \* where each call is
    call,       \* what each call carries
    loose,      \* history: calls during whose posture reading the platform was allowed
    marked      \* history: the time of the last cooldown mark, 0 for none

vars == <<env, kv, clock, deadline, pc, call, loose, marked>>

Settings == [key : {Platform, NoKey}, force : BOOLEAN, infusion : BOOLEAN]
Posture == [sealed : {Tenant, NoKey}, fallback : BOOLEAN]
Unset == [sealed |-> NoKey, fallback |-> TRUE]

Answers == {"none", "sdk", "httpx", "claude_cli", "infusion",
            "unavailable", "blocked", "byok_required"}
Steps == {"idle", "key", "nokey", "withkey", "guard", "gate",
          "sdk", "sdkmark", "httpx", "httpxmark", "cli", "done"}

\* key is complete()'s api_key_override until the gateway resolves it, bridge
\* its allow_bridge_fallback, until the deadline about to be written, fault
\* whether the posture could not be read.
Frame == [key : Keys, bridge : BOOLEAN, until : 0..(MaxTime + Cooldown),
          fault : BOOLEAN, via : Answers]
Fresh == [key |-> NoKey, bridge |-> TRUE, until |-> 0, fault |-> FALSE, via |-> "none"]

\* "key set + fallback OFF" and "no key + fallback OFF": the platform is barred.
Barred == ~kv.fallback

Init ==
    /\ env \in Settings
    /\ kv = Unset
    /\ clock = 1
    /\ deadline = 0
    /\ pc = [c \in Calls |-> "idle"]
    /\ call = [c \in Calls |-> Fresh]
    /\ loose = {}
    /\ marked = 0

Go(c, step) == pc' = [pc EXCEPT ![c] = step]

Finish(c, via) ==
    /\ Go(c, "done")
    /\ call' = [call EXCEPT ![c].via = via]

-----------------------------------------------------------------------------
(* The posture.  Calls still reading it see the platform allowed from here on. *)

Reading == {c \in Desk : pc[c] \in {"key", "nokey", "withkey"}}

Witnessed(p) == loose' = IF p.fallback THEN loose \cup Reading ELSE loose

\* The route admits any principal; set_llm_key saves key and knob in one row.
SetKey(fallback) ==
    LET p == [sealed |-> Tenant, fallback |-> fallback] IN
    /\ kv # p
    /\ kv' = p
    /\ Witnessed(p)
    /\ UNCHANGED <<env, clock, deadline, pc, call, marked>>

\* clear_llm_key saves an empty row: the knob returns to its default as well.
ClearKey ==
    /\ kv # Unset
    /\ kv' = Unset
    /\ Witnessed(Unset)
    /\ UNCHANGED <<env, clock, deadline, pc, call, marked>>

-----------------------------------------------------------------------------
(* An agent run: _default_generate reads the key, then the knob.              *)

Ask(c) ==
    /\ c \in Desk
    /\ pc[c] = "idle"
    /\ Go(c, "key")
    /\ call' = [call EXCEPT ![c] = Fresh]
    /\ loose' = IF Barred THEN loose \ {c} ELSE loose \cup {c}
    /\ UNCHANGED <<env, kv, clock, deadline, marked>>

\* tenant_api_key returns None for an unset key and for one the vault cannot open.
ReadKey(c) ==
    /\ pc[c] = "key"
    /\ \E key \in {kv.sealed, NoKey} :
        /\ call' = [call EXCEPT ![c].key = key]
        /\ Go(c, IF key = NoKey THEN "nokey" ELSE "withkey")
    /\ UNCHANGED <<env, kv, clock, deadline, loose, marked>>

\* Without a key: the platform if the knob allows it, else no model at all.
RequireKey(c) ==
    /\ pc[c] = "nokey"
    /\ \/ /\ kv.fallback
          /\ Go(c, "guard")
          /\ UNCHANGED call
       \/ /\ Barred
          /\ Finish(c, "byok_required")
    /\ UNCHANGED <<env, kv, clock, deadline, loose, marked>>

\* Mutant: the bridge is offered whatever the knob says.
ReadKnobIgnored(c) ==
    /\ pc[c] = "withkey"
    /\ Go(c, "guard")
    /\ UNCHANGED <<env, kv, clock, deadline, call, loose, marked>>

\* With a key: the knob decides whether the bridge may stand in for it.
ReadKnob(c) ==
    /\ pc[c] = "withkey"
    /\ call' = [call EXCEPT ![c].bridge = kv.fallback]
    /\ Go(c, "guard")
    /\ UNCHANGED <<env, kv, clock, deadline, loose, marked>>

\* Either read may raise: the run then takes the platform's defaults.
PostureUnavailable(c) ==
    /\ pc[c] \in {"key", "nokey", "withkey"}
    /\ call' = [call EXCEPT ![c].key = NoKey, ![c].bridge = TRUE, ![c].fault = TRUE]
    /\ Go(c, "guard")
    /\ UNCHANGED <<env, kv, clock, deadline, loose, marked>>

Scrape(c) ==
    /\ c \in Scrapes
    /\ pc[c] = "idle"
    /\ Go(c, "guard")
    /\ call' = [call EXCEPT ![c] = Fresh]
    /\ UNCHANGED <<env, kv, clock, deadline, loose, marked>>

-----------------------------------------------------------------------------
(* LLMGateway.complete                                                        *)

\* SAIb may block the prompt; otherwise infusion takes the call whole, or the
\* key is resolved and the chain begins.
Guard(c) ==
    /\ pc[c] = "guard"
    /\ \/ Finish(c, "blocked")
       \/ /\ env.infusion
          /\ Finish(c, "infusion")
       \/ /\ ~env.infusion
          /\ Go(c, "gate")
          /\ call' = [call EXCEPT ![c].key = IF @ = NoKey THEN env.key ELSE @]
    /\ UNCHANGED <<env, kv, clock, deadline, loose, marked>>

InCooldown == clock < deadline

Gate(c) ==
    /\ pc[c] = "gate"
    /\ Go(c, IF call[c].key # NoKey /\ ~env.force /\ ~InCooldown THEN "sdk" ELSE "cli")
    /\ UNCHANGED <<env, kv, clock, deadline, call, loose, marked>>

\* What the API answers: it serves, says the account has no credit in words the
\* gateway looks for, throttles, or fails otherwise.
Refusals == {"uncredited", "limited", "error"}

\* Mutant: a refusal that trips nothing starts the chain over.
AttemptRetrying(c, via, trips, mark, next) ==
    /\ pc[c] = via
    /\ \/ Finish(c, via)
       \/ \E o \in Refusals \cap trips :
            /\ Go(c, mark)
            /\ call' = [call EXCEPT ![c].until = clock + Cooldown]
       \/ \E o \in Refusals \ trips :
            /\ Go(c, "gate")
            /\ UNCHANGED call
    /\ UNCHANGED <<env, kv, clock, deadline, loose, marked>>

\* An attempt through one adapter.  A refusal that trips the cooldown computes
\* the deadline and goes on to write it; any other fails over at once.
Attempt(c, via, trips, mark, next) ==
    /\ pc[c] = via
    /\ \/ Finish(c, via)
       \/ \E o \in Refusals \cap trips :
            /\ Go(c, mark)
            /\ call' = [call EXCEPT ![c].until = clock + Cooldown]
       \/ \E o \in Refusals \ trips :
            /\ Go(c, next)
            /\ UNCHANGED call
    /\ UNCHANGED <<env, kv, clock, deadline, loose, marked>>

\* The SDK's errors trip it by their text only; httpx also by 402 and 429.
TrySdk(c) == Attempt(c, "sdk", {"uncredited"}, "sdkmark", "httpx")
TryHttpx(c) == Attempt(c, "httpx", {"uncredited", "limited"}, "httpxmark", "cli")

\* The deadline was computed in the step before; os.replace publishes it, and
\* a file that cannot be written is only logged.
Mark(c, at, next) ==
    /\ pc[c] = at
    /\ \/ /\ deadline' = call[c].until
          /\ marked' = clock
       \/ UNCHANGED <<deadline, marked>>
    /\ Go(c, next)
    /\ call' = [call EXCEPT ![c].until = 0]
    /\ UNCHANGED <<env, kv, clock, loose>>

MarkUncredited(c) == Mark(c, "sdkmark", "httpx") \/ Mark(c, "httpxmark", "cli")

TryCli(c) ==
    /\ pc[c] = "cli"
    /\ \/ /\ call[c].bridge
          /\ Finish(c, "claude_cli")
       \/ Finish(c, "unavailable")
    /\ UNCHANGED <<env, kv, clock, deadline, loose, marked>>

Return(c) ==
    /\ pc[c] = "done"
    /\ Go(c, "idle")
    /\ call' = [call EXCEPT ![c] = Fresh]
    /\ loose' = loose \ {c}
    /\ UNCHANGED <<env, kv, clock, deadline, marked>>

-----------------------------------------------------------------------------
(* The world                                                                  *)

\* Ops clears the file, or the container restarts without it.
ResetCooldown ==
    /\ deadline > 0
    /\ deadline' = 0
    /\ UNCHANGED <<env, kv, clock, pc, call, loose, marked>>

Tick ==
    /\ clock < MaxTime
    /\ clock' = clock + 1
    /\ UNCHANGED <<env, kv, deadline, pc, call, loose, marked>>

Complete(c) ==
    Guard(c) \/ Gate(c) \/ TrySdk(c) \/ TryHttpx(c) \/ MarkUncredited(c) \/ TryCli(c)

Step(c) ==
    \/ ReadKey(c) \/ RequireKey(c) \/ ReadKnob(c) \/ PostureUnavailable(c)
    \/ Complete(c)

Next ==
    \/ \E c \in Calls : Ask(c) \/ Scrape(c) \/ Step(c) \/ Return(c)
    \/ \E fallback \in BOOLEAN : SetKey(fallback)
    \/ ClearKey
    \/ ResetCooldown
    \/ Tick

Spec == Init /\ [][Next]_vars

\* A worker runs on, and the API, the subprocess and the database all time out.
FairSpec == Spec /\ \A c \in Calls : WF_vars(Step(c))

-----------------------------------------------------------------------------
(* Properties                                                                 *)

\* Every variable keeps its type.
TypeOK ==
    /\ env \in Settings
    /\ kv \in Posture
    /\ clock \in 1..MaxTime
    /\ deadline \in 0..(MaxTime + Cooldown)
    /\ pc \in [Calls -> Steps]
    /\ call \in [Calls -> Frame]
    /\ loose \in SUBSET Desk
    /\ marked \in 0..MaxTime

\* The call's prompt went, or is going, to something the platform pays for.
OnPlatform(c) ==
    \/ call[c].via \in {"claude_cli", "infusion"}
    \/ call[c].key = Platform /\ pc[c] \in {"sdk", "sdkmark", "httpx", "httpxmark"}

\* byok.py's isolation knob, whatever the governor does while a run is reading
\* the posture: a run that never saw the platform allowed never reaches it,
\* unless the posture could not be read or infusion took the call.
BarredStaysBarred ==
    \A c \in Desk : OnPlatform(c) => c \in loose \/ call[c].fault \/ env.infusion

\* What byok.py says of the knob, without the two exceptions: with fallback OFF
\* a failure surfaces, and the platform is never used.
TenantKeyOnly ==
    \A c \in Desk : OnPlatform(c) => c \in loose

\* However marks race, the shared file never keeps the API off for longer than
\* one cooldown after the last failure that was written to it.
CooldownIsBounded ==
    deadline > 0 => deadline <= marked + Cooldown /\ marked <= clock

\* What the routing keeps up while the posture changes and the API fails: the
\* isolation knob, and a shared cooldown that runs out.
RoutingHolds == TypeOK /\ BarredStaysBarred /\ CooldownIsBounded

\* Every call that starts is answered, if only with a refusal.
EveryCallEnds ==
    \A c \in Calls : pc[c] # "idle" ~> pc[c] = "done"
=============================================================================
