--------------------------- MODULE ConnectedTools ---------------------------
(* The tools of a desk and what the organisation says about them             *)
(* (connectors.py): connecting a tool, its OAuth consent, its use and its    *)
(* disconnection, the organisation's policy and its list of shared tools.    *)
(*                                                                           *)
(* A request is one handler: it reads, works on its copy and saves the whole *)
(* row, and a merge of a row that is not there inserts it.  Writes through a *)
(* tool and the kill switch are WriteBack's subject; here a tool is only read *)
(* from.  A key stands for the kind of connector a request names.            *)
EXTENDS Naturals, SequencesExt

CONSTANTS
    Requests,      \* handlers in progress
    Tools,         \* identifiers of connected-tool rows
    PlainKeys,     \* connectors that work at once
    OAuthKeys,     \* connectors that need the provider's consent
    OrgIds,        \* keys of shared tools
    BlockLists,    \* the lists of blocked connectors an administrator may set
    MaxOrgTools,   \* length at which the list of shared tools is cut
    Gone           \* no row

Keys == PlainKeys \cup OAuthKeys \cup OrgIds

ASSUME ToolsAssumption ==
    /\ PlainKeys \cap OAuthKeys = {} /\ OrgIds \cap (PlainKeys \cup OAuthKeys) = {}
    /\ BlockLists \subseteq SUBSET Keys
    /\ MaxOrgTools \in Nat
    /\ Gone \notin Tools

VARIABLES
    connected,   \* the rows of connected tools
    policy,      \* the organisation's policy row
    shared,      \* the organisation's list of shared tools
    minted,      \* identifiers given out
    handler,     \* what each request holds
    trail,       \* the receipts: what was done to which tool
    removed,     \* history: tools that were disconnected
    overtaken,   \* history: of them, those with a consent in flight
    asked,       \* history: what the administrators' saved patches add up to
    smuggled,    \* history: tools whose connect began after their key was blocked
    listed,      \* history: shared tools added and not removed
    cut,         \* history: shared tools that were added to a full list
    stale,       \* history: requests whose copy of policy or list is out of date
    mixed,       \* history: which of "policy" and "list" was saved from such a copy
    failed       \* history: tools on which a request stopped half-way

toolVars == <<connected, policy, shared, minted, handler, trail, removed,
              overtaken, asked, smuggled, listed, cut, stale, mixed, failed>>
rowHistory == <<removed, overtaken>>
orgHistory == <<asked, listed, cut, stale, mixed>>

\* provider: a consent can complete this row; token: it holds an access token.
Row == [key : Keys, auth : {"pending", "connected"}, provider : BOOLEAN, token : BOOLEAN]

ASSUME GoneAssumption == Gone \notin Row

\* A patch names what it changes; the rest stays as the handler read it.
Policy == [approval : BOOLEAN, blocked : SUBSET Keys]
Defaults == [approval |-> FALSE, blocked |-> {}]
Patches == [approval : BOOLEAN] \cup [blocked : BlockLists]
           \cup [approval : BOOLEAN, blocked : BlockLists]
Over(patch, old) ==
    [approval |-> IF "approval" \in DOMAIN patch THEN patch.approval ELSE old.approval,
     blocked |-> IF "blocked" \in DOMAIN patch THEN patch.blocked ELSE old.blocked]

Events == {"connected", "oauth_completed", "disconnected", "invoked"}

\* One record for every handler: the row, policy or list it will save or use.
Idle == [at |-> "free", event |-> "none", tool |-> Gone, row |-> Gone,
         patch |-> <<>>, policy |-> Defaults, list |-> <<>>, org |-> Gone]

Carry(q, h) == handler' = [handler EXCEPT ![q] = h]
Free(q) == Carry(q, Idle)

ToolsInit ==
    /\ connected = [t \in Tools |-> Gone]
    /\ policy = Defaults
    /\ shared = <<>>
    /\ minted = {}
    /\ handler = [q \in Requests |-> Idle]
    /\ trail = {}
    /\ removed = {} /\ overtaken = {}
    /\ asked = Defaults
    /\ smuggled = {} /\ listed = {} /\ cut = {}
    /\ stale = {} /\ mixed = {}
    /\ failed = {}

-----------------------------------------------------------------------------
(* connect: the policy, the shared list for an org key, the row, the receipt. *)

\* The row a connect builds.  An OAuth connector served by a bridge is stored
\* as connected, without a provider.
FreshRows(k) ==
    {[key |-> k, auth |-> IF consent THEN "pending" ELSE "connected",
      provider |-> consent, token |-> FALSE] :
        consent \in IF k \in OAuthKeys THEN BOOLEAN ELSE {FALSE}}

BeginConnect(q, t, k) ==
    /\ minted' = minted \cup {t}
    /\ \E row \in FreshRows(k) :
        Carry(q, [Idle EXCEPT !.at = IF k \in OrgIds THEN "lookup" ELSE "save",
                              !.event = "connected", !.tool = t, !.row = row])
    /\ smuggled' = IF k \in asked.blocked THEN smuggled \cup {t} ELSE smuggled
    /\ UNCHANGED <<connected, policy, shared, trail, rowHistory, orgHistory, failed>>

Connect(q, t, k) ==
    /\ handler[q] = Idle /\ t \notin minted
    /\ k \notin policy.blocked
    /\ BeginConnect(q, t, k)

LookUpOrgTool(q) ==
    /\ handler[q].at = "lookup"
    /\ IF Contains(shared, handler[q].row.key)
       THEN Carry(q, [handler[q] EXCEPT !.at = "save"])
       ELSE Free(q)
    /\ UNCHANGED <<connected, policy, shared, minted, trail, rowHistory,
                   orgHistory, smuggled, failed>>

SaveTool(q) ==
    /\ handler[q].at = "save"
    /\ connected' = [connected EXCEPT ![handler[q].tool] = handler[q].row]
    /\ Carry(q, [handler[q] EXCEPT !.at = "receipt", !.row = Gone])
    /\ UNCHANGED <<policy, shared, minted, trail, rowHistory, orgHistory, smuggled, failed>>

Receipt(q) ==
    /\ handler[q].at = "receipt"
    /\ trail' = trail \cup {<<handler[q].event, handler[q].tool>>}
    /\ Free(q)
    /\ UNCHANGED <<connected, policy, shared, minted, rowHistory, orgHistory, smuggled, failed>>

-----------------------------------------------------------------------------
(* complete_oauth: read the row, exchange the code, save the row read.        *)

\* Mutant: a row that is gone is made again.
CompleteAnew(q, t) ==
    /\ handler[q] = Idle
    /\ connected[t] = Gone => t \in removed
    /\ connected[t] # Gone => connected[t].provider
    /\ \E row \in IF connected[t] = Gone THEN UNION {FreshRows(k) : k \in OAuthKeys}
                                         ELSE {connected[t]} :
        Carry(q, [Idle EXCEPT !.at = "exchange", !.event = "oauth_completed",
                              !.tool = t, !.row = row])
    /\ UNCHANGED <<connected, policy, shared, minted, trail, rowHistory,
                   orgHistory, smuggled, failed>>

CompleteOAuth(q, t) ==
    /\ handler[q] = Idle
    /\ connected[t] # Gone /\ connected[t].provider
    /\ Carry(q, [Idle EXCEPT !.at = "exchange", !.event = "oauth_completed",
                             !.tool = t, !.row = connected[t]])
    /\ UNCHANGED <<connected, policy, shared, minted, trail, rowHistory,
                   orgHistory, smuggled, failed>>

\* The provider refuses, or answers with or without an access token.
Exchange(q) ==
    /\ handler[q].at = "exchange"
    /\ \/ Free(q)
       \/ \E got \in BOOLEAN :
            Carry(q, [handler[q] EXCEPT !.at = "save", !.row.auth = "connected",
                                        !.row.token = got])
    /\ UNCHANGED <<connected, policy, shared, minted, trail, rowHistory,
                   orgHistory, smuggled, failed>>

-----------------------------------------------------------------------------
(* disconnect, and a read through the tool.                                   *)

Disconnect(q, t) ==
    /\ handler[q] = Idle
    /\ connected[t] # Gone
    /\ Carry(q, [Idle EXCEPT !.at = "delete", !.event = "disconnected", !.tool = t])
    /\ UNCHANGED <<connected, policy, shared, minted, trail, rowHistory,
                   orgHistory, smuggled, failed>>

Consenting(t) ==
    \E q \in Requests : handler[q].tool = t /\ handler[q].event = "oauth_completed"
                        /\ handler[q].at \in {"exchange", "save"}

Delete(q) ==
    /\ handler[q].at = "delete"
    /\ LET t == handler[q].tool IN
        /\ connected' = [connected EXCEPT ![t] = Gone]
        /\ removed' = removed \cup {t}
        /\ overtaken' = IF Consenting(t) THEN overtaken \cup {t} ELSE overtaken
    /\ Carry(q, [handler[q] EXCEPT !.at = "receipt"])
    /\ UNCHANGED <<policy, shared, minted, trail, orgHistory, smuggled, failed>>

Invoke(q, t) ==
    /\ handler[q] = Idle
    /\ connected[t] # Gone
    /\ connected[t].key \in OAuthKeys => connected[t].auth = "connected" /\ connected[t].token
    /\ Carry(q, [Idle EXCEPT !.at = "run", !.event = "invoked", !.tool = t])
    /\ UNCHANGED <<connected, policy, shared, minted, trail, rowHistory,
                   orgHistory, smuggled, failed>>

\* The connector answers, or raises: then nothing is recorded.
Run(q) ==
    /\ handler[q].at = "run"
    /\ \/ Carry(q, [handler[q] EXCEPT !.at = "receipt"])
       \/ Free(q)
    /\ UNCHANGED <<connected, policy, shared, minted, trail, rowHistory,
                   orgHistory, smuggled, failed>>

-----------------------------------------------------------------------------
(* set_org_policy and the shared list: read, change the copy, save it whole.   *)

Overtake(q, stage, what) ==
    /\ stale' = (stale \ {q}) \cup {r \in Requests \ {q} : handler[r].at = stage}
    /\ mixed' = IF q \in stale THEN mixed \cup {what} ELSE mixed

\* Mutant: the patch is laid over the defaults.
SetPolicyAfresh(q, p) ==
    /\ handler[q] = Idle
    /\ Carry(q, [Idle EXCEPT !.at = "patch", !.patch = p, !.policy = Over(p, Defaults)])
    /\ UNCHANGED <<connected, policy, shared, minted, trail, rowHistory,
                   orgHistory, smuggled, failed>>

SetPolicy(q, p) ==
    /\ handler[q] = Idle
    /\ Carry(q, [Idle EXCEPT !.at = "patch", !.patch = p, !.policy = Over(p, policy)])
    /\ UNCHANGED <<connected, policy, shared, minted, trail, rowHistory,
                   orgHistory, smuggled, failed>>

SavePolicy(q) ==
    /\ handler[q].at = "patch"
    /\ policy' = handler[q].policy
    /\ asked' = Over(handler[q].patch, asked)
    /\ Overtake(q, "patch", "policy")
    /\ Free(q)
    /\ UNCHANGED <<connected, shared, minted, trail, rowHistory, smuggled, listed, cut, failed>>

\* The keys of shared tools are fresh, so one entry at most has the key.
Without(l, o) ==
    IF Contains(l, o) THEN RemoveAt(l, CHOOSE i \in DOMAIN l : l[i] = o) ELSE l

Kept(l) == IF Len(l) > MaxOrgTools THEN SubSeq(l, 1, MaxOrgTools) ELSE l

AddOrgTool(q, o) ==
    /\ handler[q] = Idle /\ o \notin minted
    /\ minted' = minted \cup {o}
    /\ Carry(q, [Idle EXCEPT !.at = "list", !.org = o, !.list = Append(shared, o)])
    /\ UNCHANGED <<connected, policy, shared, trail, rowHistory, orgHistory, smuggled, failed>>

RemoveOrgTool(q, o) ==
    /\ handler[q] = Idle /\ o \in minted
    /\ Carry(q, [Idle EXCEPT !.at = "list", !.org = o, !.list = Without(shared, o)])
    /\ UNCHANGED <<connected, policy, shared, minted, trail, rowHistory,
                   orgHistory, smuggled, failed>>

SaveList(q) ==
    /\ handler[q].at = "list"
    /\ LET o == handler[q].org  adds == Contains(handler[q].list, o)
       IN  /\ shared' = IF adds THEN Kept(handler[q].list) ELSE handler[q].list
           /\ listed' = IF adds THEN listed \cup {o} ELSE listed \ {o}
           /\ cut' = IF adds /\ Len(handler[q].list) > MaxOrgTools THEN cut \cup {o} ELSE cut
    /\ Overtake(q, "list", "list")
    /\ Free(q)
    /\ UNCHANGED <<connected, policy, minted, trail, rowHistory, asked, smuggled, failed>>

-----------------------------------------------------------------------------
\* The server stops, or a statement of the handler raises: what it was about
\* to save or to record is lost.
Abort(q) ==
    /\ handler[q] # Idle
    /\ failed' = failed \cup ({handler[q].tool} \ {Gone})
    /\ stale' = stale \ {q}
    /\ Free(q)
    /\ UNCHANGED <<connected, policy, shared, minted, trail, rowHistory,
                   asked, smuggled, listed, cut, mixed>>

OnTool(q) ==
    \E t \in Tools :
        \/ \E k \in Keys : Connect(q, t, k)
        \/ CompleteOAuth(q, t) \/ Disconnect(q, t) \/ Invoke(q, t)

OnOrganisation(q) ==
    \/ \E p \in Patches : SetPolicy(q, p)
    \/ \E o \in OrgIds : AddOrgTool(q, o) \/ RemoveOrgTool(q, o)

Continue(q) ==
    \/ LookUpOrgTool(q) \/ SaveTool(q) \/ Receipt(q) \/ Exchange(q)
    \/ Delete(q) \/ Run(q) \/ SavePolicy(q) \/ SaveList(q)

ToolsNext == \E q \in Requests : OnTool(q) \/ OnOrganisation(q) \/ Continue(q) \/ Abort(q)

ToolsSpec == ToolsInit /\ [][ToolsNext]_toolVars

-----------------------------------------------------------------------------
Stages == {"free", "lookup", "save", "exchange", "delete", "run", "receipt", "patch", "list"}

\* Every variable stays in its type.
ToolsTypeOK ==
    /\ connected \in [Tools -> Row \cup {Gone}]
    /\ policy \in Policy /\ asked \in Policy
    /\ shared \in Seq(OrgIds) /\ IsInjective(shared) /\ Len(shared) <= MaxOrgTools
    /\ minted \subseteq Tools \cup OrgIds
    /\ \A q \in Requests :
        LET h == handler[q] IN
        /\ h.at \in Stages /\ h.event \in Events \cup {"none"}
        /\ h.tool \in Tools \cup {Gone} /\ h.row \in Row \cup {Gone}
        /\ h.patch \in Patches \cup {<<>>} /\ h.policy \in Policy
        /\ h.list \in Seq(OrgIds) /\ h.org \in OrgIds \cup {Gone}
    /\ trail \subseteq Events \X Tools
    /\ removed \subseteq Tools /\ overtaken \subseteq removed /\ failed \subseteq Tools
    /\ smuggled \subseteq Tools /\ listed \subseteq OrgIds /\ cut \subseteq OrgIds
    /\ stale \subseteq Requests /\ mixed \subseteq {"policy", "list"}

\* A disconnected tool does not come back, with the contributor's token in it,
\* unless a consent was in flight when it was disconnected (complete_oauth).
GoneStaysGone ==
    \A t \in removed : connected[t] # Gone => t \in overtaken

\* The receipts tell the rows (save_connected_tool, then audit.append): when no
\* handler works on a tool and none stopped on it, it is there exactly if it
\* was connected and not disconnected, consented exactly if the trail says so.
TrailTellsRows ==
    \A t \in (minted \cap Tools) \ failed :
        (\A q \in Requests : handler[q].tool # t) =>
        /\ t \notin overtaken =>
            (connected[t] # Gone
                <=> <<"connected", t>> \in trail /\ <<"disconnected", t>> \notin trail)
        /\ connected[t] # Gone /\ connected[t].provider =>
            (connected[t].auth = "connected" <=> <<"oauth_completed", t>> \in trail)

\* The rows of connected tools are what the trail and the contributors made them.
RowsAreTold == ToolsTypeOK /\ GoneStaysGone /\ TrailTellsRows

\* A connector that administrators blocked is not connected by a request that
\* names it and begins after the block was saved, as long as no policy save was
\* overlapped by another (connect, set_org_policy).
BlockHolds == smuggled # {} => "policy" \in mixed

\* As long as no policy save was overlapped by another, the policy in force is
\* all the administrators asked for (set_org_policy patches what it read).
PatchesStick == "policy" \notin mixed => policy = asked

\* As long as no save of the list was overlapped by another, an added shared
\* tool is offered until it is removed, unless the list was full when it was
\* added, and no removed one is (add_org_tool, remove_org_tool).
AddedIsOffered ==
    "list" \notin mixed =>
        /\ {shared[i] : i \in DOMAIN shared} \subseteq listed
        /\ \A o \in listed \ cut : Contains(shared, o)

\* What administrators decided for the organisation stands: blocks, patches and
\* shared tools are lost to overlapping saves only.
PolicyStands == BlockHolds /\ PatchesStick /\ AddedIsOffered
=============================================================================
