----------------------------- MODULE Compliance -----------------------------
(* What an auditor is handed (core/audit, aos/voundry/audit_export.py): the  *)
(* signed export of the audit records, read page by page while records are   *)
(* added; the signed bundle and the key it is signed with; the readiness     *)
(* manifest, which reads the settings of sign-on among others.               *)
EXTENDS SignOn, SequencesExt

CONSTANTS
    Builders,     \* threads that build a bundle
    RecordTimes,  \* when a record may be created
    PageSize,     \* records read at a time: 500
    MaxRecords,   \* bound on the records
    Installed     \* the optional packages that can be imported

Packages == {"sal", "sal_auto", "governance_customer"}

ASSUME ComplianceAssumption ==
    /\ RecordTimes \subseteq Int /\ PageSize \in Nat \ {0} /\ MaxRecords \in Nat
    /\ Installed \subseteq Packages

VARIABLES
    created,      \* by source, the creation times in the order of creation
    export,       \* the export being made
    keyRow,       \* the stored signing key, Void for none
    builder,      \* what each thread is doing and the key it has
    minted,       \* keys generated
    bundles,      \* bundles handed out
    manifest      \* the settings a manifest was made from, and its signals

exportVars == <<created, export>>
bundleVars == <<keyRow, builder, minted, bundles>>
complianceVars == <<exportVars, bundleVars, manifest>>

-----------------------------------------------------------------------------
(* export_audit.                                                             *)

\* _default_sources: a repository that cannot be imported is left out.
Sources == <<"aa_apply", "sal_autonomy">>
Unstarted == [at |-> "out", since |-> 0, until |-> 0, types |-> <<>>, asked |-> {}, offset |-> 0,
              next |-> 0, last |-> 0, full |-> FALSE, body |-> <<>>,
              before |-> [s \in ToSet(Sources) |-> 0]]

\* The sources that are there and asked for, in their order.
SubLists == {<<>>, <<Sources[1]>>, <<Sources[2]>>, Sources}

StartExport ==
    /\ export.at = "out"
    /\ \E from, to \in RecordTimes, types \in SubLists, secret \in {0, 31, 32} :
        export' = [Unstarted EXCEPT !.at = IF secret < 32 THEN "refused" ELSE "paging",
                     !.since = from, !.until = to, !.types = types, !.asked = ToSet(types),
                     !.before = [s \in ToSet(Sources) |-> Len(created[s])]]
    /\ UNCHANGED created

Source == Head(export.types)
EndSource == [export EXCEPT !.at = "paging", !.types = Tail(export.types), !.offset = 0]

\* list(limit, offset) is newest first, and a record is known by its number: a page is the
\* numbers from next down to last + 1.  An empty one ends the source.
ReadPage ==
    /\ export.at = "paging" /\ export.types # <<>>
    /\ LET next == Len(created[Source]) - export.offset
       IN  export' = IF next <= 0 THEN EndSource
                     ELSE [export EXCEPT !.at = "lines", !.next = next,
                             !.last = IF next < PageSize THEN 0 ELSE next - PageSize,
                             !.full = next >= PageSize]
    /\ UNCHANGED created

\* A record from before the window ends the source, one from after it is passed over.
ReadLine ==
    /\ export.at = "lines" /\ export.next > export.last
    /\ LET time == created[Source][export.next]
           line == [type |-> Source, n |-> export.next]
       IN  export' = IF time < export.since THEN EndSource
                     ELSE [export EXCEPT !.next = @ - 1,
                             !.body = IF time > export.until THEN @ ELSE Append(@, line)]
    /\ UNCHANGED created

\* A page that is not full is the last one.
EndPage ==
    /\ export.at = "lines" /\ export.next = export.last
    /\ export' = IF export.full THEN [export EXCEPT !.at = "paging", !.offset = @ + PageSize] ELSE EndSource
    /\ UNCHANGED created

SignExport ==
    /\ export.at = "paging" /\ export.types = <<>>
    /\ export' = [export EXCEPT !.at = "signed"]
    /\ UNCHANGED created

\* The product goes on while it is audited.
AddRecord(s) ==
    /\ export.at \in {"out", "paging", "lines"}
    /\ SumFunction([t \in DOMAIN created |-> Len(created[t])]) < MaxRecords
    /\ \E t \in RecordTimes :
        /\ \A i \in DOMAIN created[s] : created[s][i] <= t
        /\ created' = [created EXCEPT ![s] = Append(@, t)]
    /\ UNCHANGED export

ExportNext ==
    \/ StartExport \/ ReadPage \/ ReadLine \/ EndPage \/ SignExport
    \/ \E s \in ToSet(Sources) : AddRecord(s)

-----------------------------------------------------------------------------
(* build_bundle.                                                             *)

Unbuilding == [at |-> "out", key |-> 0, raced |-> FALSE]
OthersSave(b) == \E o \in Builders \ {b} : builder[o].at = "save"
BuilderIs(b, r) == builder' = [builder EXCEPT ![b] = r]

\* _load_key: the stored key, or a new one ...
LoadKey(b) ==
    /\ builder[b].at = "out" /\ minted < 3
    /\ \/ /\ keyRow # 0
          /\ BuilderIs(b, [at |-> "sign", key |-> keyRow, raced |-> OthersSave(b)])
          /\ UNCHANGED minted
       \/ /\ keyRow = 0
          /\ minted' = minted + 1
          /\ BuilderIs(b, [Unbuilding EXCEPT !.at = "save", !.key = minted + 1])
    /\ UNCHANGED <<keyRow, bundles>>

\* ... which is saved over whatever is there by now.
SaveKey(b) ==
    /\ builder[b].at = "save"
    /\ keyRow' = builder[b].key
    /\ BuilderIs(b, [builder[b] EXCEPT !.at = "sign",
                       !.raced = keyRow # 0 \/ OthersSave(b)])
    /\ UNCHANGED <<minted, bundles>>

SignBundle(b) ==
    /\ builder[b].at = "sign" /\ Cardinality(bundles) < 4
    /\ bundles' = bundles \cup {[key |-> builder[b].key, raced |-> builder[b].raced]}
    /\ BuilderIs(b, Unbuilding)
    /\ UNCHANGED <<keyRow, minted>>

BundleNext == \E b \in Builders : LoadKey(b) \/ SaveKey(b) \/ SignBundle(b)

\* The files' digests are signed; the key to verify with is in the manifest, like the rest
\* of what it says.
Built == [files |-> "f", digests |-> "f", by |-> "k", over |-> "f", public |-> "k", counts |-> "f"]
VerifyBundle(b) == b.files = b.digests /\ b.public = b.by /\ b.over = b.digests

-----------------------------------------------------------------------------
(* readiness_dict.                                                           *)

\* The tables that hold what is governed, by how they are kept apart.
TenantScoped ==
    {"gov_api_keys", "gov_decisions", "gov_policies", "gov_queue_items", "gov_webhooks",
     "gov_admin_events", "dag_audit_log", "marketplace_creators", "marketplace_listings",
     "marketplace_deployments", "marketplace_earnings", "marketplace_subscriptions"}
Global == {"operators", "aa_audit_records", "aa_kill_switch_records", "sal_autonomy_audit_records"}
ReviewRequired == {}

Manifests == [jwt : {0, 31, 32}, sso : BOOLEAN, domains : BOOLEAN, hmac : {0, 31, 32},
              strict : BOOLEAN, sal : BOOLEAN, gate : BOOLEAN, enforce : BOOLEAN]
Secret(length) == IF length < 32 THEN "red" ELSE "green"
WithPackage(p, signal) == IF p \in Installed THEN signal ELSE "red"
GreenIf(b) == IF b THEN "green" ELSE "yellow"

Signals(m) ==
    [jwt_secret |-> Secret(m.jwt),
     sso_enabled |-> IF m.sso THEN GreenIf(m.domains) ELSE "red",
     audit_export_hmac |-> Secret(m.hmac),
     governance_profile |-> GreenIf(m.strict),
     sal_ve_gate |-> WithPackage("sal", GreenIf(m.sal)),
     aa_proposal_gate |-> WithPackage("sal_auto", GreenIf(m.gate /\ m.enforce)),
     tenant_isolation |-> IF ReviewRequired = {} THEN "green" ELSE "red",
     egl_tiers |-> WithPackage("governance_customer", "green")]

Overall(signals) ==
    LET seen == {signals[s] : s \in DOMAIN signals} IN
    IF "red" \in seen THEN "red" ELSE IF "yellow" \in seen THEN "yellow" ELSE "green"

NoManifest == [overall |-> "none"]
Report ==
    /\ manifest = NoManifest
    /\ \E m \in Manifests :
        manifest' = [overall |-> Overall(Signals(m)), of |-> m, signals |-> Signals(m)]

-----------------------------------------------------------------------------
ComplianceInit ==
    /\ created = [s \in ToSet(Sources) |-> <<>>] /\ export = Unstarted
    /\ keyRow = 0 /\ minted = 0 /\ bundles = {}
    /\ builder = [b \in Builders |-> Unbuilding]
    /\ manifest = NoManifest

ComplianceNext ==
    \/ ExportNext /\ UNCHANGED <<bundleVars, manifest>>
    \/ BundleNext /\ UNCHANGED <<exportVars, manifest>>
    \/ Report /\ UNCHANGED <<exportVars, bundleVars>>

ComplianceSpec == ComplianceInit /\ [][ComplianceNext]_complianceVars

-----------------------------------------------------------------------------
\* Which sources were there when the export began cannot be told from its body, but of those
\* it read it has every record of the window that existed then, and they come newest first
\* and once each unless records were added between two pages (iter_records).
LinesOf(s) == {i \in DOMAIN export.body : export.body[i].type = s}
Grew(s) == Len(created[s]) > export.before[s]
InWindow(s, n) == created[s][n] \in export.since..export.until
ExportIsWhole == export.at = "signed" => \A s \in export.asked :
    /\ \A n \in 1..export.before[s] : InWindow(s, n) => \E i \in LinesOf(s) : export.body[i].n = n
    /\ Grew(s) \/ \A i, j \in LinesOf(s) : i < j => export.body[i].n > export.body[j].n
    /\ \A i \in LinesOf(s) : InWindow(s, export.body[i].n)

\* A bundle signed with a key other than the stored one took its key while another thread
\* was making the first one: afterwards there is one key for good (_load_key).
OneKey == \A b \in bundles : b.key = keyRow \/ b.raced

\* A change of one part of a bundle is found if the part is a file, a digest, or the
\* signature's; what else the manifest says is not covered (verify_bundle).
AlterationIsFound ==
    VerifyBundle(Built) /\ \A f \in DOMAIN Built : VerifyBundle([Built EXCEPT ![f] = "altered"]) <=> f = "counts"

\* The manifest is never green without sign-on, both secrets and every optional package:
\* while one package cannot be imported no setting makes it better than red.
GreenIsEarned ==
    manifest # NoManifest =>
        /\ manifest.overall = "green" =>
             /\ manifest.of.sso /\ manifest.of.domains /\ manifest.of.strict
             /\ {manifest.of.jwt, manifest.of.hmac} = {32}
        /\ Installed # Packages => manifest.overall = "red"

\* Sign-on, and what the auditor is handed.
EvidenceHolds == SignOnHolds /\ ExportIsWhole /\ OneKey /\ AlterationIsFound /\ GreenIsEarned
=============================================================================
