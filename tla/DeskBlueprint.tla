--------------------------- MODULE DeskBlueprint ---------------------------
(* What a desk is offered: the tools, agents and resources of its discipline *)
(* and vertical (aos/voundry/workspace_blueprint.py) and the tools of the    *)
(* first connect flow (onboarding_suite.py).  Pure tables and the functions  *)
(* over them; names, hints and checklists are left out.                      *)
EXTENDS Naturals, Sequences

Verticals == {"retail", "telecom", "fintech", "healthcare", "saas", "ecommerce", "media",
              "education", "manufacturing", "generic"}

\* Words a desk's role may be written with, after normalisation.
Aliases ==
    [ product |-> {"product", "pm"},
      engineering |-> {"engineering", "eng", "backend", "frontend", "fullstack", "dev"},
      design |-> {"design", "ux", "ui"},
      marketing |-> {"marketing", "growth"},
      sales |-> {"sales", "bizdev", "business_development"},
      operations |-> {"operations", "ops"},
      research |-> {"research", "market_research"},
      data |-> {"data", "analytics", "data_science"},
      finance |-> {"finance", "accounting"},
      legal |-> {"legal", "compliance", "governance"},
      support |-> {"support", "customer_success"},
      content |-> {"content", "copywriting"},
      it_ops |-> {"it_ops", "itops", "bss_ops", "bss", "noc", "sre", "incident",
                  "incident_management", "network_operations", "it_operations",
                  "service_desk", "l2_support"} ]

Disciplines == DOMAIN Aliases

DisciplineOf(word) ==
    IF \E d \in Disciplines : word \in Aliases[d]
    THEN CHOOSE d \in Disciplines : word \in Aliases[d]
    ELSE "product"

\* The order in which a market's description is searched for keywords.
VerticalOrder == <<"healthcare", "telecom", "fintech", "ecommerce", "retail", "education",
                   "manufacturing", "media", "saas">>

\* The vertical of a text that has keywords of the verticals in mentioned.
DeriveVertical(mentioned) ==
    LET hits == {i \in DOMAIN VerticalOrder : VerticalOrder[i] \in mentioned}
    IN  IF hits = {} THEN "generic"
        ELSE VerticalOrder[CHOOSE i \in hits : \A j \in hits : i <= j]

\* Tools by kind (one with an environment variable carries its name), agents, resources.
Kit(builtin, env, external, agents, resources) ==
    [builtin |-> builtin, env |-> env, external |-> external,
     agents |-> agents, resources |-> resources]

OpsAndGrowthKits ==
    [ it_ops |-> Kit({"monitoring"}, {<<"incident_queue", "REMEDY_BASE_URL">>,
                     <<"sql_console", "OPS_SQL_DSN">>, <<"knowledge_base", "OPS_KB_URL">>},
                     {}, {"incident_analyst", "rca_investigator", "change_risk_reviewer",
                     "report_generator"}, {"runbooks", "known_errors", "escalation"}),
      marketing |-> Kit({"content_engine", "analytics"}, {<<"social",
                        "LINKEDIN_ACCESS_TOKEN">>, <<"email", "RESEND_API_KEY">>}, {},
                        {"content_drafter", "audience_researcher", "campaign_analyst"},
                        {"messaging", "calendar", "channel_play"}),
      sales |-> Kit({"crm", "proposal", "call_notes"}, {<<"outreach",
                    "LINKEDIN_ACCESS_TOKEN">>}, {}, {"prospector", "outreach_writer",
                    "deal_coach"}, {"icp", "script", "objection"}) ]

MakerKits ==
    [ engineering |-> Kit({"issues", "api_console"}, {}, {"repo", "ci"}, {"code_reviewer",
                          "docs_writer", "test_helper"}, {"arch", "standards", "evidence"}),
      design |-> Kit({"design_system", "assets"}, {}, {"figma"}, {"ux_researcher",
                     "copy_helper"}, {"brand", "patterns", "handoff"}),
      product |-> Kit({"roadmap", "interviews", "spec", "analytics"}, {}, {},
                      {"spec_writer", "insight_synth"}, {"prd", "prioritise"}) ]

RunningKits ==
    [ operations |-> Kit({"processes", "vendors", "scheduler"}, {}, {}, {"process_writer",
                         "ops_analyst"}, {"sop", "runbook"}),
      research |-> Kit({"scraper", "library", "synthesis"}, {}, {}, {"web_researcher",
                       "synthesiser"}, {"brief", "citation"}),
      data |-> Kit({"query", "dashboard", "pipeline"}, {}, {}, {"query_helper",
                   "insight_finder"}, {"schema", "metrics"}) ]

BackOfficeKits ==
    [ finance |-> Kit({"ledger", "model"}, {<<"invoicing", "STRIPE_API_KEY">>}, {},
                      {"model_helper"}, {"model_tmpl", "unit_econ"}),
      legal |-> Kit({"templates", "ip_registry", "compliance"}, {}, {}, {"clause_helper"},
                    {"nda_tmpl", "compliance_ref"}),
      support |-> Kit({"tickets", "kb", "macros"}, {}, {}, {"reply_drafter", "kb_writer"},
                      {"tone", "escalate"}),
      content |-> Kit({"content_engine", "editorial", "assets"}, {}, {}, {"writer",
                      "editor"}, {"style", "brief_tmpl"}) ]

Overlays ==
    [ retail |-> [ marketing |-> Kit({"seasonal", "price_watch"}, {}, {"merchant_feed"}, {},
                                     {"retail_cal", "promo_play"}),
                   sales |-> Kit({}, {}, {}, {}, {"retail_buyers"}) ],
      telecom |-> [ marketing |-> Kit({"abm", "whitepaper", "reg_review"}, {}, {}, {},
                                      {"abm_play", "tech_content"}),
                    sales |-> Kit({}, {}, {}, {}, {"telco_procure"}),
                    engineering |-> Kit({}, {}, {}, {}, {"telco_stds"}),
                    it_ops |-> Kit({"bss_health", "alarm_feed"}, {}, {}, {}, {"bss_runbook"}) ],
      fintech |-> [ marketing |-> Kit({"compliance_copy"}, {}, {}, {}, {"fin_promo"}),
                    legal |-> Kit({}, {}, {}, {}, {"fin_reg"}),
                    engineering |-> Kit({}, {}, {}, {}, {"pci"}) ],
      healthcare |-> [ marketing |-> Kit({}, {}, {}, {}, {"hc_claims"}),
                       legal |-> Kit({}, {}, {}, {}, {"hipaa"}),
                       engineering |-> Kit({}, {}, {}, {}, {"phi"}) ],
      saas |-> [ marketing |-> Kit({"plg"}, {}, {}, {}, {"plg_play"}),
                 sales |-> Kit({}, {}, {}, {}, {"saas_metrics"}) ],
      ecommerce |-> [ marketing |-> Kit({"cro"}, {}, {"catalog"}, {}, {"cro_play"}) ],
      media |-> [ content |-> Kit({}, {}, {}, {}, {"distrib"}) ],
      education |-> [ product |-> Kit({}, {}, {}, {}, {"pedagogy"}) ],
      manufacturing |-> [ operations |-> Kit({"supply"}, {}, {}, {}, {"supply_play"}) ] ]

BaseKit(d) ==
    CASE d \in DOMAIN OpsAndGrowthKits -> OpsAndGrowthKits[d]
      [] d \in DOMAIN MakerKits -> MakerKits[d]
      [] d \in DOMAIN RunningKits -> RunningKits[d]
      [] d \in DOMAIN BackOfficeKits -> BackOfficeKits[d]

OverlayOf(d, v) ==
    IF v \in DOMAIN Overlays /\ d \in DOMAIN Overlays[v] THEN Overlays[v][d]
    ELSE Kit({}, {}, {}, {}, {})

Blueprint(d, v) ==
    LET base == BaseKit(d)  over == OverlayOf(d, v)
    IN  Kit(base.builtin \cup over.builtin, base.env \cup over.env,
            base.external \cup over.external, base.agents, base.resources \cup over.resources)

AgentCatalog ==
    [ it_ops |-> {"sql_assistant", "customer_response", "meeting_summarizer",
                  "policy_advisor", "log_analyzer"},
      marketing |-> {"seo_specialist", "ad_copywriter", "email_automator",
                     "brand_strategist", "community_manager"},
      sales |-> {"lead_enricher", "battlecard_maker", "proposal_writer",
                 "forecast_analyst"},
      engineering |-> {"security_reviewer", "perf_profiler", "devops_helper",
                       "refactor_assistant", "api_designer"},
      design |-> {"accessibility_checker", "illustration_briefer", "usability_tester"},
      product |-> {"competitor_teardown", "pricing_analyst", "story_writer"},
      operations |-> {"automation_scout", "vendor_evaluator", "sla_drafter"},
      research |-> {"survey_designer", "competitive_scan", "stat_reviewer"},
      data |-> {"viz_builder", "anomaly_watcher", "ab_test_designer"},
      finance |-> {"scenario_planner", "grant_finder", "burn_analyst"},
      legal |-> {"policy_drafter", "reg_scanner", "risk_flagger"},
      support |-> {"sentiment_analyst", "macro_optimiser", "faq_builder"},
      content |-> {"seo_editor", "repurposer", "fact_checker"} ]


\* An agent is looked up in the kit, then among those that can be requested.
FindAgent(d, a) == a \in BaseKit(d).agents \cup AgentCatalog[d]

\* The tools of a blueprint and what each shows when the variables in set are set.
Statuses(bp, set) ==
    {<<t, "connected">> : t \in bp.builtin}
        \cup {<<t[1], IF t[2] \in set THEN "connected" ELSE "needs_setup">> : t \in bp.env}
        \cup {<<t, "available">> : t \in bp.external}

-----------------------------------------------------------------------------
BasicTools == {"outlook_mail", "onedrive", "outlook_calendar", "servicenow", "zoom", "slack",
               "teams", "web_read"}

RoleTools ==
    [ it_ops |-> {"remedy", "servicenow", "sql_read", "webhook", "jira_sm", "sharepoint_kb"},
      support |-> {"servicenow", "remedy", "jira_sm", "sharepoint_kb", "confluence"},
      engineering |-> {"jira", "confluence", "sql_read", "http_json"},
      data |-> {"sql_read", "excel", "http_json", "confluence"},
      finance |-> {"excel", "sql_read", "sharepoint_kb"},
      sales |-> {"zoom", "outlook_calendar", "confluence"},
      marketing |-> {"web_read", "confluence", "excel"},
      product |-> {"jira", "confluence", "zoom"},
      operations |-> {"servicenow", "sql_read", "sharepoint_kb", "jira_sm"},
      research |-> {"web_read", "http_json", "confluence"},
      legal |-> {"sharepoint_kb", "confluence", "web_read"},
      design |-> {"confluence", "onedrive"},
      content |-> {"web_read", "confluence", "sharepoint_kb"} ]

\* The tiles of the connect flow; a key the catalog does not have is dropped without a word.
BasicTiles(catalog) == {"ai_assistant"} \cup (BasicTools \cap catalog)

SpecialTiles(role, catalog) ==
    IF role \in DOMAIN RoleTools
    THEN (RoleTools[role] \ (BasicTools \cup {"ai_assistant"})) \cap catalog
    ELSE {}
=============================================================================
