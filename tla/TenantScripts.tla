--------------------------- MODULE TenantScripts ----------------------------
(* What fills, reads and empties a tenant: the seeds of the scenario and of the
   five acceptance tenants with the acceptance run over them, the older
   development seed, the bootstrap of a tenant's shell, the demo portfolio, the
   reload of a portfolio workbook, an administrator's cleanup of the portfolio,
   and the operator's deletion of the tenant.

   Each is a list of calls; every call is a transaction of its own, so it may
   stop between any two, and be run again.  Of a row only its table matters. *)
EXTENDS PortfolioWorkbook, Acceptance

CONSTANTS MaxDisturbances,    \* bound: stops, failures and rows people add, in all
          MaxRisks            \* bound: risks that seed_dev adds up

VARIABLES rows,               \* rows of the tenant, per table
          fixture,            \* which tenant this is
          running, pc,        \* the script that runs, its next call
          ended,              \* the script that ended last, and how
          found,              \* people whose accounts a deletion will delete
          disturbances
scriptVars == <<rows, fixture, running, pc, ended, found, disturbances>>

------------------------------------------------------------------------------
\* seed_enterprise_transformation_scenario

ensure_org == Key("organizations", 1)
ensure_admin_user == Person(1)

ResetTables ==
  <<"ai_copilot_actions", "tenant_dashboard_config", "shared_cost_allocation_audit_events",
    "shared_cost_allocation_exceptions", "shared_cost_allocations",
    "shared_cost_allocation_runs", "shared_cost_allocation_weights",
    "shared_cost_allocation_targets", "shared_cost_allocation_rules",
    "shared_cost_pool_periods", "shared_cost_pools", "shared_cost_reporting_settings",
    "meeting_artifacts", "meeting_external_events", "action_items",
    "meeting_session_attendees", "meeting_session_agenda_items", "meeting_sessions",
    "agenda_items", "meeting_initiatives", "meeting_attendees", "meeting_workstreams",
    "meetings", "initiative_dependencies", "initiative_value_realization_notes",
    "workstream_target_locks", "financial_forecasts",
    "financial_initiative_annual_baselines", "financial_tenant_annual_baselines",
    "financial_benefit_line_validation_events", "benefit_realization_ledger",
    "bankable_plans", "gate_submissions", "stage_gates", "financial_metric_values",
    "financial_cell_assumptions", "initiative_financial_selections",
    "initiative_financial_scope", "financial_benefit_lines", "financial_cost_lines",
    "financial_bridge_rows", "financial_attribute_definitions",
    "financial_cost_categories", "financial_metric_definitions", "financial_scenarios",
    "financial_config_items", "financial_config_groups", "initiative_business_units",
    "initiative_team", "milestone_dependencies", "milestone_checklist", "nudge_log",
    "status_updates", "kpi_entries", "kpis", "risks", "milestones", "initiatives",
    "gate_criteria", "stage_gate_definitions", "user_workstreams", "workstreams",
    "business_units">>

BadResetLeavesCriteria == Clear(SelectSeq(ResetTables, LAMBDA t : t # "gate_criteria"))
BadResetGatesFirst == Clear(<<"gate_submissions">> \o ResetTables)

delete_tenant_rows == Clear(ResetTables)

insert_business_units == Each("business_units", 5)
insert_workstreams == Each("workstreams", 5)
insert_stage_gates == All("stage_gate_definitions", 5)
insert_gate_criteria == All("gate_criteria", 10)
insert_financial_config == Each("financial_config_groups", 9) \o All("financial_config_items", 10)

insert_scenarios == Each("financial_scenarios", 4)
insert_metrics == Each("financial_metric_definitions", 10)
insert_cost_categories_and_bridge ==
  Each("financial_cost_categories", 8) \o All("financial_bridge_rows", 6)

insert_tenant_baselines == All("financial_tenant_annual_baselines", 2)

\* Per initiative its own row and what it is measured by; the financial rows of
\* all ten are collected and inserted at the end.
insert_initiative == All("initiatives", 1) \o All("initiative_business_units", 1)
insert_milestones == All("milestones", 3) \o All("milestone_checklist", 3)
insert_benefit_lines ==
  All("financial_benefit_lines", 30) \o All("financial_benefit_line_validation_events", 57)
insert_metric_values ==
  Times(4, All("financial_metric_values", 500)) \o All("financial_metric_values", 220)
insert_cost_lines == All("financial_cost_lines", 90)
insert_initiatives ==
  Times(10, insert_initiative \o insert_milestones)
    \o All("financial_initiative_annual_baselines", 20)
    \o insert_benefit_lines \o insert_metric_values \o insert_cost_lines

insert_initiative_financial_scope ==
  All("initiative_financial_selections", 180) \o All("initiative_financial_scope", 180)

insert_kpis == All("kpis", 20) \o All("kpi_entries", 240)
insert_initiative_controls ==
  insert_kpis \o All("risks", 20) \o All("status_updates", 20)

\* Four approved gates of every initiative, the plan locked by the second, and
\* one plan replaced through an approved rebaseline.
insert_approvals == All("gate_submissions", 40) \o Each("bankable_plans", 10)
insert_rebaseline == All("gate_submissions", 1) \o All("bankable_plans", 1)
insert_realization ==
  All("benefit_realization_ledger", 240) \o All("initiative_value_realization_notes", 3)
insert_bankable_plan_and_realization_demo ==
  insert_approvals \o insert_rebaseline \o insert_realization

insert_forecasts_and_workstream_targets ==
  All("financial_forecasts", 30) \o Each("workstream_target_locks", 5)

insert_shared_cost_pool(targets, weights) ==
  All("shared_cost_pools", 1) \o All("shared_cost_pool_periods", 1)
    \o All("shared_cost_allocation_rules", 1)
    \o All("shared_cost_allocation_targets", targets)
    \o (IF weights = 0 THEN <<>> ELSE All("shared_cost_allocation_weights", weights))
insert_shared_cost_run(targets) ==
  All("shared_cost_allocation_runs", 1) \o All("shared_cost_allocations", targets)
    \o All("shared_cost_allocation_audit_events", 1)
insert_shared_cost_demo ==
  Fill("shared_cost_reporting_settings", 1)
    \o insert_shared_cost_pool(5, 0) \o insert_shared_cost_run(5)
    \o insert_shared_cost_pool(10, 0) \o insert_shared_cost_run(10)
    \o insert_shared_cost_pool(4, 4) \o insert_shared_cost_run(4)
    \o insert_shared_cost_pool(3, 3) \o insert_shared_cost_run(3)

enable_all_defaults == Fill("tenant_dashboard_config", 10)
insert_initiative_dependencies == All("initiative_dependencies", 3)

\* One meeting with its past session: initiatives linked and agenda items.
insert_meeting(linked, agenda) ==
  All("meetings", 1) \o All("meeting_attendees", 1) \o All("meeting_initiatives", linked)
    \o All("agenda_items", agenda) \o All("meeting_sessions", 1)
    \o All("meeting_session_attendees", 1) \o All("meeting_session_agenda_items", agenda)
    \o All("action_items", 1)
insert_meeting_demo == insert_meeting(5, 3) \o insert_meeting(2, 2)

seed_enterprise_transformation_scenario ==
  ensure_org \o ensure_admin_user \o delete_tenant_rows \o insert_business_units
    \o insert_workstreams \o insert_stage_gates \o insert_gate_criteria
    \o insert_financial_config \o insert_scenarios \o insert_metrics
    \o insert_cost_categories_and_bridge \o insert_tenant_baselines
    \o insert_initiatives \o insert_initiative_financial_scope
    \o insert_initiative_controls \o insert_bankable_plan_and_realization_demo
    \o insert_forecasts_and_workstream_targets \o insert_shared_cost_demo
    \o enable_all_defaults \o insert_initiative_dependencies

------------------------------------------------------------------------------
\* seed_five_tenant_transformation_program, for one of the five

assert_profile_auth_emails_safe == Call("preflight", "organizations", 0)

ensure_user_workstream == Call("clear", "user_workstreams", 0) \o All("user_workstreams", 1)
seed_users ==
  FlattenSeq([n \in 1..9 |-> Person(n + 1)]) \o Times(2, ensure_user_workstream)

assign_operating_model ==
  Call("clear", "user_workstreams", 0) \o All("user_workstreams", 2)
    \o Call("clear", "initiative_team", 0) \o All("initiative_team", 30)

\* The counts a finished tenant must reach.
RequiredCounts ==
  [users |-> 10, milestones |-> 30, milestone_checklist |-> 30, kpis |-> 20,
   kpi_entries |-> 240, risks |-> 20, status_updates |-> 20,
   initiative_dependencies |-> 3, gate_submissions |-> 41,
   financial_benefit_lines |-> 30, financial_metric_values |-> 2220,
   financial_cost_lines |-> 90, financial_forecasts |-> 30, bankable_plans |-> 11,
   benefit_realization_ledger |-> 240, workstream_target_locks |-> 5,
   shared_cost_pools |-> 4, tenant_dashboard_config |-> 10]
EmptyForAcceptance == {"meetings", "meeting_sessions", "agenda_items", "action_items"}
assert_tenant_invariants == Call("assert", "organizations", 0)

seed_profile ==
  assert_profile_auth_emails_safe \o seed_enterprise_transformation_scenario
    \o seed_users \o assign_operating_model \o assert_tenant_invariants

------------------------------------------------------------------------------
\* seed_dev.  A person whose account fails is skipped, and the run stops for want
\* of an owner; here it stops at once.  The texts of two of the seven risks are
\* longer than the 50 characters they are looked up by: never found.
dev_person(n) ==
  Call("account", "auth_users", n) \o Call("once", "users", n)
    \o All("user_workstreams", IF n \in {1, 2, 7} THEN 0 ELSE 1)
dev_users == FlattenSeq([n \in 1..10 |-> dev_person(n)])
dev_risks == Key("risks", 5) \o Times(2, Call("lost", "risks", MaxRisks))
dev_kpis ==
  FlattenSeq([i \in 1..4 |-> Call("once", "kpis", i)
                               \o All("kpi_entries", IF i = 1 THEN 3 ELSE 2)])
dev_financials == Key("financial_entries", 5) \o Each("financial_cost_lines", 3)
dev_value_controls ==
  Key("initiative_dependencies", 3) \o Key("shared_cost_pools", 1)
    \o Key("shared_cost_allocation_rules", 1)
dev_allocations ==
  Key("shared_cost_allocation_runs", 1) \o Call("clear", "shared_cost_allocations", 0)
    \o Each("shared_cost_allocations", 3) \o Key("initiative_value_realization_notes", 1)
dev_meetings ==
  Key("meetings", 2) \o Key("meeting_attendees", 7) \o Key("meeting_initiatives", 4)
dev_sessions == Key("agenda_items", 5) \o Key("meeting_sessions", 2) \o Key("action_items", 2)
dev_initiatives == Key("initiatives", 5)
dev_milestones == Key("milestones", 15)
dev_status_updates == Key("status_updates", 4)
dev_gate_criteria == Fill("gate_criteria", 20)

\* Workstreams are found, or refused: they lost the column it would fill.
dev_tenant ==
  Key("organizations", 1) \o Key("business_units", 2) \o Call("find", "workstreams", 3)
seed_dev ==
  dev_tenant \o dev_users \o dev_initiatives \o dev_milestones \o dev_kpis \o dev_risks
    \o dev_status_updates \o dev_gate_criteria \o dev_financials \o dev_value_controls
    \o dev_allocations \o dev_meetings \o dev_sessions

\* bootstrap_demo_portfolio
demo_initiatives == Key("workstreams", 3) \o Key("initiatives", 10)
demo_milestones == Key("milestones", 30)
demo_financial_entries == Key("financial_entries", 120)
demo_cost_lines == Key("financial_cost_lines", 4)
demo_plan_locks == Key("gate_submissions", 7) \o Key("bankable_plans", 7)
demo_target_locks == Key("workstream_target_locks", 3)
demo_dependencies == Key("initiative_dependencies", 7)
demo_benefit_ledger == Key("benefit_realization_ledger", 36)
bootstrap_demo_portfolio ==
  demo_initiatives \o demo_milestones \o demo_financial_entries \o demo_cost_lines
    \o demo_plan_locks \o demo_target_locks \o demo_dependencies \o demo_benefit_ledger

\* bootstrap_hostinger_local with TenantBootstrapService.bootstrap_tenant.
bootstrap_financial_engine ==
  Fill("financial_scenarios", 4) \o Fill("financial_metric_definitions", 10)
    \o Fill("financial_cost_categories", 8) \o Fill("financial_bridge_rows", 6)
bootstrap_tenant == bootstrap_financial_engine \o Fill("tenant_dashboard_config", 10)
ensure_subscription == Key("subscription_plans", 5) \o Key("tenant_subscriptions", 1)
bootstrap_hostinger_local ==
  Call("account", "auth_users", 1) \o Key("organizations", 1)
    \o Call("account", "auth_users", 2) \o Key("users", 1)
    \o ensure_subscription \o bootstrap_tenant

------------------------------------------------------------------------------
\* Erasing

PORTFOLIO_CLEANUP_TABLES ==
  <<"action_items", "meeting_artifacts", "meeting_external_events",
    "meeting_session_agenda_items", "meeting_session_attendees", "agenda_items",
    "meeting_sessions", "meeting_initiatives", "meeting_attendees", "meeting_workstreams",
    "meetings", "gate_submissions", "stage_gates", "nudge_log", "status_updates",
    "financial_forecasts", "benefit_realization_ledger", "bankable_plans",
    "financial_initiative_annual_baselines", "financial_cost_lines",
    "financial_metric_values", "financial_benefit_lines", "financial_cell_assumptions",
    "risks", "kpi_entries", "kpis", "milestone_dependencies", "milestone_checklist",
    "milestones", "initiative_business_units", "initiative_team", "initiatives">>
BadCleanupTakesWorkstreams == Clear(PORTFOLIO_CLEANUP_TABLES \o <<"workstreams">>)

delete_portfolio_data == Clear(PORTFOLIO_CLEANUP_TABLES) \o Fill("audit_log", 1)

reset_portfolio_data ==
  Clear(<<"action_items", "agenda_items", "meeting_initiatives", "gate_submissions",
          "stage_gates", "status_updates", "risks", "kpi_entries", "kpis",
          "milestone_dependencies", "milestone_checklist", "milestones",
          "financial_metric_values", "financial_benefit_lines", "financial_cost_lines",
          "initiative_financial_scope", "initiative_financial_selections",
          "initiative_business_units", "initiative_team", "initiatives">>)
reload ==
  reset_portfolio_data
    \o load_portfolio(Workbook, [metrics |-> {"gm", "revenue"},
                                 scenarios |-> {"plan_base", "actual"}], "operator")

TENANT_DELETE_TABLES ==
  <<"audit_log", "agent_corrections", "agent_metrics", "agent_audit_log", "action_items",
    "meeting_artifacts", "meeting_external_events", "agenda_items", "meeting_sessions",
    "meeting_initiatives", "meeting_attendees", "meetings", "bankable_plans",
    "gate_submissions", "stage_gates", "gate_criteria", "nudge_log", "status_updates",
    "financial_forecasts", "benefit_realization_ledger", "workstream_target_locks",
    "financial_initiative_annual_baselines", "financial_tenant_annual_baselines",
    "initiative_financial_scope", "financial_cost_lines", "financial_metric_values",
    "financial_benefit_lines", "financial_cell_assumptions", "financial_bridge_rows",
    "financial_cost_categories", "financial_metric_definitions", "financial_scenarios",
    "financial_config_items", "financial_config_groups", "tenant_dashboard_config",
    "risks", "kpi_entries", "kpis", "initiative_dependencies",
    "initiative_financial_selections", "initiative_value_realization_notes",
    "shared_cost_allocations", "shared_cost_allocation_runs",
    "shared_cost_allocation_rules", "shared_cost_pools", "milestone_dependencies",
    "milestone_checklist", "milestones", "initiative_business_units", "initiative_team",
    "initiatives", "user_workstreams", "workstreams", "business_units",
    "stage_gate_definitions", "tenant_subscriptions", "signup_intents",
    "subscription_plans">>
\* The operator's list, the people, their accounts, the organization last.
delete_tenant ==
  Clear(TENANT_DELETE_TABLES) \o Clear(<<"users">>)
    \o Call("erase accounts", "auth_users", 0) \o Clear(<<"organizations">>)

------------------------------------------------------------------------------
\* One script's calls, and the tenant it is run on.

Script ==
  [enterprise |-> seed_enterprise_transformation_scenario \o insert_meeting_demo,
   five |-> seed_profile,
   dev |-> seed_dev,
   shell |-> bootstrap_hostinger_local,
   demo |-> bootstrap_demo_portfolio,
   cleanup |-> delete_portfolio_data,
   reload |-> reload,
   acceptance |-> run_acceptance,
   deletion |-> delete_tenant]
Seeds == {"enterprise", "five", "dev", "shell", "demo"}
Resetting == {"enterprise", "five"}
Erasers == {"cleanup", "reload", "deletion"}

RunsOn(s) == CASE s \in Erasers -> "customer" [] s = "acceptance" -> "five" [] OTHER -> s

\* The customer's five workstreams and business units are none of the workbook's;
\* people who add one add the one it names.
TenantNamed == 5

\* What a call leaves when nothing stands in its way.
Done(call, r) ==
  LET t == call.table  n == call.n
  IN  CASE call.do = "clear" -> Emptied(r, t)
        [] call.do = "all" -> [r EXCEPT ![t] = @ + n]
        [] call.do = "lost" -> [r EXCEPT ![t] = IF @ < n THEN @ + 1 ELSE @]
        [] call.do = "named" -> [r EXCEPT ![t] = IF @ > TenantNamed THEN @ ELSE @ + n]
        [] call.do = "probe" -> [r EXCEPT ![t] = @ + 1]
        [] call.do = "unprobe" /\ t = "kpis" ->
             [r EXCEPT !["kpis"] = @ - 1, !["kpi_entries"] = @ - 1]
        [] call.do = "unprobe" -> [r EXCEPT ![t] = @ - 1]
        [] call.do \in {"key", "fill", "once", "account", "owned", "person"} ->
             [r EXCEPT ![t] = IF @ < n THEN n ELSE @]
        [] OTHER -> r

\* The demo portfolio goes into a tenant's shell; seed_dev's tenant is as old as
\* the workstreams' business units.  A first run gets to the call on a table that
\* no longer exists.
Kept(s) ==
  LET gone == SelectInSeq(Script[s], LAMBDA c : c.table \notin Tables)
  IN  IF gone = 0 THEN Script[s] ELSE SubSeq(Script[s], 1, gone - 1)
\* Ten calls at a time, which keeps the evaluation shallow.
Parts(calls) == [k \in 1 .. (Len(calls) + 9) \div 10 |->
                   SubSeq(calls, 10 * k - 9, IF 10 * k < Len(calls) THEN 10 * k ELSE Len(calls))]
After(calls, r) == FoldLeft(LAMBDA before, call : Done(call, before), r, calls)
Left(s, start) ==
  FoldLeft(LAMBDA r, part : CHOOSE after \in {After(part, before) : before \in {r}} : TRUE,
           start, Parts(Kept(s)))
Shell == Left("shell", NoRows)
Start(s) ==
  CASE s = "demo" -> Shell
    [] s = "dev" -> [organizations |-> 1, business_units |-> 2, workstreams |-> 3] @@ NoRows
    [] OTHER -> NoRows
Canonical == [s \in Seeds |-> Left(s, Start(s))]

\* A customer at work, before and after its first plan was locked.
Customer == Canonical["enterprise"]
Unlocked == [t \in Tables |->
               IF t \in {"bankable_plans", "benefit_realization_ledger"} THEN 0 ELSE Customer[t]]

ScriptsInit ==
  /\ \/ fixture \in Seeds /\ rows = Start(fixture)
     \/ fixture = "customer" /\ rows \in {Customer, Unlocked}
  /\ running = "none" /\ pc = 1 /\ ended = <<"none", "none">>
  /\ found = 0 /\ disturbances = 0

------------------------------------------------------------------------------
\* Steps

\* A workbook is loaded once its dry run finds what it asks for.
Begin(s) ==
  /\ running = "none" /\ RunsOn(s) = fixture
  /\ s = "reload" => rows["financial_metric_definitions"] > 0 /\ rows["financial_scenarios"] > 0
  /\ IF s \in Erasers /\ rows["organizations"] = 0
     THEN ended' = <<s, "not found">> /\ UNCHANGED <<running, found>>
     ELSE /\ running' = s /\ ended' = <<"none", "none">>
          /\ found' = IF s = "deletion" THEN rows["users"] ELSE 0
  /\ pc' = 1
  /\ UNCHANGED <<rows, fixture, disturbances>>

Current == Script[running][pc]

End(how) == /\ running' = "none" /\ pc' = 1 /\ found' = 0
            /\ ended' = <<running, how>>
            /\ UNCHANGED fixture

GoOn(n) == IF pc + n > Len(Script[running])
           THEN End("done")
           ELSE pc' = pc + n /\ UNCHANGED <<running, ended, found, fixture>>

\* A statement the database refuses.
RefusedCall(call) ==
  \/ call.table \notin Tables
  \/ call.do = "find" /\ rows[call.table] < call.n
  \/ call.do = "clear" /\ rows[call.table] > 0 /\ Refused(rows, call.table)
  \/ call.do \notin {"clear", "erase accounts"} /\ Orphan(rows, call.table)

\* A fixture's seed touches no login but its own, with a row of its own.
UnsafeCall(call) ==
  \/ call.do = "owned" /\ rows["auth_users"] >= call.n /\ rows["users"] < call.n
  \/ call.do = "preflight"
     /\ \/ rows["auth_users"] # rows["users"]
        \/ \E t \in {"integration_connections", "integration_oauth_states", "user_invites"} :
             rows[t] > 0

FailedAssert(call) ==
  \/ call.do = "exactly" /\ rows[call.table] # call.n
  \/ call.do = "at least" /\ rows[call.table] < call.n
  \/ call.do = "assert"
    /\ \/ rows["initiatives"] # 10
       \/ \E t \in DOMAIN RequiredCounts : rows[t] < RequiredCounts[t]
       \/ \E t \in EmptyForAcceptance : rows[t] # 0

Inserts(call) ==
  /\ call.do \notin {"key", "once", "erase accounts"}
  /\ rows' = Done(call, rows) /\ GoOn(1)

InsertKeyed(call) ==
  /\ call.do = "key"
  /\ IF rows[call.table] < call.n THEN rows' = [rows EXCEPT ![call.table] = @ + 1]
                                  ELSE rows' = rows
  /\ IF rows'[call.table] < call.n
     THEN UNCHANGED <<pc, running, ended, found, fixture>>
     ELSE GoOn(1)

InsertOnce(call) ==
  /\ call.do = "once"
  /\ rows' = Done(call, rows)
  /\ GoOn(IF rows[call.table] < call.n THEN 1 ELSE 2)

\* The errors of single accounts are collected and reported.
EraseAccounts(call) ==
  /\ call.do = "erase accounts"
  /\ \E failed \in {0, 1} : /\ failed <= found
                            /\ rows' = [rows EXCEPT ![call.table] = @ - (found - failed)]
  /\ GoOn(1)

Step ==
  /\ running # "none"
  /\ UNCHANGED disturbances
  /\ IF UnsafeCall(Current) THEN End("unsafe") /\ rows' = rows
     ELSE IF RefusedCall(Current) \/ FailedAssert(Current) THEN End("refused") /\ rows' = rows
     ELSE \/ Inserts(Current) \/ InsertKeyed(Current)
          \/ InsertOnce(Current) \/ EraseAccounts(Current)

Disturb == disturbances < MaxDisturbances /\ disturbances' = disturbances + 1

\* A failed call, or a stop between two.
Stop == /\ running # "none" /\ Disturb
        /\ rows' = rows /\ End("stopped")

\* A request of a probe fails: what it made is deleted, unless no answer told it
\* the row's name.
Made(p) == {j \in 1..(p - 1) :
              /\ Script["acceptance"][j].do = "probe"
              /\ \A k \in j..(p - 1) : ~ /\ Script["acceptance"][k].do = "unprobe"
                                         /\ Script["acceptance"][k].table
                                              = Script["acceptance"][j].table}
ProbeFails ==
  /\ running = "acceptance" /\ Disturb
  /\ \E made \in {Made(pc)} :
       /\ made # {} /\ \A j \in made : pc > j + 1
       /\ rows' = FoldSet(LAMBDA j, r : [r EXCEPT ![Script["acceptance"][j].table] = @ - 1],
                          rows, made)
  /\ End("stopped")

\* The row of a person fails: the login this run made is deleted again.
PersonFails ==
  /\ running # "none" /\ Current.do = "person" /\ Disturb
  /\ rows' = [rows EXCEPT !["auth_users"] = IF rows["users"] < Current.n THEN @ - 1 ELSE @]
  /\ End("stopped")

\* People work in the tenant between two scripts.
Untouched == {"organizations", "auth_users", "users", "tenant_dashboard_config",
              "shared_cost_reporting_settings", "subscription_plans", "signup_intents"}
PeopleWork ==
  /\ running = "none" /\ fixture \in Resetting \cup {"customer"} /\ Disturb
  /\ rows["organizations"] = 1
  /\ \E t \in Tables \ Untouched : ~ Orphan(rows, t) /\ rows' = [rows EXCEPT ![t] = @ + 1]
  /\ ended' = <<"none", "none">>
  /\ UNCHANGED <<running, pc, found, fixture>>

\* An open page reads its configuration, which the read fills in.
PageReads ==
  /\ rows["organizations"] = 1 /\ Disturb
  /\ rows' = FoldLeft(LAMBDA r, call : Done(call, r), rows,
                      Fill("tenant_dashboard_config", 10)
                        \o Fill("shared_cost_reporting_settings", 1))
  /\ UNCHANGED <<running, pc, ended, found, fixture>>

ScriptsNext == \/ \E s \in DOMAIN Script : Begin(s)
               \/ Step \/ Stop \/ ProbeFails \/ PersonFails \/ PeopleWork \/ PageReads
ScriptsSpec == ScriptsInit /\ [][ScriptsNext]_scriptVars

------------------------------------------------------------------------------
\* Properties

ScriptsTypeOK ==
  /\ rows \in [Tables -> Nat]
  /\ fixture \in Seeds \cup {"customer"}
  /\ running \in DOMAIN Script \cup {"none"}
  /\ running # "none" => pc \in DOMAIN Script[running]
  /\ found \in Nat /\ disturbances \in 0 .. MaxDisturbances

\* The tables a script writes rows of, and those a later run does not complete:
\* the entries of an existing KPI, the workstreams of an existing person, and
\* the risks it cannot find again.
Filled(s) ==
  LET calls == SelectSeq(Kept(s), LAMBDA c : c.do # "clear" /\ c.n > 0)
  IN  {calls[i].table : i \in DOMAIN calls}
Incomplete == [s \in Seeds |-> IF s = "dev" THEN {"kpi_entries", "user_workstreams", "risks"}
                                            ELSE {}]

\* Whatever was stopped, failed or added before: a seed that comes to its end
\* leaves the rows of a first run, and so do the calls of the two older ones up
\* to the table that is gone (docs/team/FIVE_TENANT_DEV_ACCEPTANCE.md:369,395).
SeedsAreCanonical ==
  ended[1] \in Seeds /\ ended[2] \in {"done", "refused"} =>
    \A t \in Filled(ended[1]) \ Incomplete[ended[1]] : rows[t] = Canonical[ended[1]][t]

\* A reload that comes to its end leaves what its dry run promised, and the dry
\* run of any clean workbook promises what is inserted.
ReloadIsCanonical ==
  /\ ended = <<"reload", "done">> =>
       \A t \in ToSet(LoadOrder) : rows[t] = workbook_summary(Workbook)[t]
  /\ ended[1] = "reload" => ReloadKeepsPromise

\* An acceptance run that comes to its end leaves the seeded rows it has looked at
\* as they were; what it refuses, it refuses on reading rows that are not the
\* seed's, never on what its own probes left ("leaves the seeded portfolio
\* intact", the script's own heading).
Verified == {t \in Tables : \E i \in DOMAIN run_acceptance :
                              run_acceptance[i].do = "exactly" /\ run_acceptance[i].table = t}
AcceptanceIsNeutral ==
  /\ ended = <<"acceptance", "done">> =>
       \A t \in Verified : rows[t] = Canonical["five"][t]
  /\ running = "acceptance" /\ FailedAssert(Current) =>
       /\ \A j \in 1..pc : run_acceptance[j].do # "probe"
       /\ rows[Current.table] # Canonical["five"][Current.table]

SeedIsCanonical == SeedsAreCanonical /\ ReloadIsCanonical /\ AcceptanceIsNeutral

\* No statement of a seed that begins with a reset, and none of a tenant's shell,
\* is refused, and what they leave passes their own assertions: the tables are
\* emptied and filled in an order the foreign keys allow.
SeedIsNeverRefused ==
  ended[1] \in Resetting \cup {"shell"} => ended[2] # "refused"

PortfolioTables == {PORTFOLIO_CLEANUP_TABLES[i] : i \in DOMAIN PORTFOLIO_CLEANUP_TABLES}
PreservedTables == {"organizations", "users", "auth_users", "business_units", "workstreams",
                    "user_workstreams", "gate_criteria", "stage_gate_definitions",
                    "financial_scenarios", "financial_metric_definitions",
                    "financial_cost_categories", "tenant_subscriptions"}

\* A cleanup that comes to its end has emptied the portfolio, what falls with it
\* included, and no cleanup or reload ever touches what admin.py says it preserves,
\* but for the names a reload adds; a deleted tenant leaves nothing but the
\* accounts that could not be deleted.
CleanupEmpties ==
  /\ ended = <<"cleanup", "done">> => \A t \in PortfolioTables : rows[t] = 0
  /\ ended = <<"deletion", "done">> => \A t \in Tables \ {"auth_users"} : rows[t] = 0
NamedTables == {"business_units", "workstreams"}
CleanupPreserves ==
  [][(running \in {"cleanup", "reload"}) =>
       \A t \in PreservedTables :
         \/ rows'[t] = rows[t]
         \/ running = "reload" /\ t \in NamedTables /\ rows'[t] > rows[t]]_scriptVars
CleanupIsWhole == []CleanupEmpties /\ CleanupPreserves

\* "must be able to reset the tenant portfolio predictably"
\* (docs/team/CLEAN_CONFIGURABLE_FINANCIAL_ENGINE.md:171): the reset before a
\* reload is never refused by the database.
ReloadCanReset == ended # <<"reload", "refused">>
===============================================================================
