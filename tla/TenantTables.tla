---------------------------- MODULE TenantTables ----------------------------
(* The tables that hold a tenant's rows and the foreign keys between them, as
   the migrations leave them (supabase/migrations): which rows fall with their
   parent, which rows keep their parent from being deleted, and what one
   statement that deletes all the tenant's rows of a table does.

   A tenant's data is a count of rows per table.  References that are cleared
   with their parent are left out, and so are a row's references to the
   organization and to people where it has a nearer parent that has them too. *)
EXTENDS Naturals, Sequences, FiniteSets, TLC

\* Children of NOT NULL references declared ON DELETE CASCADE.
CascadeOf(t) ==
  CASE t = "initiatives" ->
         {"bankable_plans", "benefit_realization_ledger",
          "financial_benefit_line_validation_events", "financial_benefit_lines",
          "financial_cell_assumptions", "financial_cost_lines", "financial_forecasts",
          "financial_initiative_annual_baselines", "financial_metric_values",
          "gate_submissions", "initiative_business_units", "initiative_dependencies",
          "initiative_financial_scope", "initiative_financial_selections",
          "initiative_team", "initiative_value_realization_notes", "kpis",
          "meeting_initiatives", "milestones", "nudge_log", "risks",
          "shared_cost_allocations", "stage_gates", "status_updates"}
    [] t = "kpis" -> {"kpi_entries"}
    [] t = "milestones" -> {"milestone_checklist", "milestone_dependencies"}
    [] t = "meetings" ->
         {"agenda_items", "meeting_artifacts", "meeting_attendees",
          "meeting_external_events", "meeting_initiatives", "meeting_sessions",
          "meeting_session_agenda_items", "meeting_session_attendees",
          "meeting_workstreams"}
    [] t = "meeting_sessions" ->
         {"action_items", "meeting_session_agenda_items", "meeting_session_attendees"}
    [] t = "business_units" -> {"initiative_business_units"}
    [] t = "workstreams" ->
         {"meeting_workstreams", "user_workstreams", "workstream_target_locks"}
    [] t = "financial_benefit_lines" -> {"financial_benefit_line_validation_events"}
    [] t = "financial_metric_definitions" ->
         {"financial_initiative_annual_baselines", "financial_tenant_annual_baselines"}
    [] t = "financial_config_groups" -> {"financial_config_items"}
    [] t = "shared_cost_pools" ->
         {"shared_cost_allocation_rules", "shared_cost_allocation_runs",
          "shared_cost_allocations", "shared_cost_pool_periods"}
    [] t = "shared_cost_allocation_rules" ->
         {"shared_cost_allocation_runs", "shared_cost_allocations",
          "shared_cost_allocation_targets", "shared_cost_allocation_weights"}
    [] t = "shared_cost_allocation_runs" ->
         {"shared_cost_allocations", "shared_cost_allocation_audit_events"}
    [] t = "users" ->
         {"initiative_team", "integration_oauth_states", "meeting_attendees",
          "meeting_session_attendees", "user_workstreams"}
    [] t = "organizations" ->
         {"financial_attribute_definitions", "financial_bridge_rows",
          "financial_cost_categories", "financial_metric_definitions",
          "financial_scenarios", "shared_cost_allocation_exceptions",
          "shared_cost_reporting_settings", "stage_gate_definitions",
          "tenant_dashboard_config", "user_invites"}
    [] OTHER -> {}

\* Children whose rows refuse the deletion of the rows they name.
ConfigReferences == [financial_metric_definitions |-> {"financial_benefit_lines",
                                                       "financial_metric_values"},
                     financial_scenarios |-> {"financial_metric_values"},
                     gate_submissions |-> {"bankable_plans"}]
RestrictOf(t) ==
  CASE t \in DOMAIN ConfigReferences -> ConfigReferences[t]
    [] t = "workstreams" -> {"initiatives", "meetings"}
    [] t = "agent_audit_log" -> {"agent_corrections"}
    [] t \in {"signup_intents", "subscription_plans"} -> {"tenant_subscriptions"}
    [] t = "users" ->
         {"action_items", "ai_copilot_actions", "audit_log", "bankable_plans",
          "gate_submissions", "initiatives", "meetings", "milestones", "nudge_log",
          "status_updates", "user_invites", "workstream_target_locks"}
    [] t = "organizations" ->
         {"agent_audit_log", "agent_metrics", "ai_copilot_actions", "audit_log",
          "business_units", "financial_config_groups", "gate_criteria", "initiatives",
          "integration_connections", "integration_oauth_states", "meetings",
          "shared_cost_pools", "signup_intents", "subscription_plans",
          "tenant_subscriptions", "users", "workstreams"}
    [] OTHER -> {}

Roots == {"organizations", "auth_users"}
Below(ts) == ts \cup UNION {CascadeOf(t) \cup RestrictOf(t) : t \in ts}
Tables == Below(Below(Below(Below(Roots))))

NoRows == [t \in Tables |-> 0]

\* The tables emptied with t, three references deep.
With(ts) == ts \cup UNION {CascadeOf(t) : t \in ts}
FallWith(t) == With(With(With({t})))

\* A row of a table that does not fall keeps the whole statement from happening.
Refused(rows, t) ==
  \E u \in FallWith(t) : \E c \in RestrictOf(u) \ FallWith(t) : rows[u] > 0 /\ rows[c] > 0
Emptied(rows, t) == IF rows[t] = 0 THEN rows ELSE [u \in FallWith(t) |-> 0] @@ rows

\* A row needs the parents of its NOT NULL references.
Orphan(rows, t) ==
  \E p \in Tables : /\ rows[p] = 0
                    /\ \/ t \in CascadeOf(p)
                       \/ p \in DOMAIN ConfigReferences /\ t \in ConfigReferences[p]
===============================================================================
