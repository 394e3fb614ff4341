------------------------------ MODULE Acceptance ------------------------------
(* The acceptance run over the five fixture tenants
   (scripts/verify_five_tenant_dev_api_acceptance.py), for one of them: it signs
   its ten people in, reads every surface and compares what it lists with the
   fixture, and creates and deletes a risk, a KPI and a milestone.

   It works over the public API: what a request writes besides its row, the
   audit entry, is a call of its own.  Reads that assert no count, and the
   requests to the other four tenants, change nothing and are left out. *)
EXTENDS TenantCalls

Exactly(t, n) == Call("exactly", t, n)
AtLeast(t, n) == Call("at least", t, n)
Counts(r) == FlattenSeq([i \in DOMAIN r |-> Exactly(r[i][1], r[i][2])])

authenticate_tenant == Exactly("users", 10)

verify_portfolio_reads ==
  Counts(<< <<"initiatives", 10>>, <<"users", 10>>, <<"user_invites", 0>>,
            <<"business_units", 5>>, <<"workstreams", 5>>, <<"kpis", 20>>,
            <<"risks", 20>>, <<"milestones", 30>>, <<"initiative_dependencies", 3>> >>)
verify_shared_costs ==
  AtLeast("workstream_target_locks", 5) \o Exactly("shared_cost_pools", 4)
    \o AtLeast("shared_cost_pool_periods", 4) \o AtLeast("shared_cost_allocation_rules", 4)
    \o AtLeast("shared_cost_allocation_runs", 4)
verify_governance ==
  Exactly("financial_benefit_lines", 30) \o Exactly("gate_submissions", 41)
    \o Exactly("nudge_log", 0) \o Exactly("stage_gate_definitions", 5)
    \o AtLeast("gate_criteria", 10) \o Exactly("shared_cost_allocations", 22)

\* Each person may update the dashboards only with a setup role; the viewer's
\* risk is refused, and deleted if it was not.
verify_role_matrix == Fill("tenant_dashboard_config", 10) \o Exactly("risks", 20)

\* Per initiative, added up.
verify_initiative_reads ==
  AtLeast("gate_criteria", 1)
    \o Counts(<< <<"kpis", 20>>, <<"kpi_entries", 240>>, <<"risks", 20>>,
                 <<"milestones", 30>>, <<"milestone_checklist", 30>>,
                 <<"status_updates", 20>> >>)
verify_initiative_financials ==
  Exactly("financial_benefit_lines", 30) \o AtLeast("financial_metric_values", 2220)
    \o AtLeast("financial_benefit_line_validation_events", 30)
    \o Counts(<< <<"financial_cost_lines", 90>>, <<"financial_forecasts", 30>>,
                 <<"benefit_realization_ledger", 240>>, <<"bankable_plans", 11>>,
                 <<"initiative_team", 30>> >>)

\* Of the audit trail only that it has an entry.
Audited == Fill("audit_log", 1)

\* Created, its audit entry, what is done to it, deleted in a finally block.
BadProbeStays(t, between) ==
  Call("probe", t, 1) \o Audited \o between \o Audited
Probe(t, between) ==
  Call("probe", t, 1) \o Audited \o between
    \o Call("unprobe", t, 1) \o Audited
probe_risk == Probe("risks", Audited)
probe_kpi == Probe("kpis", Audited \o Call("probe", "kpi_entries", 1))
probe_milestone ==
  Probe("milestones",
        Audited \o Call("probe", "milestone_checklist", 1)
          \o Call("unprobe", "milestone_checklist", 1))
exercise_reversible_mutations ==
  probe_risk \o probe_kpi \o probe_milestone
    \o Counts(<< <<"risks", 20>>, <<"kpis", 20>>, <<"milestones", 30>>,
                 <<"financial_cost_lines", 90>> >>)

run_acceptance ==
  authenticate_tenant \o verify_portfolio_reads \o verify_shared_costs
    \o verify_governance \o verify_role_matrix \o verify_initiative_reads
    \o verify_initiative_financials \o exercise_reversible_mutations
===============================================================================
