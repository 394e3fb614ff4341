--------------------------- MODULE PortfolioWorkbook ---------------------------
(* The portfolio workbook an operator loads into a tenant
   (services/portfolio_workbook.py): how its sheets become initiatives, what the
   dry run promises, and what the reload then inserts.

   A sheet is a sequence of rows, and every row names its initiative.  Of a row
   only what it is looked up, grouped or counted by matters: names and keys are
   strings, "" where the cell is empty, and of its months only how many hold an
   amount, and in which quarters they lie. *)
EXTENDS TenantCalls

Rows(book, sheet, ref) == SelectSeq(book[sheet], LAMBDA row : row.ref = ref)
SumOver(list, Of(_)) ==
  LET sum[i \in 0..Len(list)] == IF i = 0 THEN 0 ELSE sum[i - 1] + Of(list[i])
  IN  sum[Len(list)]
Distinct(list, Of(_)) == Cardinality({Of(list[i]) : i \in DOMAIN list})

------------------------------------------------------------------------------
\* Parsing

\* A summary row needs a name; any other sheet makes the initiative it names.
References(book) ==
  {row.ref : row \in {r \in ToSet(book.summary) : r.name # ""}}
    \cup UNION {{row.ref : row \in ToSet(book[sheet])} :
                  sheet \in DOMAIN book \ {"summary"}}

\* The charter's answer, or the summary's.
Answer(book, ref, field) ==
  LET charter == {row[field] : row \in ToSet(Rows(book, "charter", ref))} \ {""}
      summary == {row[field] : row \in {r \in ToSet(Rows(book, "summary", ref)) : r.name # ""}}
                   \ {""}
  IN  IF charter # {} THEN charter ELSE summary
Workstream(book, ref) == Answer(book, ref, "stream")
Unit(book, ref) == Answer(book, ref, "unit")
StageGate(book, ref) == Answer(book, ref, "gate")

Named(row) == row.name # ""
LineKey(row) == <<IF row.id # "" THEN row.id ELSE row.name, row.metric, row.name>>
CostLanes == {"plan", "actual"}
KPILanes == {"base case", "high case", "actual"}

\* A cost without months falls on the month it starts.
CostPeriods(row) == IF row.lane \notin CostLanes THEN 0
                    ELSE IF row.months > 0 THEN row.months ELSE row.start

------------------------------------------------------------------------------
\* What the dry run counts, and what it wants the tenant to have.

InAll(book, Count(_)) == SumOver(SetToSeq(References(book)), Count)

workbook_summary(book) ==
  [initiatives |-> Cardinality(References(book)),
   financial_benefit_lines |->
     Cardinality({<<row.ref, LineKey(row)>> :
                    row \in {r \in ToSet(book.benefits) : Named(r)}}),
   financial_metric_values |-> SumOver(book.benefits, LAMBDA row : row.months),
   financial_cost_lines |-> SumOver(book.costs, CostPeriods),
   kpis |-> Cardinality({<<row.ref, row.name>> :
                           row \in {r \in ToSet(book.kpis) : Named(r)}}),
   kpi_entries |-> Cardinality(UNION {{<<row.ref, row.name, q>> : q \in row.quarters} :
                                        row \in {r \in ToSet(book.kpis) : Named(r)}}),
   milestones |-> Len(SelectSeq(book.milestones, Named)),
   risks |-> Len(SelectSeq(book.risks, Named)),
   status_updates |-> Len(SelectSeq(book.updates, Named))]

required_metric_keys(book) == {row.metric : row \in ToSet(book.benefits)}
required_scenario_keys(book) == {row.lane : row \in ToSet(book.benefits)} \ {""}
required_stage_gates(book) == UNION {StageGate(book, ref) : ref \in References(book)}

dry_run_ready(book, tenant) ==
  /\ required_metric_keys(book) \subseteq tenant.metrics
  /\ required_scenario_keys(book) \subseteq tenant.scenarios
  /\ required_stage_gates(book) \subseteq tenant.gates

------------------------------------------------------------------------------
\* What the reload inserts for one initiative.

create_benefit_lines(book, tenant, ref) ==
  Cardinality({LineKey(row) : row \in {r \in ToSet(Rows(book, "benefits", ref)) :
                                         r.metric \in tenant.metrics}})
create_metric_values(book, tenant, ref) ==
  SumOver(SelectSeq(Rows(book, "benefits", ref),
                    LAMBDA r : r.metric \in tenant.metrics /\ r.lane \in tenant.scenarios),
          LAMBDA row : row.months)
create_cost_lines(book, ref) == SumOver(Rows(book, "costs", ref), CostPeriods)

\* Rows of one name are one KPI; its entries are those of the lanes it knows,
\* one per quarter.
BadCreateKpis(book, ref) ==
  LET named == SelectSeq(Rows(book, "kpis", ref), Named)
      laned == SelectSeq(named, LAMBDA r : r.lane \in KPILanes)
  IN  [kpis |-> Distinct(named, LAMBDA r : r.name),
       kpi_entries |-> SumOver(laned, LAMBDA r : Cardinality(r.quarters))]

create_kpis(book, ref) ==
  LET named == SelectSeq(Rows(book, "kpis", ref), Named)
      laned == SelectSeq(named, LAMBDA r : r.lane \in KPILanes)
  IN  [kpis |-> Distinct(named, LAMBDA r : r.name),
       kpi_entries |-> Cardinality(UNION {{<<row.name, q>> : q \in row.quarters} :
                                            row \in ToSet(laned)})]
create_named(book, sheet, ref) == Len(SelectSeq(Rows(book, sheet, ref), Named))
\* Updates need an author.
create_status_updates(book, user, ref) ==
  IF user = "" THEN 0 ELSE create_named(book, "updates", ref)

create_all(book, tenant, user, ref) ==
  [initiatives |-> 1,
   financial_benefit_lines |-> create_benefit_lines(book, tenant, ref),
   financial_metric_values |-> create_metric_values(book, tenant, ref),
   financial_cost_lines |-> create_cost_lines(book, ref),
   kpis |-> create_kpis(book, ref).kpis,
   kpi_entries |-> create_kpis(book, ref).kpi_entries,
   milestones |-> create_named(book, "milestones", ref),
   risks |-> create_named(book, "risks", ref),
   status_updates |-> create_status_updates(book, user, ref)]

\* The names the tenant lacks are inserted first, units once for each name but
\* workstreams once for every initiative that names one.
ensure_business_units(book) ==
  Call("named", "business_units", Cardinality(UNION {Unit(book, r) : r \in References(book)}))
ensure_workstreams(book) ==
  Call("named", "workstreams", InAll(book, LAMBDA r : Cardinality(Workstream(book, r))))

\* Tables in the order an initiative's rows are inserted.
LoadOrder == <<"initiatives", "financial_benefit_lines", "financial_metric_values",
               "financial_cost_lines", "kpis", "kpi_entries", "milestones", "risks",
               "status_updates">>
load_initiative(book, tenant, user, ref) ==
  LET made == create_all(book, tenant, user, ref)
  IN  All("initiatives", 1)
        \o Some("initiative_business_units", Cardinality(Unit(book, ref)))
        \o FlattenSeq([i \in 1..(Len(LoadOrder) - 1) |->
                         Some(LoadOrder[i + 1], made[LoadOrder[i + 1]])])

load_portfolio(book, tenant, user) ==
  ensure_business_units(book) \o ensure_workstreams(book)
    \o FlattenSeq([i \in 1..Cardinality(References(book)) |->
                     load_initiative(book, tenant, user, SetToSeq(References(book))[i])])

------------------------------------------------------------------------------
\* The workbooks of the runs: one initiative on the summary sheet only by name
\* and one the other sheets alone know, who share a new workstream; rows that
\* repeat a line, a KPI in two lanes of one quarter, and rows without a name.

Workbook ==
  [summary |-> <<[ref |-> "a", name |-> "A", stream |-> "new", unit |-> "u", gate |-> "1"],
                 [ref |-> "c", name |-> "", stream |-> "", unit |-> "", gate |-> "3"]>>,
   charter |-> <<[ref |-> "b", stream |-> "new", unit |-> "", gate |-> "2"]>>,
   benefits |-> <<[ref |-> "a", id |-> "1", name |-> "margin", metric |-> "gm",
                   lane |-> "plan_base", months |-> 2],
                  [ref |-> "a", id |-> "1", name |-> "margin", metric |-> "gm",
                   lane |-> "actual", months |-> 1],
                  [ref |-> "b", id |-> "", name |-> "revenue", metric |-> "revenue",
                   lane |-> "plan_base", months |-> 1]>>,
   costs |-> <<[ref |-> "a", lane |-> "plan", months |-> 0, start |-> 1],
               [ref |-> "b", lane |-> "forecast", months |-> 2, start |-> 0]>>,
   kpis |-> <<[ref |-> "a", name |-> "uptime", lane |-> "base case", quarters |-> {1, 2}],
              [ref |-> "a", name |-> "uptime", lane |-> "actual", quarters |-> {1}]>>,
   milestones |-> <<[ref |-> "a", name |-> "go"], [ref |-> "a", name |-> ""]>>,
   risks |-> <<[ref |-> "b", name |-> "late"]>>,
   updates |-> <<[ref |-> "b", name |-> "on track"]>>]

\* Workbooks that differ from it in one benefit row and one KPI row.
Workbooks ==
  {[Workbook EXCEPT !.benefits = Append(@, b), !.kpis = Append(@, k)] :
     b \in [ref : {"a", "b"}, id : {"", "1"}, name : {"", "margin"},
            metric : {"gm", "other"}, lane : {"", "actual", "run rate"}, months : {1}],
     k \in [ref : {"a", "c"}, name : {"", "uptime"}, lane : {"actual", "target"},
            quarters : {{1}, {3}}]}
Tenants == [metrics : {{"gm", "revenue"}, {"gm"}, {"gm", "revenue", "other"}},
            scenarios : {{"plan_base", "actual"}}, gates : {{"1", "2"}, {"1"}}]

\* A workbook whose benefits have a name and a scenario, and whose KPIs the lanes
\* the loader knows.
Clean(book) ==
  /\ \A row \in ToSet(book.benefits) : Named(row) /\ row.lane # ""
  /\ \A row \in ToSet(book.kpis) : Named(row) => row.lane \in KPILanes

\* What the dry run of a clean workbook counts is what its reload inserts once
\* the dry run is ready; it is counted over the sheets and inserted initiative
\* by initiative (docs/team/TENANT_ONBOARDING_USER_GUIDE.md:425).
ReloadKeepsPromise ==
  \A book \in Workbooks, tenant \in Tenants :
    dry_run_ready(book, tenant) /\ Clean(book) =>
      \A t \in ToSet(LoadOrder) :
        workbook_summary(book)[t]
          = InAll(book, LAMBDA r : create_all(book, tenant, "operator", r)[t])
===============================================================================
