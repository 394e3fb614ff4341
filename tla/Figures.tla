------------------------------- MODULE Figures -------------------------------
(* The reports on the benefits and costs of a tenant (services/financial.py):
   each adds up the same rows in its own way. Formulas are left to the module
   Formulas. A value of a scenario and a cost have a fiscal year and month; a
   cost may have no month (0), and a quarter of its own (0: none).

   The reports by period are those of a tenant without rows in financial_entries,
   the table that the migration to the configurable engine drops. *)
EXTENDS Integers, FiniteSets, Functions

CONSTANTS
  Projects,      \* initiatives
  Measures,      \* metric definitions
  Months,        \* fiscal year and month, e.g. <<1, 4>>
  Kinds,         \* metric definitions a tenant may choose, of AllKinds
  Quarters,      \* what a cost may say of its quarter, 0: nothing
  Gains,         \* amounts of a value
  Budgeted,      \* planned amounts of a cost
  Incurred,      \* its actual amounts
  MaxRows        \* bound on the rows

VARIABLES
  measure,       \* financial_metric_definitions
  values,        \* rows of financial_metric_values
  costs          \* rows of financial_cost_lines

figureVars == <<measure, values, costs>>

Classes == {"revenue", "margin", "savings", "cogs"}
AllKinds == [class : Classes, isBenefit : BOOLEAN, active : BOOLEAN]
Scenarios == {"plan", "actual"}
Granularities == {"monthly", "quarterly", "yearly"}
Values == [of : Projects, measure : Measures, scenario : Scenarios, at : Months,
           amount : Gains]
Costs == [of : Projects, at : Months \cup {<<m[1], 0>> : m \in Months}, quarter : Quarters,
          recurring : BOOLEAN, plan : Budgeted, actual : Incurred]

ASSUME FiguresAssumption ==
  /\ IsFiniteSet(Projects) /\ Kinds \subseteq AllKinds
  /\ Months \subseteq Int \X Int
  /\ Gains \subseteq Int /\ Budgeted \subseteq Int /\ Incurred \subseteq Int

FiguresInit == measure \in [Measures -> Kinds] /\ values = {} /\ costs = {}

SaveMetricValue(v) ==
  /\ Cardinality(values \cup {v}) + Cardinality(costs) <= MaxRows
  /\ values' = values \cup {v}
  /\ UNCHANGED <<measure, costs>>

SaveCostLine(c) ==
  /\ Cardinality(values) + Cardinality(costs \cup {c}) <= MaxRows
  /\ costs' = costs \cup {c}
  /\ UNCHANGED <<measure, values>>

FiguresNext == \/ \E v \in Values : SaveMetricValue(v)
               \/ \E c \in Costs : SaveCostLine(c)

FiguresSpec == FiguresInit /\ [][FiguresNext]_figureVars

-------------------------------------------------------------------------------
(* Adding up rows. *)

\* _clean_value_case: whatever is a margin, and other benefits. Cost of goods
\* and revenue are kept apart.
InCase(v) ==
  \/ measure[v.measure].class = "margin"
  \/ measure[v.measure].class = "savings" /\ measure[v.measure].isBenefit

Benefits(vs, scenario) ==
  SumFunction([v \in {v \in vs : v.scenario = scenario /\ InCase(v)} |-> v.amount])

\* _clean_cost_totals.
Spent(c, scenario) == IF scenario = "actual" THEN c.actual ELSE c.plan
Recurring(cs, scenario) ==
  SumFunction([c \in {c \in cs : c.recurring} |-> Spent(c, scenario)])
OneOff(cs, scenario) ==
  SumFunction([c \in {c \in cs : ~c.recurring} |-> Spent(c, scenario)])

Net(vs, cs, scenario) == Benefits(vs, scenario) - Recurring(cs, scenario)

ValuesOf(ps) == {v \in values : v.of \in ps}
CostsOf(ps) == {c \in costs : c.of \in ps}
InYear(rows, y) == {r \in rows : r.at[1] = y}
Years == {r.at[1] : r \in values} \cup {r.at[1] : r \in costs}

-------------------------------------------------------------------------------
(* The portfolio by period. *)

\* _clean_portfolio_period_key: a row without a month is a year's, or the first
\* quarter's.
PeriodKey(year, month, quarter, g) ==
  CASE g = "monthly" /\ month > 0 -> <<year, 0, month>>
    [] g = "quarterly" -> <<year, IF quarter > 0 THEN quarter
                                  ELSE ((IF month = 0 THEN 1 ELSE month) - 1) \div 3 + 1, 0>>
    [] OTHER -> <<year, 0, 0>>

ValueKey(v, g) == PeriodKey(v.at[1], v.at[2], 0, g)
CostKey(c, g) == PeriodKey(c.at[1], c.at[2], c.quarter, g)

\* get_portfolio_financials, of some initiatives and a year.
PortfolioPeriods(ps, y, g) ==
  LET vs == InYear(ValuesOf(ps), y)
      cs == InYear(CostsOf(ps), y)
      keys == {ValueKey(v, g) : v \in vs} \cup {CostKey(c, g) : c \in cs}
  IN  [key \in keys |-> [s \in Scenarios |->
         LET pvs == {v \in vs : ValueKey(v, g) = key}
             pcs == {c \in cs : CostKey(c, g) = key}
         IN  [benefits |-> Benefits(pvs, s), recurring |-> Recurring(pcs, s),
              oneOff |-> OneOff(pcs, s), net |-> Net(pvs, pcs, s)]]]

\* Its summary: the card of the benefits shows the net value as their actual.
PortfolioSummary(ps, y) ==
  LET vs == InYear(ValuesOf(ps), y)
      cs == InYear(CostsOf(ps), y)
  IN  [benefits |-> [plan |-> Benefits(vs, "plan"), actual |-> Net(vs, cs, "actual")],
       costs |-> [s \in Scenarios |-> Recurring(cs, s) + OneOff(cs, s)],
       net |-> [s \in Scenarios |-> Net(vs, cs, s)]]

Total(periods, s, field) == SumFunction([key \in DOMAIN periods |-> periods[key][s][field]])

\* FiscalPeriod.parse: the form of a period at a granularity. Any other, the year of
\* a monthly report among them, is answered with 422.
Parses(key, g) == CASE g = "monthly" -> key[3] \in 1..12
                    [] g = "quarterly" -> key[2] \in 1..4
                    [] OTHER -> key[2] = 0 /\ key[3] = 0

NoAnswer == "422"

BadContributor(p, key, g, s) ==
  LET vs == {v \in ValuesOf({p}) : ValueKey(v, g) = key}
      cs == {c \in CostsOf({p}) : CostKey(c, g) = key}
  IN  [benefits |-> Benefits(vs, s), recurring |-> IF vs = {} THEN 0 ELSE Recurring(cs, s),
       oneOff |-> IF vs = {} THEN 0 ELSE OneOff(cs, s)]

\* get_portfolio_financial_contributors: one initiative in one period.
Contributor(p, key, g, s) ==
  LET vs == {v \in ValuesOf({p}) : ValueKey(v, g) = key}
      cs == {c \in CostsOf({p}) : CostKey(c, g) = key}
  IN  IF Parses(key, g)
      THEN [benefits |-> Benefits(vs, s), recurring |-> Recurring(cs, s),
            oneOff |-> OneOff(cs, s)]
      ELSE NoAnswer

\* get_portfolio_value_ramp: the year's periods, cumulated, and its cards.
InYearCards(ps, y, g, s) ==
  LET periods == PortfolioPeriods(ps, y, g)
  IN  [benefits |-> Total(periods, s, "benefits"), recurring |-> Total(periods, s, "recurring"),
       oneOff |-> Total(periods, s, "oneOff"),
       net |-> Total(periods, s, "benefits") - Total(periods, s, "recurring")]

-------------------------------------------------------------------------------
(* The portfolio by initiative, and its payback. *)

\* get_portfolio_initiative_portfolio counts by the flags of a definition.
InPortfolio(v) == LET d == measure[v.measure]
                  IN  d.active /\ d.isBenefit /\ d.class # "revenue"

InitiativeRow(p, y, s) ==
  LET vs == {v \in InYear(ValuesOf({p}), y) : v.scenario = s /\ InPortfolio(v)}
      cs == InYear(CostsOf({p}), y)
      gain == SumFunction([v \in vs |-> v.amount])
  IN  [benefits |-> gain, recurring |-> Recurring(cs, s), net |-> gain - Recurring(cs, s)]

\* _cumulative_one_off_investments: up to the year.
Investment(p, y, s) ==
  OneOff({c \in CostsOf({p}) : c.at[1] <= y}, s)

PaybackStatus(p, y, s) ==
  CASE Investment(p, y, s) <= 0 -> "immediate"
    [] Investment(p, y, s) > 0 /\ InitiativeRow(p, y, s).net <= 0 -> "not_reached"
    [] OTHER -> "payback"

-------------------------------------------------------------------------------
(* One initiative, all years. *)

\* get_scenario_summary, and the cases of get_value_bridge.
ScenarioNet(p, s) == Net(ValuesOf({p}), CostsOf({p}), s)

\* get_portfolio_value_bridge, all years: the row of kind "net" adds up whatever
\* is flagged as a benefit.
PortfolioNet(s) == Net(values, costs, s)
NetRow(s) ==
  SumFunction([v \in {v \in values : v.scenario = s /\ measure[v.measure].isBenefit} |-> v.amount])
    - Recurring(costs, s)

\* _compute_clean_break_even: the periods are months, and those of costs with
\* their quarter; a period's values are those of its month.
BreakEvenPeriods(p) ==
  {<<v.at[1], 0, v.at[2]>> : v \in ValuesOf({p})}
    \cup {<<c.at[1], c.quarter, c.at[2]>> : c \in CostsOf({p})}

RunRate(p, s, key) ==
  [benefits |-> Benefits({v \in ValuesOf({p}) : v.at = <<key[1], key[3]>>}, s),
   costs |-> LET cs == {c \in CostsOf({p}) : <<c.at[1], c.quarter, c.at[2]>> = key}
             IN  Recurring(cs, s) + OneOff(cs, s)]

\* The last point of the curve.
Cumulated(p, s) ==
  [benefits |-> SumFunction([k \in BreakEvenPeriods(p) |-> RunRate(p, s, k).benefits]),
   costs |-> SumFunction([k \in BreakEvenPeriods(p) |-> RunRate(p, s, k).costs])]

-------------------------------------------------------------------------------
(* Properties. *)

\* Every variable has its type.
FiguresTypeOK ==
  /\ measure \in [Measures -> AllKinds]
  /\ values \subseteq Values
  /\ costs \subseteq Costs

\* The periods of a year, at every granularity, add up to its summary, and the
\* contributors of a period to the period, where they are answered: of the year
\* that a monthly report shows for costs without a month they are not.
PeriodsTellTheYear ==
  \A ps \in SUBSET Projects, y \in Years, g \in Granularities, s \in Scenarios :
    LET periods == PortfolioPeriods(ps, y, g)
        summary == PortfolioSummary(ps, y)
    IN  /\ Total(periods, s, "net") = summary.net[s]
        /\ Total(periods, s, "recurring") + Total(periods, s, "oneOff") = summary.costs[s]
        /\ InYearCards(ps, y, g, s).net = summary.net[s]
        /\ \A key \in DOMAIN periods : Parses(key, g) => \A field \in {"benefits", "recurring", "oneOff"} :
             SumFunction([p \in ps |-> Contributor(p, key, g, s)[field]])
               = periods[key][s][field]

\* Metrics as the guide configures them: in use, flagged as a benefit unless
\* they are cost of goods.
Plain == \A m \in Measures : measure[m].active /\ (measure[m].isBenefit <=> measure[m].class # "cogs")

\* With plain metrics the reports by initiative, by period and by scenario agree,
\* and break-even ends at their totals unless a cost names a quarter as well.
ReportsAgree ==
  \A s \in Scenarios :
    /\ Plain => \A y \in Years :
         SumFunction([p \in Projects |-> InitiativeRow(p, y, s).net])
           = PortfolioSummary(Projects, y).net[s]
    /\ SumFunction([p \in Projects |-> ScenarioNet(p, s)]) = PortfolioNet(s)
    /\ SumFunction([y \in Years |-> PortfolioSummary(Projects, y).net[s]]) = PortfolioNet(s)
    /\ \A p \in Projects : (\A c \in CostsOf({p}) : c.quarter = 0) =>
         /\ Cumulated(p, s).benefits = Benefits(ValuesOf({p}), s)
         /\ Cumulated(p, s).costs = Recurring(CostsOf({p}), s) + OneOff(CostsOf({p}), s)

\* Every report tells the same story.
ReportsTally == PeriodsTellTheYear /\ ReportsAgree

\* The summary cards are what the guide says they are: the card of the benefits
\* shows benefits, planned and actual.
CardsTellBenefits ==
  \A y \in Years : PortfolioSummary(Projects, y).benefits
                     = [s \in Scenarios |-> Benefits(InYear(values, y), s)]

\* The net row of the value bridge is the net value of its cases.
NetRowIsNet == \A s \in Scenarios : NetRow(s) = PortfolioNet(s)
===============================================================================
