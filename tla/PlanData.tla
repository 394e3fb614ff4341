------------------------------- MODULE PlanData -------------------------------
(***************************************************************************)
(* The financial plan an initiative is edited in, under the bankable-plan  *)
(* lock.  The plan versions are those of PlanLedger, which Governance.tla  *)
(* implements; this module adds what a version freezes and who still       *)
(* writes to it: the grid form, the cost-line form, the workbook imports,  *)
(* the workbook export, and the planned dates that every legacy read of    *)
(* the grid moves costs into.                                              *)
(*                                                                         *)
(* A grid holds cost lines and metric values.  One recurring cost category *)
(* stands for all, so that the key of a line is its month.  "plan" stands  *)
(* for the Plan Base and Plan High values, "actual" for those of the       *)
(* Actuals scenario; 0 is none.  The benefit lines the values belong to    *)
(* are in BenefitLines.tla.                                                *)
(*                                                                         *)
(* A line may be inflated: what prepares it for the database multiplies    *)
(* its planned amount by the growth since the first inflated year of the   *)
(* batch, each time it does.  All inflated lines have one rate.            *)
(*                                                                         *)
(* A handler that fails keeps the database calls it completed; an          *)
(* operator ...Outcomes is the set of grids a handler may leave.           *)
(***************************************************************************)
EXTENDS PlanLedger, FiniteSets, Lists

CONSTANTS
  Months,        \* 1 .. last month of the calendar
  Amounts,       \* planned amounts and values a caller may enter
  Year,          \* Year[m]: the year of month m
  Growth,        \* Growth[k]: what k years multiply an inflated amount by
  Asks,          \* what a caller may say of a line's inflation
  MaxAmount,     \* bound: planned cost merged into one line
  MaxLines,      \* bound: cost lines of an initiative
  MaxPayload,    \* bound: cost lines of one request
  MaxVersions,   \* bound: versions of a plan
  Windows,       \* planned periods [start, end] an initiative may be given; no code orders the dates
  MayFail        \* whether a handler may fail between two database calls

\* A planned period that is not set: planned_start or planned_end is null.
NoWindow == [start |-> 0, end |-> 0]

\* amount_actual of a cost line: null, zero, or a positive amount.
NoActual   == 0
ZeroActual == 1
SomeActual == 2

\* inflation_enabled of a cost line; null in a request that does not say.
Flags == {"on", "off"}
Unasked == "unset"

CostLine == [month : Months, plan : 0 .. MaxAmount, actual : {NoActual, ZeroActual, SomeActual},
             inflated : Flags]

\* recurring_cost_inflation_mode; "default_fixed" is default_on where lines may
\* not override it.
InflationModes == {"manual_entry", "optional_per_line", "default_on", "default_fixed"}

ASSUME DataAssumption ==
  /\ IsFiniteSet(Months) /\ Months = 1 .. Cardinality(Months)
  /\ Amounts \subseteq 0 .. MaxAmount /\ Asks \subseteq Flags \cup {Unasked}
  /\ Year \in [Months -> Nat]
  /\ \A m, n \in Months : Year[n] =< Year[m] => Growth[Year[m] - Year[n]] \in Nat \ {0}
  /\ MaxAmount \in Nat /\ MaxLines \in Nat /\ MaxPayload \in Nat /\ MaxVersions \in Nat
  /\ Windows \subseteq [start : Months, end : Months] \cup {NoWindow}
  /\ MayFail \in BOOLEAN

VARIABLES
  planLock,       \* plan_lock_on_approval
  inflationMode,  \* recurring_cost_inflation_mode
  window,         \* window[i]: planned period of initiative i
  grid            \* grid[i]: the rows the plan is edited in

vars == <<ledger, planLock, inflationMode, window, grid>>

EmptyGrid == [costs |-> << >>, plan |-> 0, actual |-> 0]

\* _financial_lock_state
Locked(i) == planLock /\ ledger[i] # << >>

-------------------------------------------------------------------------------
(* Cost lines *)

OtherMonths(costs, m) == Among(costs, {r \in ToSet(costs) : r.month # m})

OfMonth(costs, m) == Among(costs, {r \in ToSet(costs) : r.month = m})

PlannedCost(costs) ==
  LET upTo[k \in 0 .. Len(costs)] == IF k = 0 THEN 0 ELSE upTo[k - 1] + costs[k].plan
  IN  upTo[Len(costs)]

\* _resolve_cost_inflation: what a line is written with, where it is not refused (400).
Resolved(r) ==
  IF r.inflated # Unasked THEN r
  ELSE [r EXCEPT !.inflated = IF inflationMode \in {"default_on", "default_fixed"}
                              THEN "on" ELSE "off"]

IsRefusedLine(r) ==
  \/ inflationMode = "manual_entry" /\ r.inflated = "on"
  \/ inflationMode = "default_fixed" /\ r.inflated = "off"

RefusesOne(rows) == \E r \in ToSet(rows) : IsRefusedLine(r)

InflatedYears(rows) == {Year[r.month] : r \in {r \in ToSet(rows) : r.inflated = "on"}}

\* Line r of a batch: by the years since the first inflated one.
Inflated(rows, r) ==
  IF r.inflated = "on"
  THEN [r EXCEPT !.plan = @ * Growth[Year[r.month] - Min(InflatedYears(rows))]]
  ELSE r

\* _prepare_cost_line_payloads: every line is resolved, then the batch is inflated.
PreparedLines(rows) ==
  LET resolved == [k \in DOMAIN rows |-> Resolved(rows[k])]
  IN  [k \in DOMAIN rows |-> Inflated(resolved, resolved[k])]

\* What of a batch reaches the database.
Admitted(rows) == IF RefusesOne(rows) THEN << >> ELSE PreparedLines(rows)

\* _cost_row_is_zero
IsZero(r) == r.plan = 0 /\ r.actual # SomeActual

\* Mistake: the delete forgets the month.
BadUpsertLine(costs, r) == IF IsZero(r) THEN costs ELSE <<r>>

\* upsert_cost_lines_batch, one row: every line of its key is deleted, then the
\* row is inserted unless it is zero.
UpsertLine(costs, r) ==
  IF IsZero(r) THEN OtherMonths(costs, r.month) ELSE Append(OtherMonths(costs, r.month), r)

\* The first n rows.
UpsertUpTo(costs, rows, n) ==
  LET after[k \in 0 .. Len(rows)] == IF k = 0 THEN costs ELSE UpsertLine(after[k - 1], rows[k])
  IN  after[n]

UpsertLines(costs, rows) == UpsertUpTo(costs, rows, Len(rows))

\* The lines of month m are deleted one by one.
Deletions(costs, m) ==
  {Among(costs, ToSet(costs) \ S) : S \in SUBSET {r \in ToSet(costs) : r.month = m}}

\* What a batch that fails may leave: some rows done, and some or all lines of the
\* next one deleted.
InterruptedUpserts(costs, rows) ==
  IF ~ MayFail THEN {}
  ELSE UNION {Deletions(UpsertUpTo(costs, rows, k - 1), rows[k].month) : k \in DOMAIN rows}

\* upsert_locked_actual_cost_lines_batch, one row: the actual amount of every
\* line of its key, or a line without a plan.
UpsertActual(costs, r) ==
  IF \E k \in DOMAIN costs : costs[k].month = r.month
  THEN [k \in DOMAIN costs |->
          IF costs[k].month = r.month THEN [costs[k] EXCEPT !.actual = r.actual] ELSE costs[k]]
  ELSE IF r.actual = SomeActual THEN Append(costs, [r EXCEPT !.plan = 0]) ELSE costs

UpsertActualsUpTo(costs, rows, n) ==
  LET after[k \in 0 .. Len(rows)] == IF k = 0 THEN costs ELSE UpsertActual(after[k - 1], rows[k])
  IN  after[n]

-------------------------------------------------------------------------------
(* The planned window *)

Outside(w, r) == w # NoWindow /\ r.month \notin w.start .. w.end

MonthIn(w, r) == IF Outside(w, r) THEN w.start ELSE r.month

\* The lines that fall or are moved into month m.
MovedTo(w, rows, m) == Among(rows, {r \in ToSet(rows) : MonthIn(w, r) = m})

\* Mistake: a line that is moved replaces what the first month already holds.
BadMergedLine(w, rows, m) == [Last(MovedTo(w, rows, m)) EXCEPT !.month = m]

\* The line of month m: their sum, inflated if one of them is.
MergedLine(w, rows, m) ==
  LET moved == MovedTo(w, rows, m)
  IN  [month    |-> m,
       plan     |-> PlannedCost(moved),
       actual   |-> Max({r.actual : r \in ToSet(moved)}),
       inflated |-> IF InflatedYears(moved) = {} THEN Head(moved).inflated ELSE "on"]

\* _normalize_grid_to_planned_window.  Without a period the rows stay as they are.
Normalize(w, rows) ==
  IF w = NoWindow THEN rows
  ELSE LET months == Among([m \in Months |-> m], {MonthIn(w, r) : r \in ToSet(rows)})
       IN  [k \in DOMAIN months |-> MergedLine(w, rows, months[k])]

\* delete_grid: cost lines first, then metric values, then benefit lines; row-level
\* security leaves the last two alone for a caller who does not manage the
\* financials of the initiative.
DeletedGrid(g, manages) == IF manages THEN EmptyGrid ELSE [g EXCEPT !.costs = << >>]

InterruptedDeletes(g) == IF MayFail THEN {g, [g EXCEPT !.costs = << >>]} ELSE {}

Settled(w, g) == \A r \in ToSet(g.costs) : ~ Outside(w, r)

\* _migrate_existing_grid_to_planned_window, to its end: a grid with a line outside
\* the period is deleted, values included; then its merged cost lines are prepared,
\* which inflates them again or is refused, and inserted.  The values are not.
Migrated(w, g, manages) ==
  IF Settled(w, g) THEN g
  ELSE [DeletedGrid(g, manages) EXCEPT
          !.costs = UpsertLines(<< >>, Admitted(Normalize(w, g.costs)))]

\* The same, completed or not.
MigrationOutcomes(w, g, manages) ==
  {Migrated(w, g, manages)} \cup
  IF Settled(w, g) THEN {}
  ELSE InterruptedDeletes(g) \cup
       {[DeletedGrid(g, manages) EXCEPT !.costs = c] :
          c \in InterruptedUpserts(<< >>, Admitted(Normalize(w, g.costs)))}

-------------------------------------------------------------------------------
(* Imports *)

\* The rows update_financial_grid writes to a locked grid: those whose month has
\* a line already, with the planned amount of the last such line.
KeepingPlan(costs, rows) ==
  LET known == Among(rows, {r \in ToSet(rows) : OfMonth(costs, r.month) # << >>})
  IN  [k \in DOMAIN known |->
         [known[k] EXCEPT !.plan = Last(OfMonth(costs, known[k].month)).plan]]

RowsToImport(w, g, locked, lines) ==
  LET rows == Admitted(Normalize(w, lines))
  IN  IF locked THEN KeepingPlan(g.costs, rows) ELSE rows

\* update_financial_grid, completed or not, unless a line is refused before the
\* first is written; its result is a read of the grid, which migrates it unless it
\* is locked.
ImportOutcomes(w, g, locked, lines, manages) ==
  LET rows == RowsToImport(w, g, locked, lines)
      done == [g EXCEPT !.costs = UpsertLines(@, rows)]
  IN  {[g EXCEPT !.costs = c] : c \in InterruptedUpserts(g.costs, rows)}
        \cup IF locked \/ RefusesOne(Normalize(w, lines)) THEN {done}
             ELSE MigrationOutcomes(w, done, manages)

\* replace_financial_grid
ReplaceOutcomes(w, g, locked, lines, manages) ==
  InterruptedDeletes(g) \cup ImportOutcomes(w, DeletedGrid(g, manages), locked, lines, manages)

-------------------------------------------------------------------------------
(* The grid form *)

\* update_configurable_financial_grid before the lock: cost lines, then values;
\* neither where a line is refused.
SaveOutcomes(g, lines, plan, actual) ==
  {[g EXCEPT !.costs = c] : c \in InterruptedUpserts(g.costs, Admitted(lines))}
    \cup IF RefusesOne(lines) THEN {g}
         ELSE {[costs |-> UpsertLines(g.costs, PreparedLines(lines)), plan |-> plan, actual |-> actual]}

\* Mistake: the rows are written as they came, planned amounts included.
BadLockedSaveOutcomes(g, lines, actual) ==
  {[g EXCEPT !.actual = actual, !.costs = UpsertLines(g.costs, lines)]}

\* _update_locked_configurable_actuals: values of the Actuals scenario first; then
\* a line whose inflation is refused, or with a planned amount and no actual one,
\* ends the request (400, 409), and the others set actual amounts only.
LockedSaveOutcomes(g, lines, actual) ==
  LET values  == [g EXCEPT !.actual = actual]
      refused == RefusesOne(lines) \/ \E r \in ToSet(lines) : r.actual = NoActual /\ r.plan # 0
      set     == PreparedLines(lines)
      rows    == Among(set, {r \in ToSet(set) : r.actual # NoActual})
      upTo(k) == [values EXCEPT !.costs = UpsertActualsUpTo(g.costs, rows, k)]
  IN  IF refused THEN {values}
      ELSE {upTo(k) : k \in IF MayFail THEN 0 .. Len(rows) ELSE {Len(rows)}}

-------------------------------------------------------------------------------
(* Actions *)

Request == [month : Months, plan : Amounts, actual : {NoActual, ZeroActual, SomeActual},
            inflated : Asks]

Requests == UNION {[1 .. n -> Request] : n \in 1 .. MaxPayload}

\* The bounds on a grid.
Fits(g) == Len(g.costs) =< MaxLines /\ \A r \in ToSet(g.costs) : r.plan =< MaxAmount

Write(i, outcomes) ==
  /\ \E g \in outcomes : Fits(g) /\ grid' = [grid EXCEPT ![i] = g]
  /\ UNCHANGED <<ledger, planLock, inflationMode, window>>

\* Mistake: the form saves whatever the lock says.
BadSaveGrid(i, lines, plan, actual) ==
  Write(i, SaveOutcomes(grid[i], lines, plan, actual))

SaveGrid(i, lines, plan, actual) ==
  /\ ~ Locked(i)
  /\ Write(i, SaveOutcomes(grid[i], lines, plan, actual))

SaveLockedActuals(i, lines, actual) ==
  /\ Locked(i)
  /\ Write(i, LockedSaveOutcomes(grid[i], lines, actual))

\* The financial import asks for the right to manage the financials, the import
\* of a whole initiative for the right to manage the initiative.
ImportGrid(i, lines, manages) ==
  Write(i, ImportOutcomes(window[i], grid[i], Locked(i), lines, manages))

ReplaceGrid(i, lines, manages) ==
  Write(i, ReplaceOutcomes(window[i], grid[i], Locked(i), lines, manages))

\* export_initiative_workbook: a GET for every viewer, through get_financial_grid.
ExportWorkbook(i, manages) ==
  /\ ~ Locked(i)
  /\ Write(i, MigrationOutcomes(window[i], grid[i], manages))

\* create_cost_line: one line is a batch, and its own first year.
CreateCostLine(i, r) ==
  /\ ~ Locked(i)
  /\ ~ IsRefusedLine(r)
  /\ Write(i, {[grid[i] EXCEPT !.costs = Append(@, Resolved(r))]})

\* update_cost_line: no lock is looked at; a null field leaves the column alone,
\* the inflation included, unless the request says that the line is recurring.
UpdateCostLine(i, k, r) ==
  /\ r.actual = NoActual => grid[i].costs[k].actual = NoActual
  /\ ~ IsRefusedLine(r)
  /\ Write(i, {[grid[i] EXCEPT !.costs[k] = [r EXCEPT !.inflated = f]] :
                 f \in {Resolved(r).inflated} \cup
                      IF r.inflated = Unasked THEN {grid[i].costs[k].inflated} ELSE {}})

DeleteCostLine(i, k) ==
  /\ ~ Locked(i)
  /\ Write(i, {[grid[i] EXCEPT !.costs = RemoveAt(@, k)]})

\* update_initiative with planned dates
SetWindow(i, w) ==
  /\ window' = [window EXCEPT ![i] = w]
  /\ UNCHANGED <<ledger, planLock, inflationMode, grid>>

SetPlanLock(b) ==
  /\ planLock' = b
  /\ UNCHANGED <<ledger, inflationMode, window, grid>>

\* update_reporting_settings
SetInflationMode(mode) ==
  /\ inflationMode' = mode
  /\ UNCHANGED <<ledger, planLock, window, grid>>

\* An approval writes a version, and with it the lock begins.
WriteVersion(i, s) ==
  /\ Len(ledger[i]) < MaxVersions
  /\ Lock(i, s) \/ Rebaseline(i, s)
  /\ UNCHANGED <<planLock, inflationMode, window, grid>>

PlanInit ==
  /\ Init
  /\ planLock = TRUE
  /\ inflationMode = "manual_entry"
  /\ window = [i \in Initiatives |-> NoWindow]
  /\ grid = [i \in Initiatives |-> EmptyGrid]

PlanNext ==
  \/ \E i \in Initiatives, lines \in Requests, plan, actual \in Amounts :
        SaveGrid(i, lines, plan, actual)
  \/ \E i \in Initiatives, lines \in Requests, actual \in Amounts :
        SaveLockedActuals(i, lines, actual)
  \/ \E i \in Initiatives, lines \in Requests, manages \in BOOLEAN :
        ImportGrid(i, lines, manages)
  \/ \E i \in Initiatives, lines \in Requests, manages \in BOOLEAN :
        ReplaceGrid(i, lines, manages)
  \/ \E i \in Initiatives, manages \in BOOLEAN : ExportWorkbook(i, manages)
  \/ \E i \in Initiatives, r \in Request : CreateCostLine(i, r)
  \/ \E i \in Initiatives : \E k \in DOMAIN grid[i].costs, r \in Request : UpdateCostLine(i, k, r)
  \/ \E i \in Initiatives : \E k \in DOMAIN grid[i].costs : DeleteCostLine(i, k)
  \/ \E i \in Initiatives, w \in Windows : SetWindow(i, w)
  \/ \E b \in BOOLEAN : SetPlanLock(b)
  \/ \E mode \in InflationModes : SetInflationMode(mode)
  \/ \E i \in Initiatives, s \in Triggers : WriteVersion(i, s)

PlanSpec == PlanInit /\ [][PlanNext]_vars

-------------------------------------------------------------------------------
(* Properties *)

TypeOK ==
  /\ ledger \in [Initiatives -> Seq(Entry)]
  /\ planLock \in BOOLEAN
  /\ inflationMode \in InflationModes
  /\ window \in [Initiatives -> Windows \cup {NoWindow}]
  /\ grid \in [Initiatives -> [costs : Seq(CostLine),
                               plan : Amounts \cup {0}, actual : Amounts \cup {0}]]

Imports(i)   == \E lines \in Requests, manages \in BOOLEAN : ImportGrid(i, lines, manages)
Replaces(i)  == \E lines \in Requests, manages \in BOOLEAN : ReplaceGrid(i, lines, manages)
Exports(i)   == \E manages \in BOOLEAN : ExportWorkbook(i, manages)
EditsLine(i) == \E k \in DOMAIN grid[i].costs, r \in Request : UpdateCostLine(i, k, r)

PlanOf(costs, m) == PlannedCost(OfMonth(costs, m))

SamePlan(g, h) == g.plan = h.plan /\ \A m \in Months : PlanOf(g.costs, m) = PlanOf(h.costs, m)

\* While the plan is locked, no form and no failure half way changes it: planned
\* values and benefit lines change in a replacing import only, planned costs in an
\* import or in the edit of a single cost line.
LockedPlanWriters ==
  [][\A i \in Initiatives :
       (Locked(i) /\ ~ SamePlan(grid[i], grid'[i]))
         => \/ grid'[i].plan = grid[i].plan /\ (EditsLine(i) \/ Imports(i))
            \/ Replaces(i)]_vars

\* Entering actuals under the lock leaves the plan of every month as it is, even
\* where a month holds several lines, the request is refused, or the batch fails.
ActualsKeepPlan ==
  \A i \in Initiatives, lines \in Requests, actual \in Amounts :
     Locked(i) => \A g \in LockedSaveOutcomes(grid[i], lines, actual) : SamePlan(grid[i], g)

\* An import into a locked grid never raises the planned cost of a month,
\* whatever the workbook says and wherever the planned period moves its lines.
LockedImportRaisesNoPlan ==
  \A i \in Initiatives, lines \in Requests, manages \in BOOLEAN :
     Locked(i) =>
       \A g \in ImportOutcomes(window[i], grid[i], TRUE, lines, manages), m \in Months :
          PlanOf(g.costs, m) =< PlanOf(grid[i].costs, m)

\* Neither of the two writers that a locked grid admits raises a planned cost.
LockKeepsPlan == ActualsKeepPlan /\ LockedImportRaisesNoPlan

\* Saving the form, completely or not, leaves the lines of the months that the
\* request does not name.
SaveTouchesItsMonthsOnly ==
  \A i \in Initiatives, lines \in Requests :
     ~ Locked(i) =>
       \A g \in SaveOutcomes(grid[i], lines, grid[i].plan, grid[i].actual) :
          \A m \in Months \ {r.month : r \in ToSet(lines)} :
             OfMonth(g.costs, m) = OfMonth(grid[i].costs, m)

\* Moving costs into the planned period loses none of them: unless a line is
\* refused, a migration that completes leaves at least the planned cost there was,
\* and exactly that where no line is inflated.
MigrationLosesNoCost ==
  \A i \in Initiatives, manages \in BOOLEAN :
     LET before == grid[i].costs
         after  == Migrated(window[i], grid[i], manages).costs
     IN  RefusesOne(Normalize(window[i], before)) \/
         /\ PlannedCost(after) >= PlannedCost(before)
         /\ InflatedYears(before) = {} => PlannedCost(after) = PlannedCost(before)

\* An import or an export that completes on an unlocked grid, or is refused, leaves
\* no line outside a planned period that ends after it starts, lines it did not
\* name included: the next read finds nothing to move, and nothing to inflate once
\* more.  (In a period that ends before it starts no line ever settles, and every
\* read rewrites the grid.)
MigrationSettles ==
  \A i \in Initiatives, lines \in Requests, manages \in BOOLEAN :
     window[i].start =< window[i].end =>
       LET rows     == RowsToImport(window[i], grid[i], FALSE, lines)
           imported == [grid[i] EXCEPT !.costs = UpsertLines(@, rows)]
       IN  \A g \in {grid[i], imported} : Settled(window[i], Migrated(window[i], g, manages))

\* Moving costs into the planned period loses none that it is let write, and comes
\* to an end.
MovingKeepsCosts == MigrationLosesNoCost /\ MigrationSettles

\* "After the bankable plan is locked, the approved planning structure is fixed":
\* whatever the writer.
LockedPlanFixed == [][\A i \in Initiatives : Locked(i) => SamePlan(grid[i], grid'[i])]_vars

\* Exporting an initiative returns its grid and leaves its planned values alone.
ExportKeepsPlanValues ==
  [][\A i \in Initiatives : Exports(i) => grid'[i].plan = grid[i].plan]_vars
===============================================================================
