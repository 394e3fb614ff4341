-------------------------- MODULE InitiativeWorkbook --------------------------
(* An initiative leaves the system as an XLSX file and comes back as one
   (services/initiative_workbook.py, services/financial_workbook.py and their
   callers in services/initiative.py and services/financial.py).  Three formats:

   "alchemist"  what the export writes: a column for every month of the horizon,
                a row for every cost line and lane, the submitted status updates;
   "template"   the empty form, filled in by hand: periods as they are entered;
   "financial"  the cost lines of the grid alone, one row each.

   A handler is a sequence of database calls; the operators ...Steps are the
   states after each call, and a handler may stop after any of them.  Amounts
   are whole dollars.  All cost lines have one category, as in PlanData.tla. *)
EXTENDS Lists

CONSTANTS
  Books,          \* initiatives, one that is there and those an import may create
  BookStarts,     \* cost lines it may have to begin with
  Authors,        \* users who manage initiatives
  BookLines,      \* cost lines a form may enter
  BookWindows,    \* planned periods, as months counted from year 0
  BookUpdates,    \* status updates: a summary and a colour
  FiscalYears,    \* least number of years of a workbook; 5 in the code
  BookForms,      \* templates a user may fill in
  MaxBookAmount,  \* bound: amounts of a line
  MaxEdits        \* bound: edits by people, initiatives created, handlers stopped

VARIABLES
  book,           \* book[b]: an initiative and what belongs to it
  sheet,          \* the file in somebody's hands
  inflation,      \* recurring_cost_inflation_mode
  edits           \* history: edits so far

bookVars == <<book, sheet, inflation, edits>>

NoPeriod == [start |-> 0, end |-> 0]
Unset == -1                                   \* amount_actual is null

PlannedPeriods == BookWindows \cup {NoPeriod}

\* Quarter and month are 0 where the line is of the year, or of its quarter.
Line == [name : Nat, recurring : BOOLEAN, year : Nat, quarter : 0 .. 4, month : 0 .. 12,
         plan : Nat, actual : Nat \cup {Unset}, inflated : BOOLEAN]

Colours == {"red", "amber", "green"}

\* "default_fixed" is default_on where lines may not override it.
Modes == {"manual_entry", "optional_per_line", "default_on", "default_fixed"}

ASSUME WorkbookAssumption ==
  /\ BookStarts \subseteq Seq(Line) /\ BookLines \subseteq Line
  /\ BookWindows \subseteq [start : Nat \ {0}, end : Nat \ {0}] \cup {NoPeriod}
  /\ BookUpdates \subseteq [summary : STRING, rag : Colours]
  /\ BookForms \subseteq [line : Line, window : PlannedPeriods, rag : Colours \cup {""},
                          valid : BOOLEAN]
  /\ FiscalYears \in Nat \ {0}

Blank == [live |-> FALSE, owner |-> "", units |-> FALSE, window |-> NoPeriod, locked |-> FALSE,
          lines |-> << >>, benefits |-> FALSE, updates |-> << >>, headline |-> "green",
          items |-> [kpi |-> "none", risk |-> "none", milestone |-> "none"]]

NoSheet == [format |-> "none"]

WorkbookInit ==
  /\ \E b \in Books, lines \in BookStarts :
       book = [c \in Books |-> IF c = b THEN [Blank EXCEPT !.live = TRUE, !.lines = lines] ELSE Blank]
  /\ sheet = NoSheet
  /\ inflation = "manual_entry"
  /\ edits = 0

-------------------------------------------------------------------------------
(* Cost lines and their periods: year, quarter or 0, month or 0. *)

KeyOf(r) == <<r.recurring, r.year, r.quarter, r.month>>

SameKey(r, s) == KeyOf(r) = KeyOf(s)

MonthKey(r) ==
  12 * r.year + IF r.month # 0 THEN r.month
                ELSE IF r.quarter # 0 THEN 3 * (r.quarter - 1) + 1 ELSE 1

Inside(w, r) == MonthKey(r) \in w.start .. w.end

\* normalize_period: what lies outside goes to the first month.
PlacedIn(w, r) ==
  IF Inside(w, r) THEN r
  ELSE [r EXCEPT !.year = (w.start - 1) \div 12, !.month = ((w.start - 1) % 12) + 1, !.quarter = 0]

\* What a line has in a lane: an unset actual is 0.
InLane(r, lane) == IF lane = "actual" /\ r.actual = Unset THEN 0 ELSE r[lane]

Lane(lines, lane) == [k \in DOMAIN lines |-> InLane(lines[k], lane)]

Planned(lines) == Total(Lane(lines, "plan"))

\* The lines of one key: their sum, under the name that came first.
Merged(group) ==
  [group[1] EXCEPT
     !.plan = Planned(group),
     !.actual = IF \A r \in ToSet(group) : r.actual = Unset THEN Unset
                ELSE Total(Lane(group, "actual")),
     !.inflated = \E r \in ToSet(group) : r.inflated]

OfKey(rows, key) == Among(rows, {r \in ToSet(rows) : KeyOf(r) = key})

MergedByKey(rows) ==
  LET keys == Distinct([k \in DOMAIN rows |-> KeyOf(rows[k])])
  IN  [k \in DOMAIN keys |-> Merged(OfKey(rows, keys[k]))]

Placed(w, rows) ==
  IF w = NoPeriod THEN rows ELSE MergedByKey([k \in DOMAIN rows |-> PlacedIn(w, rows[k])])

\* _prepare_cost_line_payloads: by year, from the first one of the name.  The
\* rate of the model is 100 per cent.
Doubled(amount, times) ==
  LET upTo[k \in 0 .. times] == IF k = 0 THEN amount ELSE 2 * upTo[k - 1]
  IN  upTo[times]

Prepared(rows) ==
  LET first(r) == Min({s.year : s \in {s \in ToSet(rows) : s.inflated /\ s.name = r.name}})
  IN  [k \in DOMAIN rows |->
         IF rows[k].inflated
         THEN [rows[k] EXCEPT !.plan = Doubled(@, rows[k].year - first(rows[k]))]
         ELSE rows[k]]

\* A line that asks for nothing is inflated where the tenant says so.
Asking(rows) ==
  [k \in DOMAIN rows |->
     [rows[k] EXCEPT !.inflated = rows[k].recurring /\ inflation \in {"default_on", "default_fixed"}]]

IsNothing(r) == r.plan = 0 /\ r.actual \in {Unset, 0}

Without(lines, r) == Among(lines, {s \in ToSet(lines) : ~SameKey(r, s)})

\* upsert_cost_lines_batch, after each call: the key is emptied, then written.
RowSteps(steps, r) ==
  LET emptied == Append(steps, Without(Last(steps), r))
  IN  IF IsNothing(r) THEN emptied ELSE Append(emptied, Append(Last(emptied), r))

WriteSteps(lines, rows) ==
  LET upTo[k \in 0 .. Len(rows)] ==
        IF k = 0 THEN <<lines>> ELSE RowSteps(upTo[k - 1], rows[k])
  IN  upTo[Len(rows)]

Written(lines, rows) == Last(WriteSteps(lines, rows))

\* Refused (400): a line inflated before the tenant returned to manual entry, and one
\* that is not where every recurring line must be.
IsRefused(rows) ==
  \/ inflation = "manual_entry" /\ \E r \in ToSet(rows) : r.inflated
  \/ inflation = "default_fixed" /\ \E r \in ToSet(rows) : r.recurring /\ ~r.inflated

IsSettled(b) == b.locked \/ b.window = NoPeriod \/ \A r \in ToSet(b.lines) : Inside(b.window, r)

\* The grid is gone when the refusal comes.
Rewritten(rows) == IF IsRefused(rows) THEN << >> ELSE Written(<< >>, Prepared(rows))

\* _migrate_existing_grid_to_planned_window, in every read of the grid.
Moved(b) ==
  IF IsSettled(b) THEN b
  ELSE [b EXCEPT !.benefits = FALSE, !.lines = Rewritten(Placed(b.window, b.lines))]

-------------------------------------------------------------------------------
(* Writing a file. *)

\* list_cost_lines: by year, quarter (nulls last) and name.
Earlier(r, s) ==
  LET late(x) == IF x.quarter = 0 THEN 5 ELSE x.quarter
  IN  \/ r.year < s.year
      \/ r.year = s.year /\ late(r) < late(s)
      \/ r.year = s.year /\ late(r) = late(s) /\ r.name < s.name

Inserted(sorted, r) ==
  LET after == {s \in ToSet(sorted) : Earlier(r, s)}
  IN  Append(Among(sorted, ToSet(sorted) \ after), r) \o Among(sorted, after)

Listed(lines) ==
  LET upTo[k \in 0 .. Len(lines)] ==
        IF k = 0 THEN << >> ELSE Inserted(upTo[k - 1], lines[k])
  IN  upTo[Len(lines)]

\* _export_years
ExportYears(b) ==
  LET named == {r.year : r \in ToSet(b.lines)} \cup
               IF b.window = NoPeriod THEN {}
               ELSE {(b.window.start - 1) \div 12, (b.window.end - 1) \div 12}
      from  == IF named = {} THEN 1 ELSE Min(named)
      to    == IF named = {} THEN FiscalYears ELSE Max(named \cup {from + FiscalYears - 1})
  IN  [k \in 1 .. to - from + 1 |-> from + k - 1]

\* Column k of the months, k = 1 .. 12 * Len(years) (_period_columns).
YearOf(years, k) == years[((k - 1) \div 12) + 1]

MonthOf(k) == ((k - 1) % 12) + 1

\* Mistake: the share of a month in a quarter is a quarter.
BadShare(r, amount, y, m) ==
  IF r.year # y THEN 0
  ELSE IF r.month # 0 THEN IF r.month = m THEN 12 * amount ELSE 0
  ELSE IF r.quarter = 0 THEN amount
  ELSE IF r.quarter = ((m - 1) \div 3) + 1 THEN 3 * amount ELSE 0

\* _cost_month_value, in twelfths of a dollar: a month has all of its own line, a
\* third of its quarter's and a twelfth of its year's.
Share(r, amount, y, m) ==
  IF r.year # y THEN 0
  ELSE IF r.month # 0 THEN IF r.month = m THEN 12 * amount ELSE 0
  ELSE IF r.quarter = 0 THEN amount
  ELSE IF r.quarter = ((m - 1) \div 3) + 1 THEN 4 * amount ELSE 0

Twelfths(group, lane, y, m) ==
  Total([k \in DOMAIN group |-> Share(group[k], InLane(group[k], lane), y, m)])

\* _million: millions with six decimals, a tie to the even neighbour.
Rounded(t) ==
  LET down == t \div 12
      rest == t % 12
  IN  IF rest < 6 \/ (rest = 6 /\ down % 2 = 0) THEN down ELSE down + 1

\* The names and kinds of the lines, in the order they first appear.
GroupOf(r) == <<r.name, r.recurring>>

Groups(rows) == Distinct([k \in DOMAIN rows |-> GroupOf(rows[k])])

\* _alchemist_cost_rows
Cells(group, lane, years) ==
  [k \in 1 .. 12 * Len(years) |-> Rounded(Twelfths(group, lane, YearOf(years, k), MonthOf(k)))]

CostRow(g, group, years) ==
  [name |-> g[1], recurring |-> g[2],
   plan |-> Cells(group, "plan", years), actual |-> Cells(group, "actual", years)]

OfGroup(rows, g) == Among(rows, {r \in ToSet(rows) : GroupOf(r) = g})

CostRows(rows, years) ==
  LET gs == Groups(rows)
  IN  [k \in DOMAIN gs |-> CostRow(gs[k], OfGroup(rows, gs[k]), years)]

\* A KPI only if it has entries, and without them; risks open and milestones not
\* started.
ItemRows(items) ==
  [kpi |-> items.kpi = "worked", risk |-> items.risk # "none", milestone |-> items.milestone # "none"]

\* Submitted updates are listed newest first.
UpdateRows(updates) == Reverse(updates)

\* build_initiative_export: no owner and no business unit.
Workbook(b, of) ==
  [format |-> "alchemist", of |-> of, valid |-> TRUE, rag |-> "",
   window |-> b.window, years |-> ExportYears(b),
   costs |-> CostRows(Listed(b.lines), ExportYears(b)), benefits |-> b.benefits,
   updates |-> UpdateRows(b.updates), items |-> ItemRows(b.items)]

\* _unique_cost_lines: the first of the lines that share name, period and kind.
Once(rows) ==
  LET keys == Distinct([k \in DOMAIN rows |-> <<rows[k].name, KeyOf(rows[k])>>])
  IN  [k \in DOMAIN keys |->
         Among(rows, {r \in ToSet(rows) : <<r.name, KeyOf(r)>> = keys[k]})[1]]

FinancialBook(b) ==
  [format |-> "financial", of |-> "", valid |-> TRUE, lines |-> Once(Listed(b.lines))]

\* The form, filled in by hand with one cost line.
Template(form) ==
  [format |-> "template", of |-> "", valid |-> form.valid, rag |-> form.rag,
   window |-> form.window, lines |-> <<form.line>>, benefits |-> FALSE, updates |-> << >>,
   items |-> [kpi |-> TRUE, risk |-> TRUE, milestone |-> TRUE]]

-------------------------------------------------------------------------------
(* Reading a file. *)

\* _parse_alchemist_costs: the plan lane first, so that an actual amount nobody
\* entered reads as zero.
ReadCell(row, years, k) ==
  [name |-> row.name, recurring |-> row.recurring, year |-> YearOf(years, k),
   quarter |-> 0, month |-> MonthOf(k), plan |-> row.plan[k],
   actual |-> row.actual[k], inflated |-> FALSE]

ParsedRow(row, years) ==
  LET columns == Among([k \in DOMAIN row.plan |-> k],
                       {k \in DOMAIN row.plan : ~IsNothing(ReadCell(row, years, k))})
  IN  [j \in DOMAIN columns |-> ReadCell(row, years, columns[j])]

\* The columns of a form, and of a financial file, ask for no inflation.
EnteredLines(lines) == [k \in DOMAIN lines |-> [lines[k] EXCEPT !.inflated = FALSE]]

ParsedLines(f) ==
  IF f.format # "alchemist" THEN EnteredLines(f.lines)
  ELSE FlattenSeq([k \in DOMAIN f.costs |-> ParsedRow(f.costs[k], f.years)])

\* update_financial_grid under the lock: lines whose key is there, with its name
\* and its planned amount.
KeepingThePlan(lines, rows) ==
  LET now      == Listed(lines)
      known(r) == Among(now, {s \in ToSet(now) : SameKey(r, s)})
      kept     == Among(rows, {r \in ToSet(rows) : known(r) # << >>})
  IN  [k \in DOMAIN kept |-> [kept[k] EXCEPT !.name = Last(known(kept[k])).name,
                                             !.plan = Last(known(kept[k])).plan]]

Allowed(b, rows) == IF b.locked THEN KeepingThePlan(b.lines, rows) ELSE rows

RowsFor(b, f) == Allowed(b, Prepared(Asking(Placed(b.window, ParsedLines(f)))))

\* update_financial_grid: benefit values have no table to go to any more; the
\* answer is a read of the grid.
SaveSteps(b, writes) ==
  Append([k \in DOMAIN writes |-> [b EXCEPT !.lines = writes[k]]],
         Moved([b EXCEPT !.lines = Last(writes)]))

GridSteps(b, f) == SaveSteps(b, WriteSteps(b.lines, RowsFor(b, f)))

\* replace_financial_grid
ReplaceSteps(b, f) ==
  LET noCosts == [b EXCEPT !.lines = << >>]
      empty   == [noCosts EXCEPT !.benefits = FALSE]
  IN  <<b, noCosts>> \o GridSteps(empty, f)

\* Nothing is written, and nothing deleted, where the file has no amount.
FinancialSteps(b, f) ==
  IF ParsedLines(f) = << >> /\ ~f.benefits THEN <<b>>
  ELSE IF f.format = "alchemist" THEN ReplaceSteps(b, f) ELSE GridSteps(b, f)

\* Mistake: what the initiative has is not looked up.
BadNewUpdates(b, f) == f.updates

\* _import_status_updates: those whose summary the initiative does not have yet,
\* read once.
NewUpdates(b, f) ==
  Among(f.updates, {u \in ToSet(f.updates) :
                      u.summary \notin {v.summary : v \in ToSet(b.updates)}})

\* create_update: the row, then the headline; after j of these calls.
UpdateSteps(b, f) ==
  LET new == NewUpdates(b, f)
  IN  [j \in 1 .. 2 * Len(new) + 1 |->
         [b EXCEPT !.updates = @ \o SubSeq(new, 1, j \div 2),
                   !.headline = IF j < 3 THEN @ ELSE new[(j - 1) \div 2].rag]]

\* _apply_workbook_metadata and update_initiative: the export names no owner, so
\* that the importer becomes the owner, and no business unit, so that they are
\* taken away; a template sets the headline.  (The stage a template names is
\* StageTransitionAllowed of Governance.tla.)
Overview(b, f, user) ==
  [b EXCEPT !.owner = IF f.format = "alchemist" THEN user ELSE @,
            !.units = FALSE,
            !.window = IF f.window = NoPeriod THEN @ ELSE f.window,
            !.headline = IF f.rag = "" THEN @ ELSE f.rag]

\* import_into_existing_initiative; KPIs, risks and milestones are not read.
WithUpdates(steps, f) == steps \o UpdateSteps(Last(steps), f)

ImportSteps(b, f, user) ==
  WithUpdates(<<b>> \o FinancialSteps(Overview(b, f, user), f), f)

\* A form has entries for its KPIs.
ReadItem(f, x) ==
  IF ~f.items[x] THEN "none"
  ELSE IF x = "kpi" /\ f.format = "template" THEN "worked" ELSE "new"

WithItems(steps, f) ==
  LET kpis  == [Last(steps) EXCEPT !.items.kpi = ReadItem(f, "kpi")]
      risks == [kpis EXCEPT !.items.risk = ReadItem(f, "risk")]
  IN  steps \o <<kpis, risks, [risks EXCEPT !.items.milestone = ReadItem(f, "milestone")]>>

\* import_template: the row, its grid, its KPIs, risks and milestones, updates.
CreateSteps(f, user) ==
  LET created == [Blank EXCEPT !.live = TRUE, !.window = f.window,
                               !.owner = IF f.format = "alchemist" THEN user ELSE ""]
  IN  WithUpdates(WithItems(<<created>> \o FinancialSteps(created, f), f), f)

-------------------------------------------------------------------------------
(* Actions *)

Store(b, record) ==
  /\ \A r \in ToSet(record.lines) : r.plan <= MaxBookAmount /\ r.actual <= MaxBookAmount
  /\ book' = [book EXCEPT ![b] = record]
  /\ UNCHANGED <<sheet, inflation>>

Edit == edits < MaxEdits /\ edits' = edits + 1

\* create_cost_line: nothing looks for a line with the same key.
EnterLine(b, line) ==
  /\ Edit /\ ~book[b].locked
  /\ Store(b, [book[b] EXCEPT !.lines = Append(@, Asking(<<line>>)[1])])

EnterBenefits(b) ==
  /\ Edit /\ ~book[b].locked
  /\ Store(b, [book[b] EXCEPT !.benefits = TRUE])

PlanPeriod(b, w) == Edit /\ Store(b, [book[b] EXCEPT !.window = w])

\* The plan becomes bankable.
LockPlan(b) == Edit /\ Store(b, [book[b] EXCEPT !.locked = TRUE])

Post(b, update) ==
  Edit /\ Store(b, [book[b] EXCEPT !.updates = Append(@, update), !.headline = update.rag])

\* delete_update leaves the headline.
Unpost(b, k) == Edit /\ Store(b, [book[b] EXCEPT !.updates = RemoveAt(@, k)])

\* People work on what belongs to the initiative: business units are assigned,
\* KPIs measured, risks closed, milestones reached.
Work(b) ==
  Edit /\ Store(b, [book[b] EXCEPT !.units = TRUE, !.items = [x \in DOMAIN @ |-> "worked"]])

SetInflation(mode) ==
  /\ Edit
  /\ inflation' = mode
  /\ UNCHANGED <<book, sheet>>

\* export_initiative_workbook: the grid is read, and moved, before the file is
\* written; where that is refused there is no file.
ExportInitiative(b) ==
  /\ book' = [book EXCEPT ![b] = Moved(book[b])]
  /\ sheet' = IF ~IsSettled(book[b]) /\ IsRefused(Placed(book[b].window, book[b].lines))
              THEN sheet ELSE Workbook(book'[b], b)
  /\ UNCHANGED <<inflation, edits>>

ExportFinancials(b) ==
  /\ sheet' = FinancialBook(book[b])
  /\ UNCHANGED <<book, inflation, edits>>

FillTemplate(form) ==
  /\ Edit
  /\ sheet' = Template(form)
  /\ UNCHANGED <<book, inflation>>

\* A handler runs to its end or stops after one of its calls.
Runs(b, steps) ==
  \/ Store(b, Last(steps)) /\ UNCHANGED edits
  \/ Edit /\ \E k \in 2 .. Len(steps) - 1 : Store(b, steps[k])

\* A file with errors, or of another initiative, is refused before any write.
Accepts(b, f) == f.valid /\ f.of \in {"", b}

ImportInto(b, user) ==
  /\ sheet.format \in {"alchemist", "template"}
  /\ Accepts(b, sheet)
  /\ Runs(b, ImportSteps(book[b], sheet, user))

\* import_workbook of the financial service
ImportFinancials(b) ==
  /\ sheet.format = "financial"
  /\ Runs(b, GridSteps(book[b], sheet))

\* Every attempt makes an initiative of its own.
ImportTemplate(b, user) ==
  /\ sheet.format \in {"alchemist", "template"}
  /\ ~book[b].live /\ sheet.valid
  /\ Edit
  /\ \E record \in ToSet(CreateSteps(sheet, user)) : Store(b, record)

WorkbookNext ==
  \/ \E b \in Books :
       /\ book[b].live
       /\ \/ \E line \in BookLines : EnterLine(b, line)
          \/ EnterBenefits(b)
          \/ \E w \in BookWindows : PlanPeriod(b, w)
          \/ LockPlan(b)
          \/ \E u \in BookUpdates : Post(b, u)
          \/ \E k \in DOMAIN book[b].updates : Unpost(b, k)
          \/ Work(b)
          \/ ExportInitiative(b)
          \/ ExportFinancials(b)
          \/ \E user \in Authors : ImportInto(b, user)
          \/ ImportFinancials(b)
  \/ \E b \in Books, user \in Authors : ImportTemplate(b, user)
  \/ \E form \in BookForms : FillTemplate(form)
  \/ \E mode \in Modes : SetInflation(mode)

WorkbookSpec == WorkbookInit /\ [][WorkbookNext]_bookVars

-------------------------------------------------------------------------------
(* Properties *)

Items(states) == [kpi : states, risk : states, milestone : states]

Initiative ==
  [live : BOOLEAN, owner : Authors \cup {""}, units : BOOLEAN, window : PlannedPeriods,
   locked : BOOLEAN, lines : Seq(Line), benefits : BOOLEAN, updates : Seq(BookUpdates),
   headline : Colours, items : Items({"none", "new", "worked"})]

\* An exported file of n months.
Exported(n) ==
  [format : {"alchemist"}, of : Books, valid : {TRUE}, rag : {""}, window : PlannedPeriods,
   years : Seq(Nat),
   costs : Seq([name : Nat, recurring : BOOLEAN, plan : [1 .. n -> Nat], actual : [1 .. n -> Nat]]),
   benefits : BOOLEAN, updates : Seq(BookUpdates), items : Items(BOOLEAN)]

Filled ==
  [format : {"template"}, of : {""}, valid : BOOLEAN, rag : Colours \cup {""}, window : PlannedPeriods,
   lines : Seq(Line), benefits : {FALSE}, updates : {<< >>}, items : Items({TRUE})]

Entered == [format : {"financial"}, of : {""}, valid : {TRUE}, lines : Seq(Line)]

\* Every initiative has a record of its type, and a file the columns of its years.
WorkbookTypeOK ==
  /\ book \in [Books -> Initiative]
  /\ \/ sheet \in {NoSheet} \cup Filled \cup Entered
     \/ sheet.format = "alchemist" /\ sheet \in Exported(12 * Len(sheet.years))
  /\ inflation \in Modes
  /\ edits \in Nat

\* Every share of a line in a month is whole dollars, and no two names share a
\* month and a kind unless the import adds them up.
IsExact(b) ==
  /\ \A r \in ToSet(b.lines) : r.plan % (IF r.month # 0 THEN 1 ELSE IF r.quarter # 0 THEN 3 ELSE 12) = 0
  /\ \/ b.window # NoPeriod
     \/ \A r, s \in ToSet(b.lines) : r.name # s.name => r.recurring # s.recurring \/ r.year # s.year

SameLines(a, b) == ToSet(a.lines) = ToSet(b.lines) /\ Len(a.lines) = Len(b.lines)

Settles(b, once, of, user) ==
  /\ SameLines(once, Last(ImportSteps(once, Workbook(once, of), user)))
  /\ (~b.locked /\ IsExact(b)) => Planned(once.lines) = Planned(b.lines)

\* Importing an initiative's export into it settles at once: exporting and
\* importing it again changes no cost line, unless the tenant inflates by default;
\* and an unlocked plan keeps its planned cost to the dollar where the amounts
\* divide (build_initiative_export against import_into_existing_initiative, which
\* share no code and agree on columns, lanes, names, zeros and scale by custom).
ReimportSettles ==
  \A b \in Books, user \in Authors :
    (/\ book[b].live /\ inflation = "manual_entry"
     /\ sheet.format = "alchemist" /\ sheet.of = b /\ sheet = Workbook(book[b], b))
    => Settles(book[b], Last(ImportSteps(book[b], sheet, user)), b, user)

Summaries(b) == {u.summary : u \in ToSet(b.updates)}

EqualsWhole(retried, whole) ==
  /\ SameLines(retried, whole)
  /\ retried.owner = whole.owner /\ retried.window = whole.window
  /\ retried.benefits = whole.benefits
  /\ Summaries(retried) = Summaries(whole)
  /\ Len(retried.updates) <= Len(whole.updates)

RetriesComplete(steps, user) ==
  \A stopped \in ToSet(steps) :
    EqualsWhole(Last(ImportSteps(stopped, sheet, user)), Last(steps))

\* An import of an exported file that stopped after any of its calls is run again
\* by the same user: the initiative then has the cost lines, the owner, the period
\* and the status updates of an import that never stopped, none of them twice,
\* under the lock too.
RetryCompletes ==
  \A b \in Books, user \in Authors :
    (book[b].live /\ sheet.format = "alchemist" /\ sheet.of = b)
    => RetriesComplete(ImportSteps(book[b], sheet, user), user)
===============================================================================
