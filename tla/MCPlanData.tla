------------------------------ MODULE MCPlanData ------------------------------
(* Small calendars for PlanData.tla and small workbooks for
   InitiativeWorkbook.tla; a behaviour is of one of them.  The grids come in two
   parts: two months with every kind of amount and no inflation, and three years of
   planned costs that the settings may inflate.  So do the workbooks: one initiative
   that people edit, and one that stays as it is next to one made from files. *)
EXTENDS PlanData, InitiativeWorkbook

CONSTANT i1   \* the initiative

\* No planned period, the last two months, or a period that ends before it starts.
MCWindows == {NoWindow, [start |-> 2, end |-> 3], [start |-> 2, end |-> 1]}

\* Every month is a year of its own.
MCYear == [m \in Months |-> m]
MCGrowth == [k \in 0 .. 2 |-> k + 1]

L(n, r, y, q, m, p, a) == [name |-> n, recurring |-> r, year |-> y, quarter |-> q,
                           month |-> m, plan |-> p, actual |-> a, inflated |-> FALSE]
MCFirst == "first"
MCBookLines == {L(1, FALSE, 1, 1, 0, 12, -1), L(2, FALSE, 1, 0, 2, 5, 3)}
MCBookStarts == {<<L(1, TRUE, 1, 0, 2, 4, -1), L(2, TRUE, 2, 0, 1, 4, -1)>>,
                 <<L(1, FALSE, 1, 0, 0, 24, 0)>>}
MCBookWindows == {NoPeriod, [start |-> 13, end |-> 14]}
MCBookUpdates == {[summary |-> "a", rag |-> "red"], [summary |-> "b", rag |-> "green"]}
MCBookForms ==
  {[line |-> L(2, TRUE, 1, 2, 0, 7, 2), window |-> [start |-> 13, end |-> 14], rag |-> "red", valid |-> TRUE],
   [line |-> L(2, TRUE, 1, 2, 0, 7, 2), window |-> NoPeriod, rag |-> "", valid |-> FALSE]}

VARIABLE part
mcVars == <<part, vars, bookVars>>

MCInit == /\ part \in {"grid", "years", "workbook", "copies"}
          /\ PlanInit /\ WorkbookInit
          /\ book[MCFirst].live
          /\ part # "workbook" => book[MCFirst].lines[1].recurring

WorkbookPart ==
  /\ WorkbookNext
  /\ part = "workbook" => \A b \in Books : book'[b].live = book[b].live
  /\ part = "copies" => book'[MCFirst] = book[MCFirst]
  /\ part = "copies" => edits' = edits \/ sheet' # sheet \/ \E b \in Books : book'[b].live # book[b].live

\* The lock is switched where there is a version; without one it locks nothing.
LockSettingMatters == ledger[i1] = << >> => planLock' = planLock

\* The values of the Actuals scenario are in no property: they stay 0.
GridPart ==
  /\ PlanNext
  /\ LockSettingMatters
  /\ grid'[i1].actual = 0
  /\ part = "grid" => /\ inflationMode' = inflationMode
                      /\ \A r \in ToSet(grid'[i1].costs) : r.month # 3
  /\ part = "years" => /\ ledger' = ledger /\ grid'[i1].plan = 0
                       /\ \A r \in ToSet(grid'[i1].costs) : r.actual = NoActual

MCNext ==
  /\ UNCHANGED part
  /\ IF part \in {"grid", "years"} THEN GridPart ELSE UNCHANGED vars
  /\ IF part \notin {"grid", "years"} THEN WorkbookPart ELSE UNCHANGED bookVars

MCSpec == MCInit /\ [][MCNext]_mcVars
===============================================================================
