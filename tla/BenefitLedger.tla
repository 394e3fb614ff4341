---------------------------- MODULE BenefitLedger ----------------------------
(* What one initiative realizes, period by period, against its locked plan
   (services/financial.py, repositories/financial.py).

   An import works row by row, each row a lookup and a write: a row it rejects
   is reported and skipped, a call that raises leaves the rows before it. *)
EXTENDS Naturals, FiniteSets

CONSTANTS
  Periods,      \* a granularity and a first day
  Actuals,      \* actual amounts
  MaxEntries,   \* bound on the entries
  MaxPlans      \* bound on the plan versions

ASSUME LedgerAssumption == /\ Periods # {} /\ Actuals # {}
                           /\ MaxEntries \in Nat /\ MaxPlans \in Nat

VARIABLES
  entry,        \* rows of benefit_realization_ledger
  currentPlan   \* the version of the locked bankable plan, 0: none

ledgerVars == <<entry, currentPlan>>

EntryIds == 1 .. MaxEntries
LedgerRow == [period : Periods, version : 0 .. MaxPlans, actual : Actuals,
           byHand : BOOLEAN, live : BOOLEAN]
NoEntry == [period |-> CHOOSE p \in Periods : TRUE, version |-> 0,
            actual |-> CHOOSE a \in Actuals : TRUE, byHand |-> FALSE, live |-> FALSE]

LedgerInit ==
  /\ entry = [e \in EntryIds |-> NoEntry]
  /\ currentPlan = 0

Found(rows, p) == {e \in EntryIds : rows[e].live /\ rows[e].period = p}
Room(n) == Cardinality({e \in EntryIds : ~entry[e].live}) >= n

-------------------------------------------------------------------------------
(* The plan amount of an entry is derived from the plan in force; the model
   keeps that plan's version. *)

Inserted(rows, p, actual, byHand) ==
  LET e == CHOOSE e \in EntryIds : /\ ~rows[e].live
                                   /\ \A f \in 1 .. e - 1 : rows[f].live
  IN  [rows EXCEPT ![e] = [period |-> p, version |-> currentPlan, actual |-> actual,
                           byHand |-> byHand, live |-> TRUE]]

\* The request may bring the plan amount itself: then it needs no locked plan.
CreateLedgerEntry(p, actual) ==
  /\ Room(1)
  /\ entry' = Inserted(entry, p, actual, TRUE)
  /\ UNCHANGED currentPlan

\* The plan amount of an entry stays when only its actual amount is sent.
UpdateLedgerActual(e, actual) ==
  /\ entry[e].live
  /\ entry' = [entry EXCEPT ![e].actual = actual]
  /\ UNCHANGED currentPlan

\* A request that names the period derives the amount again, unless it brings one.
MoveLedgerEntry(e, p, actual, brought) ==
  /\ entry[e].live
  /\ brought \/ currentPlan > 0
  /\ entry' = [entry EXCEPT ![e] = [period |-> p, version |-> currentPlan,
                                    actual |-> actual, byHand |-> TRUE, live |-> TRUE]]
  /\ UNCHANGED currentPlan

DeleteLedgerEntry(e) ==
  /\ entry[e].live
  /\ entry' = [entry EXCEPT ![e].live = FALSE]
  /\ UNCHANGED currentPlan

BadUpserted(rows, p, actual) == Inserted(rows, p, actual, FALSE)

\* The entry of the period, or a new one.
Upserted(rows, p, actual) ==
  IF Found(rows, p) = {}
  THEN Inserted(rows, p, actual, FALSE)
  ELSE [e \in EntryIds |->
          IF e \in Found(rows, p)
          THEN [rows[e] EXCEPT !.actual = actual, !.version = currentPlan] ELSE rows[e]]

\* maybe_single raises when a period has two entries.
LookupRaises(p) == Cardinality(Found(entry, p)) > 1

\* A file of two rows, and how many of them are written before it ends.
ImportLedgerCsv(p, q, actual, rowsDone) ==
  /\ currentPlan > 0 /\ Room(2)
  /\ ~LookupRaises(p) /\ (rowsDone = 2 => ~LookupRaises(q))
  /\ LET first == Upserted(entry, p, actual)
     IN  entry' = IF rowsDone = 1 THEN first ELSE Upserted(first, q, actual)
  /\ UNCHANGED currentPlan

\* A lock or a rebaseline: Governance. Entries keep the amounts they have.
NewPlan ==
  /\ currentPlan < MaxPlans
  /\ currentPlan' = currentPlan + 1
  /\ UNCHANGED entry

LedgerNext ==
  \/ \E p \in Periods, actual \in Actuals :
       \/ CreateLedgerEntry(p, actual)
       \/ \E e \in EntryIds, brought \in BOOLEAN : MoveLedgerEntry(e, p, actual, brought)
       \/ \E e \in EntryIds : UpdateLedgerActual(e, actual)
       \/ \E q \in Periods, n \in 1 .. 2 : ImportLedgerCsv(p, q, actual, n)
  \/ \E e \in EntryIds : DeleteLedgerEntry(e)
  \/ NewPlan

RealizationSpec == LedgerInit /\ [][LedgerNext]_ledgerVars

-------------------------------------------------------------------------------
(* Properties. *)

\* Every variable has its type.
LedgerTypeOK == entry \in [EntryIds -> LedgerRow] /\ currentPlan \in 0 .. MaxPlans

\* However often a file is imported, and wherever an import stopped, a period
\* has one entry, and more only if someone made them by hand.
ImportsNeverDuplicate ==
  \A p \in Periods : Cardinality({e \in Found(entry, p) : ~entry[e].byHand}) <= 1
===============================================================================
