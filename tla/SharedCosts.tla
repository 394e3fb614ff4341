----------------------------- MODULE SharedCosts -----------------------------
(* Shared cost pools and the runs that split them over initiatives
   (services/executive_control.py). Amounts are in the smallest unit stored, and
   a share is rounded to it, half to even. A rule may be edited at any time and
   without a check, and its targets and weights are replaced by a deletion and
   an insertion, so that a run meets any rule. *)
EXTENDS Integers, FiniteSets, Functions

CONSTANTS
  Initiatives,
  Plans,         \* amounts a pool may have
  Actuals,       \* actual amounts; 0 also stands for none, which splits alike
  Drivers,       \* weights, percentages, manual amounts or metric sums; no code
                 \* asks that they, or the amounts, be positive
  Percent,       \* the number that stands for 100%
  MaxExcluded,   \* bound on the initiatives a rule leaves out
  MaxRuns        \* bound on the runs of the pool

ASSUME SharedCostsAssumption ==
  /\ IsFiniteSet(Initiatives)
  /\ Plans \subseteq Int /\ Actuals \subseteq Int /\ Drivers \subseteq Int
  /\ Percent \in Nat \ {0}

VARIABLES
  pool,          \* amount_plan, amount_actual
  active,        \* initiatives that are not archived
  runs           \* rows of shared_cost_allocation_runs with their allocations

sharedCostVars == <<pool, active, runs>>

Pools == [plan : Plans, actual : Actuals]
Methods == {"equal_split", "headcount_weighted", "metric_weighted", "fixed_percentage",
            "manual_amount"}
Missing == {"fail", "zero", "equal_split"}
Weighted == {"headcount_weighted", "metric_weighted"}
Drive == UNION {[S -> Drivers] : S \in SUBSET Initiatives}
Rules == {r \in [method : Methods, missing : Missing, drive : Drive,
                 excluded : {S \in SUBSET Initiatives : Cardinality(S) <= MaxExcluded}] :
            r.method \in Weighted \/ r.missing = "fail"}

Magnitude(b) == IF b < 0 THEN -b ELSE b

\* Decimal.quantize, ROUND_HALF_EVEN.
Quotient(a, b) ==
  LET d == Magnitude(b)
      n == IF b < 0 THEN -a ELSE a
      q == n \div d
      twice == 2 * (n % d)
  IN IF twice > d \/ (twice = d /\ q % 2 = 1) THEN q + 1 ELSE q

-------------------------------------------------------------------------------
(* _allocation_preview *)

\* _allocation_candidates; targets may select any of them.
Candidates(rule) == active \ rule.excluded

Driver(rule, default) ==
  [i \in active \cup DOMAIN rule.drive |->
     IF i \in DOMAIN rule.drive THEN rule.drive[i] ELSE default]

\* _basis_values: a metric is looked up for the candidates, a weight for every
\* initiative that has one.
Basis(rule) ==
  CASE rule.method = "equal_split" -> [i \in Candidates(rule) |-> 1]
    [] rule.method = "headcount_weighted" -> Driver(rule, 1)
    [] rule.method = "metric_weighted" -> [i \in Candidates(rule) |-> Driver(rule, 0)[i]]
    [] OTHER -> Driver(rule, 0)

NothingToGoBy(rule) == SumFunction(Basis(rule)) = 0

\* missing_basis_behavior
Effective(rule) ==
  IF rule.method # "fixed_percentage" /\ NothingToGoBy(rule) /\ rule.missing = "equal_split"
  THEN [i \in Candidates(rule) |-> 1] ELSE Basis(rule)

\* _manual_allocation_rows: the actual amount follows the plan, each row rounded.
Manual(i, rule) ==
  [basis |-> Driver(rule, 0)[i], plan |-> Driver(rule, 0)[i], adjust |-> 0,
   actual |-> IF pool.plan = 0 THEN 0 ELSE Quotient(pool.actual * Driver(rule, 0)[i], pool.plan)]

\* _allocation_rows, _percentage_allocation_rows: the last row takes the rest.
Split(rule, last) ==
  LET value == Effective(rule)
      base == IF rule.method = "fixed_percentage" THEN Percent ELSE SumFunction(value)
      share(amount, i) == IF base = 0 THEN 0 ELSE Quotient(amount * value[i], base)
      rest(amount) == amount - SumFunction([i \in Candidates(rule) \ {last} |-> share(amount, i)])
      row(i, plan, actual) == [basis |-> value[i], plan |-> plan, actual |-> actual,
                               adjust |-> plan - share(pool.plan, i)]
  IN [i \in Candidates(rule) |-> IF i = last THEN row(i, rest(pool.plan), rest(pool.actual))
                                 ELSE row(i, share(pool.plan, i), share(pool.actual, i))]

AllocationRows(rule, last) ==
  IF rule.method = "manual_amount" THEN [i \in Candidates(rule) |-> Manual(i, rule)]
  ELSE Split(rule, last)

Sums(rows, amounts) ==
  /\ SumFunction([i \in DOMAIN rows |-> rows[i].plan]) = amounts.plan
  /\ SumFunction([i \in DOMAIN rows |-> rows[i].actual]) = amounts.actual

\* The exceptions of severity blocking: no candidates, a percentage total, a
\* missing basis, an allocation that does not add up.
BadRefused(rule, rows) ==
  \/ Candidates(rule) = {}
  \/ rule.method = "fixed_percentage" /\ SumFunction(Basis(rule)) # Percent
  \/ rule.method \in Weighted /\ NothingToGoBy(rule) /\ rule.missing = "fail"
Refused(rule, rows) == BadRefused(rule, rows) \/ ~Sums(rows, pool)

-------------------------------------------------------------------------------
SharedCostsInit == pool \in Pools /\ active = Initiatives /\ runs = {}

\* update_pool: no run keeps it from changing.
UpdatePool(p) == pool' = p /\ UNCHANGED <<active, runs>>

\* create_allocation_run: the run, then its rows, then its exceptions and an
\* audit event. The candidates come in no order, so that any may be the last.
\* The request names any status, locked unless it says otherwise.
CreateAllocationRun(rule, last, status, complete) ==
  /\ LET rows == AllocationRows(rule, last)
     IN /\ ~Refused(rule, rows)
        /\ runs' = runs \cup {[method |-> rule.method, of |-> pool, complete |-> complete,
                               lost |-> [rows |-> 0, plan |-> 0, actual |-> 0], status |-> status,
                               rows |-> IF complete THEN rows ELSE <<>>]}
  /\ UNCHANGED <<pool, active>>

\* approve_run, lock included, and void_run: from any status.
SetRunStatus(run, status) ==
  /\ runs' = (runs \ {run}) \cup {[run EXCEPT !.status = status]}
  /\ UNCHANGED <<pool, active>>

ArchiveCandidate(i) == active' = active \ {i} /\ UNCHANGED <<pool, runs>>

\* ON DELETE CASCADE takes the rows out of every run.
DeleteCandidate(i) ==
  /\ active' = active \ {i}
  /\ runs' = {[run EXCEPT !.rows = [j \in DOMAIN run.rows \ {i} |-> run.rows[j]],
                          !.lost = IF i \in DOMAIN run.rows
                                   THEN [rows |-> @.rows + 1,
                                         plan |-> @.plan + run.rows[i].plan,
                                         actual |-> @.actual + run.rows[i].actual]
                                   ELSE @] : run \in runs}
  /\ UNCHANGED pool

SharedCostsNext ==
  \/ \E p \in Pools : UpdatePool(p)
  \/ /\ Cardinality(runs) < MaxRuns
     /\ \E rule \in Rules :
          \E last \in Candidates(rule), status \in {"preview", "locked"}, complete \in BOOLEAN :
             CreateAllocationRun(rule, last, status, complete)
  \/ \E run \in runs, status \in {"approved", "locked", "voided"} : SetRunStatus(run, status)
  \/ \E i \in active : ArchiveCandidate(i) \/ DeleteCandidate(i)

SharedCostsSpec == SharedCostsInit /\ [][SharedCostsNext]_sharedCostVars

-------------------------------------------------------------------------------
\* A run, with what it was made from and what deleted initiatives took along.
Runs == [method : Methods, of : Pools, complete : BOOLEAN,
         lost : [rows : Nat, plan : Int, actual : Int],
         status : {"preview", "approved", "locked", "voided"},
         rows : UNION {[S -> [basis : Int, plan : Int, actual : Int, adjust : Int]] :
                         S \in SUBSET Initiatives}]

\* The pool, its initiatives and its runs have their types.
SharedCostsTypeOK == pool \in Pools /\ active \subseteq Initiatives /\ runs \subseteq Runs

\* What a run stores adds up to the pool as it was, by whatever method and
\* rounding, save for what initiatives deleted since have taken with them
\* (executive_control.py:648); a run cut off has no rows.
RunsReconcile ==
  \A run \in runs : run.complete =>
     Sums(run.rows, [plan |-> run.of.plan - run.lost.plan,
                     actual |-> run.of.actual - run.lost.actual])

\* Rows split by a metric, or equally, are in proportion to the basis stored
\* with them, up to half a unit for each, while no initiative has taken its row
\* with it and unless the basis comes to nothing (executive_control.py:709).
RowsInProportion ==
  \A run \in runs :
     run.method \in {"metric_weighted", "equal_split"} /\ run.lost.rows = 0 =>
       LET base == SumFunction([i \in DOMAIN run.rows |-> run.rows[i].basis])
           gap(i) == run.rows[i].plan * base - run.of.plan * run.rows[i].basis
       IN base # 0 =>
            \A i \in DOMAIN run.rows :
               2 * Magnitude(gap(i)) <= Magnitude(base) * Cardinality(DOMAIN run.rows)

\* A run that was accepted is the pool, divided as its rule says.
RunsAreSound == RunsReconcile /\ RowsInProportion

\* docs/team/SHARED_COSTS_CONFIGURABLE_REVAMP_PLAN.md:159 has the last row absorb
\* rounding. It also takes what the weights or the percentages give to
\* initiatives the rule leaves out (executive_control.py:983).
LastRowAbsorbsRounding ==
  \A run \in runs : \A i \in DOMAIN run.rows :
     LET adjust == run.rows[i].adjust
     IN 2 * adjust \in -Cardinality(Initiatives) .. Cardinality(Initiatives)
===============================================================================
