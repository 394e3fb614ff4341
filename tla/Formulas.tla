------------------------------- MODULE Formulas -------------------------------
(* The metric definitions of one tenant and the values of the formulas among
   them (services/financial.py). A definition is checked when it is saved; the
   values are computed whenever a report is read.

   A formula is an operator over the metrics it names: their sum and one, or a
   constant over their sum. Keys stand in the order of display. *)
EXTENDS Integers, FiniteSets, Sequences, Functions

CONSTANTS
  Displayed,     \* number of the definitions that are displayed
  Stored         \* values of the metrics that are stored

ASSUME FormulasAssumption == Displayed \in Nat

VARIABLE definition   \* financial_metric_definitions

MetricKeys == 1 .. Displayed

Operators == {"plus", "over"}
Undefined == [kind |-> "none", op |-> "plus", names |-> {}, active |-> FALSE]
Inputs == [kind : {"input"}, op : {"plus"}, names : {{}}, active : BOOLEAN]
FormulaTexts == [kind : {"formula"}, op : Operators, names : (SUBSET MetricKeys) \ {{}},
                 active : BOOLEAN]

FormulasInit == definition = [k \in MetricKeys |-> Undefined]

-------------------------------------------------------------------------------
(* Saving a definition. *)

ActiveFormulas(def) == {k \in MetricKeys : def[k].kind = "formula" /\ def[k].active}

\* Following names never comes back: in every set of active formulas one names
\* none of them.
NeverLoops(def) ==
  \A S \in (SUBSET ActiveFormulas(def)) \ {{}} : \E k \in S : def[k].names \cap S = {}

\* _validate_metric_definition_payload, on the definitions with the candidate
\* among them. Anything but a formula is accepted.
ValidDefinition(def, k) ==
  def[k].kind = "formula" =>
    /\ \A n \in def[k].names : def[n].active
    /\ k \notin def[k].names
    /\ NeverLoops(def)

SaveDefinition(k, candidate) ==
  LET saved == [definition EXCEPT ![k] = candidate]
  IN  ValidDefinition(saved, k) /\ definition' = saved

CreateMetricDefinition(k, candidate) ==
  definition[k].kind = "none" /\ SaveDefinition(k, candidate)

UpdateMetricDefinition(k, candidate) ==
  definition[k].kind # "none" /\ SaveDefinition(k, candidate)

FormulasNext ==
  \E k \in MetricKeys, candidate \in Inputs \cup FormulaTexts :
    CreateMetricDefinition(k, candidate) \/ UpdateMetricDefinition(k, candidate)

FormulasSpec == FormulasInit /\ [][FormulasNext]_definition

-------------------------------------------------------------------------------
(* The values of one month: stored ones by key, and the formulas'. *)

\* The keys in the set are visited in the order of display.
Visited(visit, keys, order) ==
  LET upTo[n \in 0 .. Displayed] ==
        IF n = 0 THEN order
        ELSE IF n \in keys THEN visit[<<n, upTo[n - 1]>>] ELSE upTo[n - 1]
  IN  upTo[Displayed]

\* What a formula waits for.
References(k) == definition[k].names \cap ActiveFormulas(definition)

\* visit(key), with as many calls within calls as there are keys at most.
Visit[depth \in 0 .. Displayed] ==
  [call \in MetricKeys \X Seq(MetricKeys) |->
     IF depth = 0 \/ call[1] \in Range(call[2]) THEN call[2]
     ELSE Append(Visited(Visit[depth - 1], References(call[1]), call[2]), call[1])]

BadOrdered ==
  LET upTo[n \in 0 .. Displayed] ==
        IF n = 0 THEN <<>>
        ELSE IF n \in ActiveFormulas(definition) THEN Append(upTo[n - 1], n) ELSE upTo[n - 1]
  IN  upTo[Displayed]

\* _ordered_formula_definitions: depth first, from the first displayed.
Ordered == Visited(Visit[Displayed], ActiveFormulas(definition), <<>>)

\* A division by zero gives zero.
Applied(op, sum) ==
  CASE op = "plus" -> sum + 1
    [] op = "over" -> IF sum = 0 THEN 0 ELSE 12 \div sum

Evaluated(k, env) ==
  Applied(definition[k].op, SumFunction([n \in definition[k].names |-> env[n]]))

\* A name without a value counts zero. Rows stored for what is a formula now
\* are ignored.
ValuesWithFormulas(stored) ==
  LET order == Ordered
      upTo[n \in 0 .. Len(order)] ==
        IF n = 0 THEN [k \in MetricKeys |-> IF definition[k].kind = "input" THEN stored[k] ELSE 0]
        ELSE [upTo[n - 1] EXCEPT ![order[n]] = Evaluated(order[n], upTo[n - 1])]
  IN  upTo[Len(order)]

-------------------------------------------------------------------------------
(* Properties. *)

\* Every variable has its type.
FormulasTypeOK == definition \in [MetricKeys -> Inputs \cup FormulaTexts \cup {Undefined}]

\* However metrics were created, changed, retired and brought back, a report
\* finds an order for the formulas, and the values it computes satisfy all of
\* them at once: none was computed from a value that changed later.
FormulasSolve ==
  /\ NeverLoops(definition)
  /\ \A stored \in [MetricKeys -> Stored] :
       LET env == ValuesWithFormulas(stored)
       IN  \A k \in ActiveFormulas(definition) : env[k] = Evaluated(k, env)
===============================================================================
