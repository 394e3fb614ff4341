----------------------------- MODULE BenefitLines -----------------------------
(* The benefit lines of one initiative and their validation by finance
   (services/financial.py). A transition is two calls: the line, then an event
   of the audit trail; either may be the last the server makes. *)
EXTENDS Naturals, Sequences, SequencesExt

CONSTANTS
  Lines,        \* ids of benefit lines
  Metrics,      \* active benefit metrics of the initiative's scope
  NoMetric,
  MaxMoves      \* bound on the transitions of one line

VARIABLES
  line,         \* rows of financial_benefit_lines
  trail,        \* per line: its financial_benefit_line_validation_events
  moves,        \* history, per line: the transitions made
  planLocked    \* the initiative's bankable plan is locked

lineVars == <<line, trail, moves, planLocked>>

ValidationStatus == {"draft", "submitted", "finance_validated", "rejected"}
LineEvents == {"submit", "validate", "reject", "handoff_update"}
NoLine == [metric |-> NoMetric, status |-> "draft", shown |-> FALSE]

LinesInit ==
  /\ line = [l \in Lines |-> NoLine]
  /\ trail = [l \in Lines |-> <<>>]
  /\ moves = [l \in Lines |-> <<>>]
  /\ planLocked = FALSE

Exists(l) == line[l].metric # NoMetric

-------------------------------------------------------------------------------
(* Creation and deletion, by callers who manage the financials. *)

AddLine(l, metric, shown) ==
  /\ ~planLocked /\ ~Exists(l) /\ moves[l] = <<>>
  /\ line' = [line EXCEPT ![l] = [metric |-> metric, status |-> "draft", shown |-> shown]]
  /\ UNCHANGED <<trail, moves, planLocked>>

\* One visible line for a metric.
CreateBenefitLine(l, metric, shown) ==
  /\ \A m \in Lines : ~(line[m].metric = metric /\ line[m].shown)
  /\ AddLine(l, metric, shown)

\* The grid's update inserts the lines it is sent, and looks at none.
UpdateGrid(l, metric, shown) == AddLine(l, metric, shown)

BadDeletable(status) == status # "submitted"

Deletable(status) == status \notin {"submitted", "finance_validated"}

\* A line is deleted while the financials are editable; its events go with it
\* (ON DELETE CASCADE).
DeleteBenefitLine(l) ==
  /\ ~planLocked /\ Exists(l)
  /\ Deletable(line[l].status)
  /\ line' = [line EXCEPT ![l] = NoLine]
  /\ trail' = [trail EXCEPT ![l] = <<>>]
  /\ moves' = [moves EXCEPT ![l] = Append(@, "deleted")]
  /\ UNCHANGED planLocked

\* delete_grid deletes every line in one call, whatever its status: the read that
\* moves costs into the planned period, and the import that replaces the grid,
\* which looks at no lock.
DeleteGrid ==
  /\ line' = [l \in Lines |-> NoLine]
  /\ trail' = [l \in Lines |-> <<>>]
  /\ moves' = [l \in Lines |-> IF Exists(l) THEN Append(moves[l], "cleared") ELSE moves[l]]
  /\ UNCHANGED planLocked

-------------------------------------------------------------------------------
(* Validation. *)

AllowedFrom(event) ==
  CASE event = "submit" -> {"draft", "rejected"}
    [] event = "validate" -> {"submitted"}
    [] event = "reject" -> {"submitted"}

Leads(event) ==
  CASE event = "submit" -> "submitted"
    [] event = "validate" -> "finance_validated"
    [] event = "reject" -> "rejected"

\* update_benefit_line, then _record_benefit_line_event.
Written(l, event, updated, recorded) ==
  /\ line' = IF updated THEN [line EXCEPT ![l].status = Leads(event)] ELSE line
  /\ moves' = IF updated THEN [moves EXCEPT ![l] = Append(@, event)] ELSE moves
  /\ trail' = IF updated /\ recorded THEN [trail EXCEPT ![l] = Append(@, event)] ELSE trail

TransitionBenefitLine(l, event) ==
  /\ Exists(l)
  /\ line[l].status \in AllowedFrom(event)
  /\ Len(moves[l]) < MaxMoves
  /\ \E updated, recorded \in BOOLEAN : Written(l, event, updated, recorded)
  /\ UNCHANGED planLocked

\* Ownership and risk of a line, in any status and under the lock.
UpdateHandoff(l) ==
  /\ Exists(l)
  /\ Len(trail[l]) < MaxMoves
  /\ trail' = [trail EXCEPT ![l] = Append(@, "handoff_update")]
  /\ UNCHANGED <<line, moves, planLocked>>

\* Approvals, revocations and rebaselines: Governance.
PlanLocks == planLocked' = ~planLocked /\ UNCHANGED <<line, trail, moves>>

LinesNext ==
  \/ \E l \in Lines :
       \/ \E metric \in Metrics, shown \in BOOLEAN :
            CreateBenefitLine(l, metric, shown) \/ UpdateGrid(l, metric, shown)
       \/ DeleteBenefitLine(l)
       \/ \E event \in {"submit", "validate", "reject"} : TransitionBenefitLine(l, event)
       \/ UpdateHandoff(l)
  \/ DeleteGrid
  \/ PlanLocks

LinesSpec == LinesInit /\ [][LinesNext]_lineVars

-------------------------------------------------------------------------------
(* Properties. *)

\* Every variable has its type.
LinesTypeOK ==
  /\ line \in [Lines -> [metric : Metrics \cup {NoMetric}, status : ValidationStatus,
                         shown : BOOLEAN]]
  /\ trail \in [Lines -> Seq(LineEvents)]
  /\ moves \in [Lines -> Seq(LineEvents \cup {"deleted", "cleared"})]
  /\ planLocked \in BOOLEAN

\* Where a trail tells of a transition.
Told(s) == {n \in DOMAIN s : s[n] # "handoff_update"}

\* The transitions that s tells are a part of t, in order.
PartOf(s, t) ==
  \E f \in [Told(s) -> DOMAIN t] :
    /\ \A n \in Told(s) : s[n] = t[f[n]]
    /\ \A m, n \in Told(s) : m < n => f[m] < f[n]

\* Whatever calls are lost, the trail of a line is a part of what happened to
\* it, in order: it may miss a transition, it never tells one that was not made.
TrailNeverAhead ==
  \A l \in Lines : Exists(l) => PartOf(trail[l], moves[l])

\* A line counts as validated by finance only if its last move but one was a
\* submission, and a decision is never taken twice on one submission.
ValidatedWasSubmitted ==
  \A l \in Lines : \A n \in 1 .. Len(moves[l]) :
    moves[l][n] \in {"validate", "reject"} => n > 1 /\ moves[l][n - 1] = "submit"

\* A line that finance validated, or was asked to, is deleted by no request about
\* it; it goes with the whole grid only, its trail and every other line with it.
GovernedLinesStay ==
  [][\A l \in Lines : (Exists(l) /\ ~Exists(l)') =>
       moves[l] = <<>> \/ Last(moves[l]) = "reject" \/ DeleteGrid]_lineVars

\* The three together: finance's word on a line, the trail of it and the line
\* itself stay in step (_transition_benefit_line_validation, delete_benefit_line,
\* delete_grid).
GovernedLinesAreTold == []TrailNeverAhead /\ []ValidatedWasSubmitted /\ GovernedLinesStay
===============================================================================
