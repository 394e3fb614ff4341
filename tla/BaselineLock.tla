----------------------------- MODULE BaselineLock -----------------------------
(***************************************************************************)
(* The annual baseline of an initiative beside its gates and plan          *)
(* versions.  The baseline is locked by the approval of a gate of its own  *)
(* setting (baseline_lock_gate_number), the plan by the version that the   *)
(* approval of another gate writes; both locks are computed from the       *)
(* current rows and settings on every write.                               *)
(***************************************************************************)
EXTENDS Governance

CONSTANT MaxEdits   \* bound: edits of a baseline

ASSUME EditsAssumption == MaxEdits \in Nat

VARIABLE baseline   \* baseline[i]: the edits of the annual baseline values of i so far

BaselineVars == <<vars, baseline>>

\* Mistake: only the newest submission of the gate is looked at.
BadBaselineLocked(i) ==
  LET ofGate == {s \in Submissions : subs[s].init = i /\ subs[s].gate = settings.baseGate}
  IN  /\ settings.baseLock
      /\ \E s \in ofGate : subs[s].decision = "approved" /\ \A t \in ofGate : t =< s

\* _baseline_lock_state
BaselineLocked(i) ==
  settings.baseLock /\ HasApprovedGateSubmission(i, settings.baseGate)

\* update_initiative_annual_baseline
UpdateBaseline(a, i) ==
  /\ MayManageFinancials(a, i)
  /\ ~ BaselineLocked(i)
  /\ baseline[i] < MaxEdits
  /\ baseline' = [baseline EXCEPT ![i] = @ + 1]
  /\ UNCHANGED vars

BaselineInit == Init /\ baseline = [i \in Initiatives |-> 0]

BaselineNext ==
  \/ Next /\ UNCHANGED baseline
  \/ \E a \in Actors, i \in Initiatives : UpdateBaseline(a, i)

BaselineSpec == BaselineInit /\ [][BaselineNext]_BaselineVars

-------------------------------------------------------------------------------
(* Properties *)

\* A locked baseline is unlocked by an administrator, or by a decision that
\* takes the approval of the lock gate back: submitting that gate again, waiting
\* for its decision or having the new submission declined does not unlock it.
UnlockedByRevocationOnly ==
  [][\A i \in Initiatives :
       (BaselineLocked(i) /\ ~ BaselineLocked(i)')
         => \/ settings' # settings
            \/ \E s \in Submissions : /\ subs[s].init = i
                                      /\ subs[s].gate = settings.baseGate
                                      /\ subs[s].decision = "approved"
                                      /\ subs'[s].decision # "approved"]_BaselineVars
===============================================================================
