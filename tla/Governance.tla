------------------------------ MODULE Governance ------------------------------
(***************************************************************************)
(* Stage gates and bankable-plan versions of one tenant.                   *)
(*                                                                         *)
(* An initiative walks a chain of stages 0 .. NumGates; gate g leads from  *)
(* stage g-1 to stage g.  A caller submits a gate, an approver decides it; *)
(* an approval moves the stage and, at the configured gate, writes a       *)
(* version of the bankable plan.  A rebaseline is a submission of its own  *)
(* kind whose approval writes a further version.                           *)
(*                                                                         *)
(* The API process runs one handler at a time (the handlers contain no     *)
(* await), but every database call of a handler is a transaction of its    *)
(* own: a handler that fails leaves the calls it got through behind.  A    *)
(* handler is therefore one action with the prefix of its calls as a       *)
(* parameter.  Row-level security decides per call: an UPDATE the caller   *)
(* may not perform touches no row and raises nothing, an INSERT raises.    *)
(*                                                                         *)
(* A definition named Bad... is a plausible mistake in the code of the     *)
(* definition that follows it.  No action uses it; the properties are      *)
(* tested by putting it in that definition's place.                        *)
(***************************************************************************)
EXTENDS Integers, Sequences

CONSTANTS
  Initiatives,      \* initiatives of the tenant
  NumGates,         \* number of gates, and of stages after the initial one
  Actors,           \* users of the tenant
  RoleOf,           \* RoleOf[a]: the role of user a
  Owned,            \* Owned[a]: the initiatives that name a as (group) owner
  ApproverRoles,    \* ApproverRoles[g]: the approver_roles of the definition of gate g
  SettingsChoices,  \* governance settings an administrator may store
  DefaultSettings,  \* the settings of a tenant that stored none
  StageRequests,    \* stages the initiative form or an import may ask for
  MayFail,          \* whether a handler may fail between two database calls
  MaxSubmissions,   \* bound: submissions of the tenant
  MaxVersions       \* bound: bankable-plan versions of an initiative

Gates == 1 .. NumGates
Chain == 0 .. NumGates

\* A stage no gate definition names: Stage is a free string since the check
\* constraint on initiatives.stage was dropped.
OffChain == -1

Roles == {"transformation_office", "tenant_admin", "pmo_lead", "finance_lead",
          "workstream_lead", "initiative_owner", "business_benefit_owner",
          "executive_sponsor", "viewer"}

Settings == [planLock        : BOOLEAN,        \* plan_lock_on_approval
             planGate        : Gates,          \* initiative_plan_lock_gate_number
             baseLock        : BOOLEAN,        \* baseline_lock_on_approval
             baseGate        : Gates,          \* baseline_lock_gate_number
             allowRebaseline : BOOLEAN,
             rebaselineRoles : SUBSET Roles]

\* Roles app_can_manage_governance() admits to an UPDATE of gate_submissions.
GovernanceManagers == {"transformation_office", "tenant_admin", "pmo_lead"}

\* Roles app_can_manage_bankable_plans() admits to an INSERT into bankable_plans.
BankablePlanManagers == {"transformation_office", "finance_lead", "pmo_lead"}

ASSUME GatesAssumption == NumGates \in Nat \ {0}

ASSUME ActorsAssumption ==
  /\ RoleOf \in [Actors -> Roles]
  /\ Owned \in [Actors -> SUBSET Initiatives]
  /\ ApproverRoles \in [Gates -> SUBSET Roles]

ASSUME SettingsAssumption ==
  /\ SettingsChoices \subseteq Settings
  /\ DefaultSettings \in Settings

ASSUME BoundsAssumption ==
  /\ StageRequests \subseteq Chain \cup {OffChain}
  /\ MayFail \in BOOLEAN
  /\ MaxSubmissions \in Nat
  /\ MaxVersions \in Nat

VARIABLES
  settings,      \* organizations.settings["bankable_plan_governance"]
  subs,          \* rows of gate_submissions, in order of submission
  stage,         \* initiatives.stage
  plans,         \* plans[i]: rows of bankable_plans of i, in order of insertion
  audit,         \* submissions with an "approve" entry in the audit log (other entries are left out)
  everApproved   \* history: submissions whose row has said "approved"

vars == <<settings, subs, stage, plans, audit, everApproved>>

SubmissionTypes == {"stage_gate", "bankable_plan_rebaseline"}

\* "declined" stands for the decisions "rejected" and "conditional", between
\* which no code modelled here tells a difference.
Outcomes == {"approved", "declined"}

SubmissionRow == [init      : Initiatives,
                  gate      : Gates,
                  type      : SubmissionTypes,
                  decision  : Outcomes \cup {"pending"},
                  requested : Nat]   \* requested_bankable_plan_version, 0 for null

PlanRow == [version : Nat \ {0}, trigger : {"approval", "rebaseline"}, sub : Nat \ {0}]

-------------------------------------------------------------------------------
(* Reads of the two tables *)

Submissions == DOMAIN subs

HasPending(i, g) ==
  \E s \in Submissions :
     subs[s].init = i /\ subs[s].gate = g /\ subs[s].decision = "pending"

HasPendingRebaseline(i) ==
  \E s \in Submissions : /\ subs[s].init = i
                         /\ subs[s].type = "bankable_plan_rebaseline"
                         /\ subs[s].decision = "pending"

\* has_approved_gate_submission looks at the gate number and not at the type.
HasApprovedGateSubmission(i, g) ==
  \E s \in Submissions :
     subs[s].init = i /\ subs[s].gate = g /\ subs[s].decision = "approved"

HasPlan(i) == plans[i] # << >>

\* get_latest_bankable_plan: the last row in order of version.
LatestPlan(i) ==
  plans[i][CHOOSE k \in DOMAIN plans[i] :
             \A j \in DOMAIN plans[i] : plans[i][j].version =< plans[i][k].version]

NextVersion(i) == IF HasPlan(i) THEN LatestPlan(i).version + 1 ELSE 1

-------------------------------------------------------------------------------
(* Who may act *)

MayActOnGate(a, i, g) ==
  \/ RoleOf[a] = "transformation_office"
  \/ /\ RoleOf[a] \in ApproverRoles[g]
     /\ RoleOf[a] = "initiative_owner" => i \in Owned[a]

MayManageFinancials(a, i) ==
  \/ RoleOf[a] \in {"transformation_office", "finance_lead"}
  \/ RoleOf[a] = "initiative_owner" /\ i \in Owned[a]

-------------------------------------------------------------------------------
(* Handlers are sequences of database calls *)

\* Mistakes: the approval's effects, or its entry in the log, come before the row.
BadDecideCallsPlan == <<"plan", "row", "stage", "audit">>
BadDecideCallsAudit == <<"audit", "row", "stage", "plan">>

DecideCalls == <<"row", "stage", "plan", "audit">>

\* The sets of calls a handler may have completed when it ends.
Completed(calls) ==
  LET upTo(n) == {calls[k] : k \in 1 .. n}
  IN  {upTo(n) : n \in IF MayFail THEN DOMAIN calls ELSE {Len(calls)}}

Submission(i, g, type, requested) ==
  [init |-> i, gate |-> g, type |-> type, decision |-> "pending", requested |-> requested]

\* create_submission
Submit(row) ==
  /\ Len(subs) < MaxSubmissions
  /\ subs' = Append(subs, row)
  /\ UNCHANGED <<settings, stage, plans, audit, everApproved>>

\* submit_gate
SubmitGate(a, i, g) ==
  /\ MayActOnGate(a, i, g)
  /\ ~ HasPending(i, g)
  /\ Submit(Submission(i, g, "stage_gate", 0))

\* submit_bankable_plan_rebaseline
RequestRebaseline(a, i) ==
  /\ MayManageFinancials(a, i)
  /\ settings.allowRebaseline
  /\ RoleOf[a] \in settings.rebaselineRoles
  /\ HasPlan(i)
  /\ ~ HasPendingRebaseline(i)
  /\ Submit(Submission(i, settings.planGate, "bankable_plan_rebaseline",
                       LatestPlan(i).version + 1))

-------------------------------------------------------------------------------
(* The effects of an approval *)

AppendVersion(i, trigger, s) ==
  Append(plans[i], [version |-> NextVersion(i), trigger |-> trigger, sub |-> s])

\* Mistake: an approval that is repeated locks again.
BadLockBankablePlan(i, s) == AppendVersion(i, "approval", s)

\* lock_bankable_plan_from_approval
LockBankablePlan(i, s) ==
  IF /\ HasPlan(i)
     /\ LatestPlan(i).trigger = "approval"
     /\ LatestPlan(i).sub = s
  THEN plans[i]
  ELSE AppendVersion(i, "approval", s)

\* rebaseline_bankable_plan
RebaselineBankablePlan(i, s) ==
  IF HasPlan(i) THEN AppendVersion(i, "rebaseline", s) ELSE plans[i]

\* Mistake: the gate number alone decides what an approval means.
BadPlansAfterApproval(s) ==
  LET i == subs[s].init
  IN  IF settings.planLock /\ subs[s].gate = settings.planGate
      THEN LockBankablePlan(i, s)
      ELSE plans[i]

\* The versions of the initiative once the approval of s has been carried out.
PlansAfterApproval(s) ==
  LET i == subs[s].init
  IN  IF subs[s].type = "bankable_plan_rebaseline"
      THEN RebaselineBankablePlan(i, s)
      ELSE IF settings.planLock /\ subs[s].gate = settings.planGate
           THEN LockBankablePlan(i, s)
           ELSE plans[i]

\* The approval of s by a ends in an exception of the plan step: a rebaseline
\* without a plan (404), or an INSERT that row-level security refuses.
PlanStepRaises(a, s) ==
  \/ subs[s].type = "bankable_plan_rebaseline" /\ ~ HasPlan(subs[s].init)
  \/ /\ PlansAfterApproval(s) # plans[subs[s].init]
     /\ RoleOf[a] \notin BankablePlanManagers

-------------------------------------------------------------------------------
(* record_decision, call by call.  Nothing asks whether s is still pending. *)

DecideRow(a, s, outcome, done) ==
  IF "row" \in done /\ RoleOf[a] \in GovernanceManagers
  THEN /\ subs' = [subs EXCEPT ![s].decision = outcome]
       /\ everApproved' = IF outcome = "approved" THEN everApproved \cup {s} ELSE everApproved
  ELSE UNCHANGED <<subs, everApproved>>

DecideStage(s, outcome, done) ==
  stage' = IF /\ outcome = "approved"
              /\ subs[s].type = "stage_gate"
              /\ "stage" \in done
           THEN [stage EXCEPT ![subs[s].init] = subs[s].gate]
           ELSE stage

DecidePlan(a, s, outcome, done) ==
  plans' = IF outcome = "approved" /\ "plan" \in done /\ ~ PlanStepRaises(a, s)
           THEN [plans EXCEPT ![subs[s].init] = PlansAfterApproval(s)]
           ELSE plans

\* The entry is written last; building it needs the row the update returned.
DecideAudit(a, s, outcome, done) ==
  audit' = IF /\ outcome = "approved"
              /\ "audit" \in done
              /\ RoleOf[a] \in GovernanceManagers
              /\ ~ PlanStepRaises(a, s)
           THEN audit \cup {s}
           ELSE audit

Decide(a, s, outcome, done) ==
  /\ MayActOnGate(a, subs[s].init, subs[s].gate)
  /\ outcome = "approved" => Len(PlansAfterApproval(s)) =< MaxVersions
  /\ DecideRow(a, s, outcome, done)
  /\ DecideStage(s, outcome, done)
  /\ DecidePlan(a, s, outcome, done)
  /\ DecideAudit(a, s, outcome, done)
  /\ UNCHANGED settings

-------------------------------------------------------------------------------
(* Stage edits and settings *)

\* Mistake: the gate into the requested stage itself is not asked for.
BadStageTransitionAllowed(i, to) ==
  (stage[i] \in Chain /\ to \in Chain)
    => \A g \in (stage[i] + 1) .. (to - 1) : HasApprovedGateSubmission(i, g)

\* _assert_stage_transition_allowed
StageTransitionAllowed(i, to) ==
  (stage[i] \in Chain /\ to \in Chain)
    => \A g \in (stage[i] + 1) .. to : HasApprovedGateSubmission(i, g)

\* update_initiative with a stage in the patch
PatchStage(i, to) ==
  /\ to # stage[i]
  /\ StageTransitionAllowed(i, to)
  /\ stage' = [stage EXCEPT ![i] = to]
  /\ UNCHANGED <<settings, subs, plans, audit, everApproved>>

\* update_governance_settings (through the service-role client: no row-level security)
UpdateSettings(chosen) ==
  /\ chosen # settings
  /\ settings' = chosen
  /\ UNCHANGED <<subs, stage, plans, audit, everApproved>>

-------------------------------------------------------------------------------
Init ==
  /\ settings = DefaultSettings
  /\ subs = << >>
  /\ stage = [i \in Initiatives |-> 0]
  /\ plans = [i \in Initiatives |-> << >>]
  /\ audit = {}
  /\ everApproved = {}

Next ==
  \/ \E a \in Actors, i \in Initiatives, g \in Gates : SubmitGate(a, i, g)
  \/ \E a \in Actors, i \in Initiatives : RequestRebaseline(a, i)
  \/ \E a \in Actors, s \in Submissions, outcome \in Outcomes, done \in Completed(DecideCalls) :
        Decide(a, s, outcome, done)
  \/ \E i \in Initiatives, to \in StageRequests : PatchStage(i, to)
  \/ \E chosen \in SettingsChoices : UpdateSettings(chosen)

Spec == Init /\ [][Next]_vars

-------------------------------------------------------------------------------
(* Properties *)

\* Every table holds rows of its type and refers to rows that exist.
TypeOK ==
  /\ settings \in Settings
  /\ subs \in Seq(SubmissionRow)
  /\ stage \in [Initiatives -> Chain \cup {OffChain}]
  /\ plans \in [Initiatives -> Seq(PlanRow)]
  /\ audit \subseteq Submissions
  /\ everApproved \subseteq Submissions

\* At most one submission of a gate waits for a decision, and at most one
\* rebaseline of an initiative: what the checks of submit_gate (an earlier
\* submission of ANY type at that gate) and of submit_bankable_plan_rebaseline
\* (an earlier rebaseline at ANY gate) amount to together, whatever is
\* re-decided and whatever gate the settings name in between.
OnePendingOfAKind ==
  \A s, t \in Submissions :
     ( /\ subs[s].decision = "pending" /\ subs[t].decision = "pending"
       /\ subs[s].init = subs[t].init
       /\ subs[s].type = subs[t].type
       /\ subs[s].type = "stage_gate" => subs[s].gate = subs[t].gate )
     => s = t

\* The versions of a plan are 1, 2, 3, ... in the order they were written, so
\* that the row of the highest version is the latest one, although a version
\* number is computed from a row read in a separate call.
VersionsDense ==
  \A i \in Initiatives : \A k \in DOMAIN plans[i] : plans[i][k].version = k

\* A version names the submission it came from: one of the same initiative,
\* a gate submission for an "approval" and a rebaseline request for a
\* "rebaseline"; and the first version is never a rebaseline.
PlanProvenance ==
  \A i \in Initiatives : \A k \in DOMAIN plans[i] :
     LET p == plans[i][k]
     IN  /\ p.sub \in Submissions
         /\ subs[p.sub].init = i
         /\ p.trigger = IF subs[p.sub].type = "stage_gate" THEN "approval" ELSE "rebaseline"
         /\ k = 1 => p.trigger = "approval"

\* A rebaseline request exists only for an initiative that has a plan, and asks
\* for a version at most one past the latest.  Approving it therefore cannot
\* end in "No bankable plan exists" after its row already says "approved".
RebaselineHasPlan ==
  \A s \in Submissions :
     subs[s].type = "bankable_plan_rebaseline"
       => /\ HasPlan(subs[s].init)
          /\ subs[s].requested \in 2 .. Len(plans[subs[s].init]) + 1

\* The version a rebaseline writes is never older than the one it was requested
\* as, however many versions other approvals wrote in between.
RebaselineMovesForward ==
  \A i \in Initiatives : \A k \in DOMAIN plans[i] :
     plans[i][k].trigger = "rebaseline" => plans[i][k].version >= subs[plans[i][k].sub].requested

\* What the rows of the two tables say of each other, the three of them together.
PlansAndRequests == PlanProvenance /\ RebaselineHasPlan /\ RebaselineMovesForward

\* A submission whose row stored the approval backs every plan version: the
\* handler writes the row first and the version later, so that a version
\* without an approval is one whose row update did not happen.
PlanHasApproval ==
  \A i \in Initiatives : \A k \in DOMAIN plans[i] : plans[i][k].sub \in everApproved

\* An initiative stands at a stage of the chain only because a submission of
\* this gate or of a later one was approved for it.
StageHasApproval ==
  \A i \in Initiatives :
     stage[i] \in Gates
       => \E s \in everApproved : subs[s].init = i /\ subs[s].gate >= stage[i]

\* An audited approval is one that took effect: its row stored the approval, and
\* if it was a rebaseline its version exists.  (An approval that took effect may
\* lack its entry, which is written last.)
AuditedApprovalTookEffect ==
  \A s \in Submissions :
     s \in audit
       => /\ s \in everApproved
          /\ subs[s].type = "bankable_plan_rebaseline"
               => \E k \in DOMAIN plans[subs[s].init] : plans[subs[s].init][k].sub = s

\* The history of plan versions, as PlanLedger describes it.
Ledger ==
  [i \in Initiatives |->
     [k \in DOMAIN plans[i] |-> [trigger |-> plans[i][k].trigger, sub |-> plans[i][k].sub]]]

PL == INSTANCE PlanLedger WITH ledger <- Ledger, Triggers <- 1 .. MaxSubmissions

\* The plan table implements the ledger: retried and repeated decisions,
\* failures between two calls and changes of the settings only ever append one
\* version, and an approval retried at once appends none.
LedgerSpec == PL!Spec
===============================================================================
