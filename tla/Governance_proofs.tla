--------------------------- MODULE Governance_proofs ---------------------------
(***************************************************************************)
(* Proofs about Governance.tla and BaselineLock.tla, for every set of      *)
(* initiatives and users, every configuration of gates, approvers and      *)
(* settings, with and without failures between two calls.                  *)
(***************************************************************************)
EXTENDS BaselineLock, SequenceTheorems, TLAPS

\* A submission is a row of its type.
LEMMA RowAt ==
  ASSUME TypeOK, NEW s \in Submissions
  PROVE  /\ subs[s] \in SubmissionRow
         /\ s \in Nat \ {0}
         /\ subs[s].init \in Initiatives
         /\ subs[s].gate \in Gates
         /\ subs[s].type \in SubmissionTypes
<1>1. subs[s] \in SubmissionRow /\ s \in Nat \ {0}
  BY DEF TypeOK, Submissions
<1>2. QED
  BY <1>1 DEF SubmissionRow

-------------------------------------------------------------------------------
(* The plan versions *)

\* With dense version numbers, get_latest_bankable_plan returns the row written
\* last, and the next version is one more than their number.
LEMMA LatestIsLast ==
  ASSUME TypeOK, VersionsDense, NEW i \in Initiatives
  PROVE  /\ HasPlan(i) => LatestPlan(i) = plans[i][Len(plans[i])]
         /\ NextVersion(i) = Len(plans[i]) + 1
<1> DEFINE n == Len(plans[i])
           IsLast(k) == \A j \in DOMAIN plans[i] : plans[i][j].version =< plans[i][k].version
<1>0. plans[i] \in Seq(PlanRow) /\ n \in Nat /\ DOMAIN plans[i] = 1 .. n
  BY DEF TypeOK
<1>1. \A k \in 1 .. n : plans[i][k].version = k
  BY <1>0 DEF VersionsDense
<1>2. CASE plans[i] = << >>
  BY <1>2 DEF HasPlan, NextVersion
<1>3. CASE plans[i] # << >>
  <2>1. n \in 1 .. n
    BY <1>0, <1>3
  <2>2. IsLast(n)
    BY <1>0, <1>1, <2>1
  <2>3. \A k \in DOMAIN plans[i] : IsLast(k) => k = n
    BY <1>0, <1>1, <2>1
  <2>4. (CHOOSE k \in DOMAIN plans[i] : IsLast(k)) = n
    BY <1>0, <2>1, <2>2, <2>3
  <2>5. LatestPlan(i) = plans[i][n]
    BY <2>4 DEF LatestPlan
  <2>6. QED
    BY <1>1, <1>3, <2>1, <2>5 DEF HasPlan, NextVersion
<1>4. QED
  BY <1>2, <1>3

LEMMA LatestVersion ==
  ASSUME TypeOK, VersionsDense, NEW i \in Initiatives, HasPlan(i)
  PROVE  /\ Len(plans[i]) \in Nat \ {0}
         /\ LatestPlan(i).version = Len(plans[i])
<1>1. plans[i] \in Seq(PlanRow) /\ plans[i] # << >>
  BY DEF TypeOK, HasPlan
<1>2. Len(plans[i]) \in Nat \ {0} /\ Len(plans[i]) \in DOMAIN plans[i]
  BY <1>1
<1>3. QED
  BY <1>2, LatestIsLast DEF VersionsDense

\* The row a step may add to the versions of initiative i.
NewRow(i, p) ==
  /\ p \in PlanRow
  /\ p.version = Len(plans[i]) + 1
  /\ p.sub \in Submissions
  /\ subs[p.sub].init = i
  /\ p.trigger = IF subs[p.sub].type = "stage_gate" THEN "approval" ELSE "rebaseline"
  /\ p.trigger = "rebaseline" => HasPlan(i)
  /\ (p.trigger = "approval" /\ HasPlan(i))
       => ~ /\ plans[i][Len(plans[i])].trigger = "approval"
            /\ plans[i][Len(plans[i])].sub = p.sub

\* The approval of a submission adds at most one version, and to the plan of
\* the submission's own initiative.
LEMMA ApprovalAppends ==
  ASSUME TypeOK, VersionsDense, NEW s \in Submissions
  PROVE  LET i == subs[s].init
         IN  \/ PlansAfterApproval(s) = plans[i]
             \/ \E p : NewRow(i, p) /\ PlansAfterApproval(s) = Append(plans[i], p)
<1> DEFINE i == subs[s].init
           row(t) == [version |-> NextVersion(i), trigger |-> t, sub |-> s]
<1>1. s \in Nat \ {0} /\ i \in Initiatives /\ subs[s].type \in SubmissionTypes
  BY RowAt
<1>2. /\ HasPlan(i) => LatestPlan(i) = plans[i][Len(plans[i])]
      /\ NextVersion(i) = Len(plans[i]) + 1
  BY <1>1, LatestIsLast
<1>3. Len(plans[i]) \in Nat
  BY <1>1 DEF TypeOK
<1>4. CASE subs[s].type = "bankable_plan_rebaseline"
  <2>1. PlansAfterApproval(s) = RebaselineBankablePlan(i, s)
    BY <1>4 DEF PlansAfterApproval
  <2>2. CASE HasPlan(i)
    <3>1. PlansAfterApproval(s) = Append(plans[i], row("rebaseline"))
      BY <2>1, <2>2 DEF RebaselineBankablePlan, AppendVersion
    <3>2. NewRow(i, row("rebaseline"))
      BY <1>1, <1>2, <1>3, <1>4, <2>2 DEF NewRow, PlanRow
    <3>3. QED
      BY <3>1, <3>2
  <2>3. CASE ~ HasPlan(i)
    BY <2>1, <2>3 DEF RebaselineBankablePlan
  <2>4. QED
    BY <2>2, <2>3
<1>5. CASE subs[s].type = "stage_gate"
  <2>1. \/ PlansAfterApproval(s) = LockBankablePlan(i, s)
        \/ PlansAfterApproval(s) = plans[i]
    BY <1>5 DEF PlansAfterApproval
  <2>2. CASE HasPlan(i) /\ LatestPlan(i).trigger = "approval" /\ LatestPlan(i).sub = s
    BY <2>1, <2>2 DEF LockBankablePlan
  <2>3. CASE ~ (HasPlan(i) /\ LatestPlan(i).trigger = "approval" /\ LatestPlan(i).sub = s)
    <3>1. LockBankablePlan(i, s) = Append(plans[i], row("approval"))
      BY <2>3 DEF LockBankablePlan, AppendVersion
    <3>2. NewRow(i, row("approval"))
      BY <1>1, <1>2, <1>3, <1>5, <2>3 DEF NewRow, PlanRow
    <3>3. QED
      BY <2>1, <3>1, <3>2
  <2>4. QED
    BY <2>2, <2>3
<1>6. QED
  BY <1>1, <1>4, <1>5 DEF SubmissionTypes

-------------------------------------------------------------------------------
(* What one step does to the tables *)

\* Every handler runs its first call: the row comes before the plan, and the
\* plan before the audit entry.
LEMMA CallsInOrder ==
  ASSUME NEW done \in Completed(DecideCalls)
  PROVE  /\ "row" \in done
         /\ "audit" \in done => "plan" \in done
<1> DEFINE upTo(n) == {DecideCalls[k] : k \in 1 .. n}
<1>1. /\ DecideCalls[1] = "row" /\ DecideCalls[2] = "stage"
      /\ DecideCalls[3] = "plan" /\ DecideCalls[4] = "audit"
      /\ Len(DecideCalls) = 4 /\ DOMAIN DecideCalls = 1 .. 4
  BY DEF DecideCalls
<1>2. PICK n \in 1 .. 4 : done = upTo(n)
  BY <1>1 DEF Completed
<1>3. "row" \in upTo(n)
  BY <1>1
<1>4. ASSUME "audit" \in upTo(n)
      PROVE  "plan" \in upTo(n)
  <2>1. PICK k \in 1 .. n : DecideCalls[k] = "audit"
    BY <1>4
  <2>2. k = 4
    BY <1>1, <2>1
  <2>3. 3 \in 1 .. n
    BY <2>2
  <2>4. QED
    BY <1>1, <2>3
<1>5. QED
  BY <1>2, <1>3, <1>4

\* A step adds at most one row to the versions of at most one initiative.
LEMMA PlanStep ==
  ASSUME TypeOK, VersionsDense, [Next]_vars
  PROVE  \/ plans' = plans
         \/ \E i \in Initiatives : \E p :
               /\ NewRow(i, p)
               /\ plans' = [plans EXCEPT ![i] = Append(plans[i], p)]
<1>1. ASSUME NEW a \in Actors, NEW s \in Submissions, NEW outcome, NEW done,
             Decide(a, s, outcome, done), plans' # plans
      PROVE  \E i \in Initiatives : \E p :
               /\ NewRow(i, p)
               /\ plans' = [plans EXCEPT ![i] = Append(plans[i], p)]
  <2>1. subs[s].init \in Initiatives
    BY RowAt
  <2>2. plans' = [plans EXCEPT ![subs[s].init] = PlansAfterApproval(s)]
    BY <1>1 DEF Decide, DecidePlan
  <2>3. \/ PlansAfterApproval(s) = plans[subs[s].init]
        \/ \E p : /\ NewRow(subs[s].init, p)
                  /\ PlansAfterApproval(s) = Append(plans[subs[s].init], p)
    BY ApprovalAppends
  <2>4. PlansAfterApproval(s) # plans[subs[s].init]
    BY <1>1, <2>1, <2>2 DEF TypeOK
  <2>5. QED
    BY <2>1, <2>2, <2>3, <2>4
<1>2. QED
  BY <1>1 DEF Next, vars, SubmitGate, RequestRebaseline, Submit, PatchStage, UpdateSettings

\* Seen from one initiative: its rows stay, and at most one follows them.
LEMMA PlansGrow ==
  ASSUME TypeOK, VersionsDense, [Next]_vars, NEW i \in Initiatives
  PROVE  /\ plans'[i] \in Seq(PlanRow)
         /\ \A k \in DOMAIN plans[i] : k \in DOMAIN plans'[i] /\ plans'[i][k] = plans[i][k]
         /\ \A k \in DOMAIN plans'[i] \ DOMAIN plans[i] :
              k = Len(plans[i]) + 1 /\ NewRow(i, plans'[i][k])
         /\ Len(plans'[i]) >= Len(plans[i])
<1>1. plans[i] \in Seq(PlanRow) /\ DOMAIN plans[i] = 1 .. Len(plans[i]) /\ Len(plans[i]) \in Nat
  BY DEF TypeOK
<1>2. CASE plans'[i] = plans[i]
  BY <1>1, <1>2
<1>3. ASSUME NEW p, NewRow(i, p), plans'[i] = Append(plans[i], p)
      PROVE  /\ plans'[i] \in Seq(PlanRow)
             /\ DOMAIN plans'[i] = 1 .. Len(plans[i]) + 1
             /\ Len(plans'[i]) = Len(plans[i]) + 1
             /\ plans'[i][Len(plans[i]) + 1] = p
             /\ \A k \in 1 .. Len(plans[i]) : plans'[i][k] = plans[i][k]
  <2>1. p \in PlanRow
    BY <1>3 DEF NewRow
  <2>2. QED
    BY <1>1, <1>3, <2>1, AppendProperties
<1>4. ASSUME NEW p, NewRow(i, p), plans'[i] = Append(plans[i], p)
      PROVE  /\ \A k \in DOMAIN plans[i] : k \in DOMAIN plans'[i] /\ plans'[i][k] = plans[i][k]
             /\ \A k \in DOMAIN plans'[i] \ DOMAIN plans[i] :
                  k = Len(plans[i]) + 1 /\ NewRow(i, plans'[i][k])
             /\ Len(plans'[i]) >= Len(plans[i])
  <2>1. \A k \in DOMAIN plans[i] : k \in DOMAIN plans'[i] /\ plans'[i][k] = plans[i][k]
    BY <1>1, <1>3, <1>4
  <2>2. \A k \in DOMAIN plans'[i] \ DOMAIN plans[i] : k = Len(plans[i]) + 1
    BY <1>1, <1>3, <1>4
  <2>3. QED
    BY <1>1, <1>3, <1>4, <2>1, <2>2
<1>5. \/ plans'[i] = plans[i]
      \/ \E p : NewRow(i, p) /\ plans'[i] = Append(plans[i], p)
  BY PlanStep DEF TypeOK
<1>6. QED
  BY <1>2, <1>3, <1>4, <1>5

\* A step keeps the submissions there are, except for their decisions, and adds
\* at most one, which is pending.
LEMMA SubsStep ==
  ASSUME TypeOK, VersionsDense, [Next]_vars
  PROVE  /\ subs' \in Seq(SubmissionRow)
         /\ Submissions' \in {Submissions, Submissions \cup {Len(subs) + 1}}
         /\ \A s \in Submissions :
              /\ s \in Submissions'
              /\ subs'[s].init = subs[s].init
              /\ subs'[s].gate = subs[s].gate
              /\ subs'[s].type = subs[s].type
              /\ subs'[s].requested = subs[s].requested
              /\ subs'[s].decision = "pending" => subs[s].decision = "pending"
         /\ \A s \in Submissions' \ Submissions : subs'[s].decision = "pending"
<1> DEFINE Result == /\ subs' \in Seq(SubmissionRow)
                     /\ Submissions' \in {Submissions, Submissions \cup {Len(subs) + 1}}
                     /\ \A s \in Submissions :
                          /\ s \in Submissions'
                          /\ subs'[s].init = subs[s].init
                          /\ subs'[s].gate = subs[s].gate
                          /\ subs'[s].type = subs[s].type
                          /\ subs'[s].requested = subs[s].requested
                          /\ subs'[s].decision = "pending" => subs[s].decision = "pending"
                     /\ \A s \in Submissions' \ Submissions : subs'[s].decision = "pending"
<1>0. subs \in Seq(SubmissionRow) /\ Submissions = 1 .. Len(subs) /\ Len(subs) \in Nat
  BY DEF TypeOK, Submissions
<1>1. CASE subs' = subs
  BY <1>0, <1>1 DEF Submissions
<1>2. ASSUME NEW row \in SubmissionRow, row.decision = "pending", Submit(row)
      PROVE  Result
  <2>1. subs' = Append(subs, row)
    BY <1>2 DEF Submit
  <2>2. /\ subs' \in Seq(SubmissionRow)
        /\ Submissions' = Submissions \cup {Len(subs) + 1}
        /\ subs'[Len(subs) + 1] = row
        /\ \A s \in Submissions : subs'[s] = subs[s]
    BY <1>0, <2>1, AppendProperties DEF Submissions
  <2>3. QED
    BY <1>0, <1>2, <2>2
<1>3. ASSUME NEW a \in Actors, NEW i \in Initiatives, NEW g \in Gates, SubmitGate(a, i, g)
      PROVE  Result
  <2>1. Submission(i, g, "stage_gate", 0) \in SubmissionRow
    BY DEF Submission, SubmissionRow, SubmissionTypes
  <2>2. QED
    BY <1>2, <1>3, <2>1 DEF SubmitGate, Submission
<1>4. ASSUME NEW a \in Actors, NEW i \in Initiatives, RequestRebaseline(a, i)
      PROVE  Result
  <2> DEFINE row == Submission(i, settings.planGate, "bankable_plan_rebaseline",
                               LatestPlan(i).version + 1)
  <2>1. HasPlan(i) /\ Submit(row)
    BY <1>4 DEF RequestRebaseline
  <2>2. LatestPlan(i).version \in Nat
    BY <2>1, LatestVersion
  <2>3. settings.planGate \in Gates
    BY DEF TypeOK, Settings
  <2>4. row \in SubmissionRow /\ row.decision = "pending"
    BY <2>2, <2>3 DEF Submission, SubmissionRow, SubmissionTypes
  <2>5. QED
    BY <1>2, <2>1, <2>4
<1>5. ASSUME NEW a \in Actors, NEW s \in Submissions, NEW outcome \in Outcomes, NEW done,
             Decide(a, s, outcome, done)
      PROVE  Result
  <2>1. CASE subs' = subs
    BY <1>1, <2>1
  <2>2. CASE subs' = [subs EXCEPT ![s].decision = outcome]
    <3>1. subs[s] \in SubmissionRow
      BY RowAt
    <3>2. [subs[s] EXCEPT !.decision = outcome] \in SubmissionRow
      BY <3>1 DEF SubmissionRow
    <3>3. /\ subs' \in Seq(SubmissionRow)
          /\ Submissions' = Submissions
      BY <1>0, <2>2, <3>2, ExceptSeq DEF Submissions
    <3>4. outcome # "pending"
      BY DEF Outcomes
    <3>5. ASSUME NEW t \in Submissions
          PROVE  /\ subs'[t].init = subs[t].init
                 /\ subs'[t].gate = subs[t].gate
                 /\ subs'[t].type = subs[t].type
                 /\ subs'[t].requested = subs[t].requested
                 /\ subs'[t].decision = "pending" => subs[t].decision = "pending"
      <4>1. subs[t] \in SubmissionRow
        BY RowAt
      <4>2. CASE t = s
        BY <1>0, <2>2, <3>1, <3>4, <4>2 DEF SubmissionRow
      <4>3. CASE t # s
        BY <1>0, <2>2, <4>3
      <4>4. QED
        BY <4>2, <4>3
    <3>6. QED
      BY <3>3, <3>5
  <2>3. QED
    BY <1>5, <2>1, <2>2 DEF Decide, DecideRow
<1>6. QED
  BY <1>1, <1>3, <1>4, <1>5 DEF Next, vars, PatchStage, UpdateSettings

-------------------------------------------------------------------------------
(* Types and version numbers *)

\* Neither is inductive alone: the number of a new version is in range because
\* the numbers so far are dense, and the lengths they are compared with exist
\* because the tables are typed.
TypedVersions == TypeOK /\ VersionsDense

LEMMA InitTypedVersions == Init => TypedVersions
<1>1. ASSUME Init
      PROVE  TypedVersions
  <2>1. /\ settings \in Settings
        /\ subs \in Seq(SubmissionRow)
        /\ plans \in [Initiatives -> Seq(PlanRow)]
        /\ \A i \in Initiatives : DOMAIN plans[i] = {}
    BY <1>1, SettingsAssumption DEF Init
  <2>2. stage \in [Initiatives -> Chain \cup {OffChain}]
    BY <1>1, GatesAssumption DEF Init, Chain
  <2>3. audit \subseteq Submissions /\ everApproved \subseteq Submissions
    BY <1>1 DEF Init
  <2>4. QED
    BY <2>1, <2>2, <2>3 DEF TypedVersions, TypeOK, VersionsDense
<1>2. QED
  BY <1>1

LEMMA StepTypedVersions == TypedVersions /\ [Next]_vars => TypedVersions'
<1> SUFFICES ASSUME TypeOK, VersionsDense, [Next]_vars
             PROVE  TypeOK' /\ VersionsDense'
  BY DEF TypedVersions
<1>1. /\ subs' \in Seq(SubmissionRow)
      /\ Submissions \subseteq Submissions'
  BY SubsStep
<1>2. settings' \in Settings
  BY SettingsAssumption DEF TypeOK, Next, vars, SubmitGate, RequestRebaseline, Submit, Decide,
     PatchStage, UpdateSettings
<1>3. stage' \in [Initiatives -> Chain \cup {OffChain}]
  <2>1. CASE stage' = stage
    BY <2>1 DEF TypeOK
  <2>2. ASSUME NEW s \in Submissions, stage' = [stage EXCEPT ![subs[s].init] = subs[s].gate]
        PROVE  stage' \in [Initiatives -> Chain \cup {OffChain}]
    <3>1. subs[s].gate \in Chain
      BY RowAt, GatesAssumption DEF Gates, Chain
    <3>2. QED
      BY <2>2, <3>1 DEF TypeOK
  <2>3. ASSUME NEW i \in Initiatives, NEW r \in StageRequests, stage' = [stage EXCEPT ![i] = r]
        PROVE  stage' \in [Initiatives -> Chain \cup {OffChain}]
    BY <2>3, BoundsAssumption DEF TypeOK
  <2>4. QED
    BY <2>1, <2>2, <2>3 DEF Next, vars, SubmitGate, RequestRebaseline, Submit, Decide,
       DecideStage, PatchStage, UpdateSettings
<1>4. audit' \subseteq Submissions' /\ everApproved' \subseteq Submissions'
  <2>1. audit' = audit \/ \E s \in Submissions : audit' = audit \cup {s}
    BY DEF Next, vars, SubmitGate, RequestRebaseline, Submit, Decide, DecideAudit,
       PatchStage, UpdateSettings
  <2>2. everApproved' = everApproved \/ \E s \in Submissions : everApproved' = everApproved \cup {s}
    BY DEF Next, vars, SubmitGate, RequestRebaseline, Submit, Decide, DecideRow,
       PatchStage, UpdateSettings
  <2>3. QED
    BY <1>1, <2>1, <2>2 DEF TypeOK
<1>5. ASSUME NEW i \in Initiatives
      PROVE  /\ plans'[i] \in Seq(PlanRow)
             /\ \A k \in DOMAIN plans'[i] : plans'[i][k].version = k
  <2>1. \A k \in DOMAIN plans'[i] \ DOMAIN plans[i] :
           k = Len(plans[i]) + 1 /\ plans'[i][k].version = Len(plans[i]) + 1
    BY PlansGrow DEF NewRow
  <2>2. QED
    BY <2>1, PlansGrow DEF VersionsDense
<1>6. plans' \in [Initiatives -> Seq(PlanRow)]
  <2>1. \/ plans' = plans
        \/ \E s \in Submissions : plans' = [plans EXCEPT ![subs[s].init] = PlansAfterApproval(s)]
    BY DEF Next, vars, SubmitGate, RequestRebaseline, Submit, Decide, DecidePlan,
       PatchStage, UpdateSettings
  <2>2. DOMAIN plans' = Initiatives /\ plans' = [i \in DOMAIN plans' |-> plans'[i]]
    BY <2>1 DEF TypeOK
  <2>3. QED
    BY <1>5, <2>2
<1>7. QED
  BY <1>1, <1>2, <1>3, <1>4, <1>5, <1>6 DEF TypeOK, VersionsDense

\* The tables are typed and refer to rows that exist, whatever the handlers,
\* their failures and the administrator do.
THEOREM TypeCorrect == Spec => []TypeOK
<1>1. TypedVersions => TypeOK
  BY DEF TypedVersions
<1>2. QED
  BY <1>1, InitTypedVersions, StepTypedVersions, PTL DEF Spec

\* Version numbers are 1, 2, 3, ...: "the highest version" and "the version
\* written last" are the same row.
THEOREM VersionsAreDense == Spec => []VersionsDense
<1>1. TypedVersions => VersionsDense
  BY DEF TypedVersions
<1>2. QED
  BY <1>1, InitTypedVersions, StepTypedVersions, PTL DEF Spec

-------------------------------------------------------------------------------
(* Pending submissions *)

\* A submission that a step adds passed the check of its handler.
LEMMA NewSubmission ==
  ASSUME TypedVersions, [Next]_vars, NEW s \in Submissions' \ Submissions
  PROVE  LET i == subs'[s].init
         IN  /\ i \in Initiatives
             /\ plans' = plans
             /\ subs'[s].type = "stage_gate" => ~ HasPending(i, subs'[s].gate)
             /\ subs'[s].type = "bankable_plan_rebaseline"
                  => /\ ~ HasPendingRebaseline(i)
                     /\ HasPlan(i)
                     /\ subs'[s].requested = Len(plans[i]) + 1
<1> USE DEF TypedVersions
<1> DEFINE Checked == LET i == subs'[s].init
                      IN  /\ i \in Initiatives
                          /\ plans' = plans
                          /\ subs'[s].type = "stage_gate" => ~ HasPending(i, subs'[s].gate)
                          /\ subs'[s].type = "bankable_plan_rebaseline"
                               => /\ ~ HasPendingRebaseline(i)
                                  /\ HasPlan(i)
                                  /\ subs'[s].requested = Len(plans[i]) + 1
<1>0. subs \in Seq(SubmissionRow) /\ Submissions = 1 .. Len(subs) /\ Len(subs) \in Nat
  BY DEF TypeOK, Submissions
<1>1. ASSUME NEW row, Submit(row)
      PROVE  subs'[s] = row /\ plans' = plans
  <2>1. subs' = Append(subs, row) /\ plans' = plans
    BY <1>1 DEF Submit
  <2>2. s = Len(subs) + 1
    BY <1>0, <2>1 DEF Submissions
  <2>3. QED
    BY <1>0, <2>1, <2>2
<1>2. ASSUME NEW a \in Actors, NEW i \in Initiatives, NEW g \in Gates, SubmitGate(a, i, g)
      PROVE  Checked
  BY <1>1, <1>2 DEF SubmitGate, Submission
<1>3. ASSUME NEW a \in Actors, NEW i \in Initiatives, RequestRebaseline(a, i)
      PROVE  Checked
  <2>1. /\ HasPlan(i) /\ ~ HasPendingRebaseline(i)
        /\ Submit(Submission(i, settings.planGate, "bankable_plan_rebaseline",
                             LatestPlan(i).version + 1))
    BY <1>3 DEF RequestRebaseline
  <2>2. LatestPlan(i).version = Len(plans[i])
    BY <2>1, LatestVersion
  <2>3. QED
    BY <1>1, <2>1, <2>2 DEF Submission
<1>4. CASE UNCHANGED subs
  BY <1>4 DEF Submissions
<1>5. ASSUME NEW a \in Actors, NEW t \in Submissions, NEW outcome, NEW done,
             Decide(a, t, outcome, done)
      PROVE  FALSE
  BY <1>0, <1>5 DEF Decide, DecideRow, Submissions
<1>6. QED
  BY <1>2, <1>3, <1>4, <1>5 DEF Next, vars, PatchStage, UpdateSettings

\* Two submissions of a kind that wait for the same decision.
Rivals(s, t) ==
  /\ subs[s].decision = "pending" /\ subs[t].decision = "pending"
  /\ subs[s].init = subs[t].init
  /\ subs[s].type = subs[t].type
  /\ subs[s].type = "stage_gate" => subs[s].gate = subs[t].gate

LEMMA StepOnePending == TypedVersions /\ OnePendingOfAKind /\ [Next]_vars => OnePendingOfAKind'
<1> SUFFICES ASSUME TypedVersions, OnePendingOfAKind, [Next]_vars,
                    NEW s \in Submissions', NEW t \in Submissions', Rivals(s, t)'
             PROVE  s = t
  BY DEF OnePendingOfAKind, Rivals
<1>0. /\ Submissions' \in {Submissions, Submissions \cup {Len(subs) + 1}}
      /\ subs' \in Seq(SubmissionRow)
      /\ \A r \in Submissions :
           /\ subs'[r].init = subs[r].init /\ subs'[r].gate = subs[r].gate
           /\ subs'[r].type = subs[r].type
           /\ subs'[r].decision = "pending" => subs[r].decision = "pending"
  BY SubsStep DEF TypedVersions
<1>1. CASE s \in Submissions /\ t \in Submissions
  BY <1>0, <1>1 DEF OnePendingOfAKind, Rivals
<1>2. ASSUME NEW new \in Submissions' \ Submissions, NEW old \in Submissions,
             subs'[old].decision = "pending", subs'[new].init = subs'[old].init,
             subs'[new].type = subs'[old].type,
             subs'[new].type = "stage_gate" => subs'[new].gate = subs'[old].gate
      PROVE  FALSE
  <2>1. subs'[new].type \in SubmissionTypes
    <3>1. subs'[new] \in SubmissionRow
      BY <1>0 DEF Submissions
    <3>2. QED
      BY <3>1 DEF SubmissionRow
  <2>2. /\ subs'[new].type = "stage_gate" => ~ HasPending(subs'[new].init, subs'[new].gate)
        /\ subs'[new].type = "bankable_plan_rebaseline" => ~ HasPendingRebaseline(subs'[new].init)
    BY NewSubmission
  <2>3. /\ subs[old].decision = "pending" /\ subs[old].init = subs'[new].init
        /\ subs[old].type = subs'[new].type
        /\ subs[old].type = "stage_gate" => subs[old].gate = subs'[new].gate
    BY <1>0, <1>2
  <2>4. CASE subs'[new].type = "stage_gate"
    BY <2>2, <2>3, <2>4 DEF HasPending
  <2>5. CASE subs'[new].type = "bankable_plan_rebaseline"
    BY <2>2, <2>3, <2>5 DEF HasPendingRebaseline
  <2>6. QED
    BY <2>1, <2>4, <2>5 DEF SubmissionTypes
<1>3. CASE s \notin Submissions /\ t \in Submissions
  BY <1>2, <1>3 DEF Rivals
<1>4. CASE s \in Submissions /\ t \notin Submissions
  BY <1>2, <1>4 DEF Rivals
<1>5. CASE s \notin Submissions /\ t \notin Submissions
  BY <1>0, <1>5
<1>6. QED
  BY <1>1, <1>3, <1>4, <1>5

\* A gate, and the plan of an initiative, wait for one decision at a time: no
\* order of submissions, decisions, repeated decisions and changes of the
\* settings makes two.
THEOREM OnePending == Spec => []OnePendingOfAKind
<1>1. Init => OnePendingOfAKind
  BY DEF Init, OnePendingOfAKind, Submissions
<1>2. QED
  BY <1>1, InitTypedVersions, StepTypedVersions, StepOnePending, PTL DEF Spec

-------------------------------------------------------------------------------
(* Where versions come from *)

LEMMA StepProvenance == TypedVersions /\ PlanProvenance /\ [Next]_vars => PlanProvenance'
<1> SUFFICES ASSUME TypeOK, VersionsDense, PlanProvenance, [Next]_vars,
                    NEW i \in Initiatives, NEW k \in DOMAIN plans'[i]
             PROVE  LET p == plans'[i][k]
                    IN  /\ p.sub \in Submissions'
                        /\ subs'[p.sub].init = i
                        /\ p.trigger = IF subs'[p.sub].type = "stage_gate"
                                       THEN "approval" ELSE "rebaseline"
                        /\ k = 1 => p.trigger = "approval"
  BY DEF TypedVersions, PlanProvenance
<1> DEFINE p == plans'[i][k]
<1>1. /\ p.sub \in Submissions
      /\ subs[p.sub].init = i
      /\ p.trigger = IF subs[p.sub].type = "stage_gate" THEN "approval" ELSE "rebaseline"
      /\ k = 1 => p.trigger = "approval"
  <2>1. CASE k \in DOMAIN plans[i]
    BY <2>1, PlansGrow DEF PlanProvenance
  <2>2. CASE k \notin DOMAIN plans[i]
    <3>1. k = Len(plans[i]) + 1 /\ NewRow(i, p)
      BY <2>2, PlansGrow
    <3>2. k = 1 => ~ HasPlan(i)
      BY <3>1 DEF HasPlan, TypeOK
    <3>3. QED
      BY <3>1, <3>2 DEF NewRow
  <2>3. QED
    BY <2>1, <2>2
<1>2. QED
  BY <1>1, SubsStep

LEMMA StepRebaselineHasPlan ==
  TypedVersions /\ RebaselineHasPlan /\ [Next]_vars => RebaselineHasPlan'
<1> SUFFICES ASSUME TypedVersions, RebaselineHasPlan, [Next]_vars,
                    NEW s \in Submissions', subs'[s].type = "bankable_plan_rebaseline"
             PROVE  /\ plans'[subs'[s].init] # << >>
                    /\ subs'[s].requested \in 2 .. Len(plans'[subs'[s].init]) + 1
  BY DEF RebaselineHasPlan, HasPlan
<1> DEFINE i == subs'[s].init
<1>1. CASE s \in Submissions
  <2>1. /\ subs[s].init = i /\ subs[s].type = "bankable_plan_rebaseline"
        /\ subs[s].requested = subs'[s].requested
        /\ i \in Initiatives
    BY <1>1, SubsStep, RowAt DEF TypedVersions
  <2>2. plans[i] # << >> /\ subs'[s].requested \in 2 .. Len(plans[i]) + 1
    BY <1>1, <2>1 DEF RebaselineHasPlan, HasPlan
  <2>3. /\ plans[i] \in Seq(PlanRow) /\ plans'[i] \in Seq(PlanRow)
        /\ Len(plans'[i]) >= Len(plans[i])
    BY <2>1, PlansGrow DEF TypedVersions, TypeOK
  <2>4. QED
    BY <2>2, <2>3
<1>2. CASE s \notin Submissions
  <2>1. /\ i \in Initiatives /\ plans' = plans /\ plans[i] # << >>
        /\ subs'[s].requested = Len(plans[i]) + 1
    BY <1>2, NewSubmission DEF HasPlan
  <2>2. plans[i] \in Seq(PlanRow)
    BY <2>1 DEF TypedVersions, TypeOK
  <2>3. QED
    BY <2>1, <2>2
<1>3. QED
  BY <1>1, <1>2

LEMMA StepMovesForward ==
  TypedVersions /\ PlansAndRequests /\ [Next]_vars => RebaselineMovesForward'
<1> SUFFICES ASSUME TypeOK, VersionsDense, PlansAndRequests, [Next]_vars,
                    NEW i \in Initiatives, NEW k \in DOMAIN plans'[i],
                    plans'[i][k].trigger = "rebaseline"
             PROVE  plans'[i][k].version >= subs'[plans'[i][k].sub].requested
  BY DEF TypedVersions, RebaselineMovesForward
<1> DEFINE p == plans'[i][k]
<1>1. CASE k \in DOMAIN plans[i]
  <2>1. p = plans[i][k] /\ p.sub \in Submissions
    BY <1>1, PlansGrow DEF PlansAndRequests, PlanProvenance
  <2>2. p.version >= subs[p.sub].requested
    BY <1>1, <2>1 DEF PlansAndRequests, RebaselineMovesForward
  <2>3. QED
    BY <2>1, <2>2, SubsStep
<1>2. CASE k \notin DOMAIN plans[i]
  <2>1. NewRow(i, p)
    BY <1>2, PlansGrow
  <2>2. /\ p.sub \in Submissions /\ subs[p.sub].init = i
        /\ subs[p.sub].type # "stage_gate"
        /\ p.version = Len(plans[i]) + 1
    BY <2>1 DEF NewRow
  <2>3. subs[p.sub].requested \in 2 .. Len(plans[i]) + 1
    BY <2>2, RowAt DEF PlansAndRequests, RebaselineHasPlan, SubmissionTypes
  <2>4. Len(plans[i]) \in Nat
    BY DEF TypeOK
  <2>5. QED
    BY <2>2, <2>3, <2>4, SubsStep
<1>3. QED
  BY <1>1, <1>2

\* A version names a submission of its own initiative and kind, and the first
\* one is an approval; a rebaseline request always has a plan to rebaseline, so
\* its approval never ends in "No bankable plan exists"; and the version it
\* writes is never older than the one that was asked for.
THEOREM Provenance == Spec => []PlansAndRequests
<1>1. Init => PlansAndRequests
  BY DEF Init, PlansAndRequests, PlanProvenance, RebaselineHasPlan, RebaselineMovesForward, Submissions
<1>2. TypedVersions /\ PlansAndRequests /\ [Next]_vars => PlansAndRequests'
  BY StepProvenance, StepRebaselineHasPlan, StepMovesForward DEF PlansAndRequests
<1>3. QED
  BY <1>1, <1>2, InitTypedVersions, StepTypedVersions, PTL DEF Spec

-------------------------------------------------------------------------------
(* Approvals and their effects *)

\* Every approver may also update the submission row: what PlanHasApproval and
\* StageHasApproval need of the gate definitions, and the code does not check.
ApproversMayUpdate == \A g \in Gates : ApproverRoles[g] \subseteq GovernanceManagers

\* Under it, a decision that says "approved" stores the approval.
LEMMA ApprovalIsStored ==
  ASSUME ApproversMayUpdate, TypeOK,
         NEW a \in Actors, NEW s \in Submissions, NEW done \in Completed(DecideCalls),
         Decide(a, s, "approved", done)
  PROVE  everApproved' = everApproved \cup {s}
<1>1. RoleOf[a] \in GovernanceManagers
  BY RowAt DEF Decide, MayActOnGate, ApproversMayUpdate, GovernanceManagers
<1>2. "row" \in done
  BY CallsInOrder
<1>3. QED
  BY <1>1, <1>2 DEF Decide, DecideRow

LEMMA HistoryGrows == [Next]_vars => everApproved \subseteq everApproved'
BY DEF Next, vars, SubmitGate, RequestRebaseline, Submit, Decide, DecideRow, PatchStage,
   UpdateSettings

LEMMA StepPlanHasApproval ==
  ASSUME ApproversMayUpdate
  PROVE  TypedVersions /\ PlanHasApproval /\ [Next]_vars => PlanHasApproval'
<1> SUFFICES ASSUME TypeOK, VersionsDense, PlanHasApproval, [Next]_vars,
                    NEW i \in Initiatives, NEW k \in DOMAIN plans'[i]
             PROVE  plans'[i][k].sub \in everApproved'
  BY DEF TypedVersions, PlanHasApproval
<1>1. CASE k \in DOMAIN plans[i]
  BY <1>1, PlansGrow, HistoryGrows DEF PlanHasApproval
<1>2. CASE k \notin DOMAIN plans[i]
  <2>1. PICK a \in Actors, s \in Submissions, outcome \in Outcomes, done \in Completed(DecideCalls) :
            Decide(a, s, outcome, done)
    BY <1>2 DEF Next, vars, SubmitGate, RequestRebaseline, Submit, PatchStage, UpdateSettings
  <2>2. outcome = "approved"
    BY <1>2, <2>1 DEF Decide, DecidePlan
  <2>3. plans'[i][k].sub = s
    <3>1. /\ plans' = [plans EXCEPT ![subs[s].init] = PlansAfterApproval(s)]
          /\ subs[s].init = i
      BY <1>2, <2>1 DEF Decide, DecidePlan, TypeOK
    <3>2. \/ PlansAfterApproval(s) = AppendVersion(i, "approval", s)
          \/ PlansAfterApproval(s) = AppendVersion(i, "rebaseline", s)
      BY <1>2, <3>1 DEF PlansAfterApproval, LockBankablePlan, RebaselineBankablePlan, TypeOK
    <3>3. k = Len(plans[i]) + 1
      BY <1>2, PlansGrow
    <3>4. plans[i] \in Seq(PlanRow)
      BY DEF TypeOK
    <3>5. QED
      BY <3>1, <3>2, <3>3, <3>4 DEF AppendVersion, TypeOK
  <2>4. QED
    BY <2>1, <2>2, <2>3, ApprovalIsStored
<1>3. QED
  BY <1>1, <1>2

\* Every plan version comes from a submission whose row stored the approval, in
\* every tenant whose approver roles may update submissions.  Without the
\* assumption it is false.
THEOREM PlansAreApproved ==
  ASSUME ApproversMayUpdate
  PROVE  Spec => []PlanHasApproval
<1>1. Init => PlanHasApproval
  BY DEF Init, PlanHasApproval
<1>2. TypedVersions /\ PlanHasApproval /\ [Next]_vars => PlanHasApproval'
  BY StepPlanHasApproval
<1>3. QED
  BY <1>1, <1>2, InitTypedVersions, StepTypedVersions, PTL DEF Spec

\* A row that says "approved" now has said it.
ApprovedInHistory ==
  \A s \in Submissions : subs[s].decision = "approved" => s \in everApproved

\* The stage form offers stages of the chain only: the other thing
\* StageHasApproval needs, and the code does not check.
FormStaysOnChain == StageRequests \subseteq Chain

StageInv == ApprovedInHistory /\ StageHasApproval /\ stage \in [Initiatives -> Chain]

LEMMA StepApprovedInHistory == TypedVersions /\ ApprovedInHistory /\ [Next]_vars => ApprovedInHistory'
<1> SUFFICES ASSUME TypeOK, VersionsDense, ApprovedInHistory, [Next]_vars,
                    NEW s \in Submissions', subs'[s].decision = "approved"
             PROVE  s \in everApproved'
  BY DEF TypedVersions, ApprovedInHistory
<1>1. s \in Submissions
  BY SubsStep
<1>2. CASE subs[s].decision = "approved"
  BY <1>1, <1>2, HistoryGrows DEF ApprovedInHistory
<1>3. CASE subs[s].decision # "approved"
  <2>1. PICK a \in Actors, t \in Submissions, outcome \in Outcomes, done \in Completed(DecideCalls) :
            Decide(a, t, outcome, done) /\ subs' # subs
    <3>1. subs \in Seq(SubmissionRow) /\ s \in 1 .. Len(subs)
      BY <1>1 DEF TypeOK, Submissions
    <3>2. ASSUME NEW row, Submit(row)
          PROVE  FALSE
      BY <1>3, <3>1, <3>2 DEF Submit
    <3>3. QED
      BY <1>3, <3>2 DEF Next, vars, SubmitGate, RequestRebaseline, PatchStage, UpdateSettings
  <2>2. /\ subs' = [subs EXCEPT ![t].decision = outcome]
        /\ outcome = "approved" => t \in everApproved'
    BY <2>1 DEF Decide, DecideRow
  <2>3. s = t /\ outcome = "approved"
    <3>1. subs \in Seq(SubmissionRow) /\ s \in DOMAIN subs /\ t \in DOMAIN subs
      BY <1>1 DEF TypeOK, Submissions
    <3>2. s = t
      BY <1>3, <2>2, <3>1
    <3>3. subs[t] \in SubmissionRow
      BY RowAt
    <3>4. subs'[t].decision = outcome
      BY <2>2, <3>1, <3>3 DEF SubmissionRow
    <3>5. QED
      BY <3>2, <3>4
  <2>4. QED
    BY <2>2, <2>3
<1>4. QED
  BY <1>2, <1>3

LEMMA StepStageInv ==
  ASSUME ApproversMayUpdate, FormStaysOnChain
  PROVE  TypedVersions /\ StageInv /\ [Next]_vars => StageInv'
<1> SUFFICES ASSUME TypeOK, VersionsDense, StageInv, [Next]_vars
             PROVE  StageHasApproval' /\ stage' \in [Initiatives -> Chain]
  BY StepApprovedInHistory DEF TypedVersions, StageInv
<1>0. /\ \A i \in Initiatives : stage[i] \in Gates
            => \E s \in everApproved : subs[s].init = i /\ subs[s].gate >= stage[i]
      /\ stage \in [Initiatives -> Chain]
      /\ \A g \in Gates : g \in Nat
  BY GatesAssumption DEF StageInv, StageHasApproval, Gates
<1>1. ASSUME NEW i \in Initiatives, NEW s \in everApproved
      PROVE  /\ s \in everApproved' /\ s \in Submissions
             /\ subs'[s].init = subs[s].init /\ subs'[s].gate = subs[s].gate
  BY HistoryGrows, SubsStep DEF TypeOK
<1>2. CASE stage' = stage
  BY <1>0, <1>1, <1>2 DEF StageHasApproval
<1>3. ASSUME NEW a \in Actors, NEW s \in Submissions, NEW outcome \in Outcomes,
             NEW done \in Completed(DecideCalls), Decide(a, s, outcome, done), stage' # stage
      PROVE  StageHasApproval' /\ stage' \in [Initiatives -> Chain]
  <2>1. outcome = "approved" /\ stage' = [stage EXCEPT ![subs[s].init] = subs[s].gate]
    BY <1>3 DEF Decide, DecideStage
  <2>2. s \in everApproved'
    BY <1>3, <2>1, ApprovalIsStored
  <2>3. subs'[s].init = subs[s].init /\ subs'[s].gate = subs[s].gate
    BY SubsStep
  <2>4. subs[s].gate \in Gates /\ subs[s].gate \in Chain
    BY RowAt, GatesAssumption DEF Gates, Chain
  <2>5. stage' \in [Initiatives -> Chain]
    BY <1>0, <2>1, <2>4
  <2>6. ASSUME NEW j \in Initiatives, stage'[j] \in Gates
        PROVE  \E t \in everApproved' : subs'[t].init = j /\ subs'[t].gate >= stage'[j]
    <3>1. CASE j = subs[s].init
      <4>1. stage'[j] = subs[s].gate
        BY <1>0, <2>1, <3>1
      <4>2. QED
        BY <1>0, <2>2, <2>3, <2>4, <3>1, <4>1
    <3>2. CASE j # subs[s].init
      BY <1>0, <1>1, <2>1, <2>6, <3>2
    <3>3. QED
      BY <3>1, <3>2
  <2>7. QED
    BY <2>5, <2>6 DEF StageHasApproval
<1>4. ASSUME NEW i \in Initiatives, NEW r \in StageRequests, PatchStage(i, r)
      PROVE  StageHasApproval' /\ stage' \in [Initiatives -> Chain]
  <2>1. r \in Chain /\ stage[i] \in Chain /\ stage' = [stage EXCEPT ![i] = r]
    BY <1>0, <1>4 DEF PatchStage, FormStaysOnChain
  <2>2. ASSUME r \in Gates
        PROVE  \E s \in everApproved : subs[s].init = i /\ subs[s].gate >= r
    <3>1. CASE r > stage[i]
      <4>1. r \in (stage[i] + 1) .. r
        BY <2>1, <3>1, GatesAssumption DEF Chain
      <4>2. HasApprovedGateSubmission(i, r)
        BY <1>4, <2>1, <4>1 DEF PatchStage, StageTransitionAllowed
      <4>3. QED
        BY <1>0, <2>2, <4>2 DEF HasApprovedGateSubmission, StageInv, ApprovedInHistory
    <3>2. CASE ~ (r > stage[i])
      <4>1. stage[i] \in Gates /\ stage[i] >= r
        BY <2>1, <2>2, <3>2, GatesAssumption DEF Chain, Gates
      <4>2. PICK s \in everApproved : subs[s].init = i /\ subs[s].gate >= stage[i]
        BY <1>0, <4>1
      <4>3. subs[s].gate \in Nat /\ stage[i] \in Nat /\ r \in Nat
        BY <1>0, <1>1, <2>2, <4>1, RowAt
      <4>4. QED
        BY <4>1, <4>2, <4>3
    <3>3. QED
      BY <3>1, <3>2
  <2>3. QED
    BY <1>0, <1>1, <2>1, <2>2 DEF StageHasApproval
<1>5. QED
  BY <1>2, <1>3, <1>4 DEF Next, vars, SubmitGate, RequestRebaseline, Submit, UpdateSettings

\* No initiative stands at a stage without an approval of its gate or of a later
\* one, where approvers may update submissions and the form keeps to the chain.
THEOREM StagesAreApproved ==
  ASSUME ApproversMayUpdate, FormStaysOnChain
  PROVE  Spec => []StageHasApproval
<1>1. Init => StageInv
  BY GatesAssumption DEF Init, StageInv, StageHasApproval, ApprovedInHistory, Submissions, Chain, Gates
<1>2. TypedVersions /\ StageInv /\ [Next]_vars => StageInv'
  BY StepStageInv
<1>3. StageInv => StageHasApproval
  BY DEF StageInv
<1>4. QED
  BY <1>1, <1>2, <1>3, InitTypedVersions, StepTypedVersions, PTL DEF Spec

LEMMA StepAudited ==
  TypedVersions /\ AuditedApprovalTookEffect /\ [Next]_vars => AuditedApprovalTookEffect'
<1> SUFFICES ASSUME TypeOK, VersionsDense, AuditedApprovalTookEffect, [Next]_vars,
                    NEW s \in Submissions', s \in audit'
             PROVE  /\ s \in everApproved'
                    /\ subs'[s].type = "bankable_plan_rebaseline"
                         => \E k \in DOMAIN plans'[subs'[s].init] : plans'[subs'[s].init][k].sub = s
  BY DEF TypedVersions, AuditedApprovalTookEffect
<1>1. CASE s \in audit
  <2>1. s \in Submissions
    BY <1>1 DEF TypeOK
  <2>2. subs'[s].init = subs[s].init /\ subs'[s].type = subs[s].type /\ subs[s].init \in Initiatives
    BY <2>1, SubsStep, RowAt
  <2>3. QED
    BY <1>1, <2>1, <2>2, HistoryGrows, PlansGrow DEF AuditedApprovalTookEffect
<1>2. CASE s \notin audit
  <2>1. PICK a \in Actors, outcome \in Outcomes, done \in Completed(DecideCalls) :
            s \in Submissions /\ Decide(a, s, outcome, done)
    BY <1>2 DEF Next, vars, SubmitGate, RequestRebaseline, Submit, Decide, DecideAudit,
       PatchStage, UpdateSettings
  <2>2. /\ outcome = "approved" /\ "audit" \in done
        /\ RoleOf[a] \in GovernanceManagers /\ ~ PlanStepRaises(a, s)
    BY <1>2, <2>1 DEF Decide, DecideAudit
  <2>3. "row" \in done /\ "plan" \in done
    BY <2>2, CallsInOrder
  <2>4. s \in everApproved'
    BY <2>1, <2>2, <2>3 DEF Decide, DecideRow
  <2>5. ASSUME subs'[s].type = "bankable_plan_rebaseline"
        PROVE  \E k \in DOMAIN plans'[subs'[s].init] : plans'[subs'[s].init][k].sub = s
    <3> DEFINE i == subs[s].init
    <3>1. i \in Initiatives /\ subs'[s].init = i /\ subs[s].type = "bankable_plan_rebaseline"
      BY <2>1, <2>5, SubsStep, RowAt
    <3>2. plans[i] \in Seq(PlanRow) /\ HasPlan(i)
      BY <2>2, <3>1 DEF PlanStepRaises, TypeOK
    <3>3. plans'[i] = Append(plans[i], [version |-> NextVersion(i), trigger |-> "rebaseline", sub |-> s])
      BY <2>1, <2>2, <2>3, <3>1, <3>2
         DEF Decide, DecidePlan, PlansAfterApproval, RebaselineBankablePlan, AppendVersion, TypeOK
    <3>4. Len(plans[i]) + 1 \in DOMAIN plans'[i] /\ plans'[i][Len(plans[i]) + 1].sub = s
      BY <3>2, <3>3
    <3>5. QED
      BY <3>1, <3>4
  <2>6. QED
    BY <2>4, <2>5
<1>3. QED
  BY <1>1, <1>2

\* An "approve" entry in the audit log is never a claim the tables do not bear
\* out, whoever approves and wherever a handler fails.
THEOREM AuditIsTrue == Spec => []AuditedApprovalTookEffect
<1>1. Init => AuditedApprovalTookEffect
  BY DEF Init, AuditedApprovalTookEffect, Submissions
<1>2. QED
  BY <1>1, InitTypedVersions, StepTypedVersions, StepAudited, PTL DEF Spec

-------------------------------------------------------------------------------
(* The plan table implements the ledger *)

\* The ledger entry of a row.
EntryOf(p) == [trigger |-> p.trigger, sub |-> p.sub]

LEMMA LedgerRow ==
  ASSUME TypeOK, NEW i \in Initiatives
  PROVE  /\ Ledger[i] = [k \in 1 .. Len(plans[i]) |-> EntryOf(plans[i][k])]
         /\ Len(Ledger[i]) = Len(plans[i])
         /\ Len(plans[i]) \in Nat
<1>1. plans[i] \in Seq(PlanRow) /\ Len(plans[i]) \in Nat /\ DOMAIN plans[i] = 1 .. Len(plans[i])
  BY DEF TypeOK
<1>2. Ledger[i] = [k \in 1 .. Len(plans[i]) |-> EntryOf(plans[i][k])]
  BY <1>1 DEF Ledger, EntryOf
<1>3. QED
  BY <1>1, <1>2

\* The submissions the model lets there be are triggers of the ledger.
BoundedSubmissions == Len(subs) =< MaxSubmissions

LEMMA StepBounded == TypedVersions /\ BoundedSubmissions /\ [Next]_vars => BoundedSubmissions'
<1> SUFFICES ASSUME TypeOK, BoundedSubmissions, [Next]_vars
             PROVE  Len(subs') =< MaxSubmissions
  BY DEF TypedVersions, BoundedSubmissions
<1>1. subs \in Seq(SubmissionRow) /\ Len(subs) \in Nat
  BY DEF TypeOK
<1>2. ASSUME NEW row, Submit(row)
      PROVE  Len(subs') =< MaxSubmissions
  BY <1>1, <1>2, BoundsAssumption DEF Submit
<1>3. ASSUME NEW s \in Submissions, NEW outcome, subs' = [subs EXCEPT ![s].decision = outcome]
      PROVE  Len(subs') =< MaxSubmissions
  BY <1>1, <1>3 DEF BoundedSubmissions, Submissions
<1>4. CASE subs' = subs
  BY <1>4 DEF BoundedSubmissions
<1>5. QED
  BY <1>2, <1>3, <1>4 DEF Next, vars, SubmitGate, RequestRebaseline, Decide, DecideRow,
     PatchStage, UpdateSettings

LEMMA StepLedger == TypedVersions /\ BoundedSubmissions /\ [Next]_vars => [PL!Next]_Ledger
<1> SUFFICES ASSUME TypeOK, VersionsDense, BoundedSubmissions, [Next]_vars, plans' # plans
             PROVE  PL!Next
  BY DEF TypedVersions, Ledger
<1>0. PICK i \in Initiatives :
        \E p : NewRow(i, p) /\ plans' = [plans EXCEPT ![i] = Append(plans[i], p)]
  BY PlanStep
<1>1. PICK p : NewRow(i, p) /\ plans' = [plans EXCEPT ![i] = Append(plans[i], p)]
  BY <1>0
<1> DEFINE n == Len(plans[i])
<1>2. p \in PlanRow /\ p.sub \in 1 .. MaxSubmissions
  <2>1. p \in PlanRow /\ p.sub \in 1 .. Len(subs) /\ Len(subs) \in Nat
    BY <1>1 DEF NewRow, TypeOK, Submissions
  <2>2. QED
    BY <2>1, BoundsAssumption DEF BoundedSubmissions
<1>3. /\ Ledger[i] = [k \in 1 .. n |-> EntryOf(plans[i][k])]
      /\ Len(Ledger[i]) = n /\ n \in Nat
  BY LedgerRow
<1>4. Ledger' = [Ledger EXCEPT ![i] = Append(Ledger[i], EntryOf(p))]
  <2>1. TypeOK' /\ plans[i] \in Seq(PlanRow) /\ plans \in [Initiatives -> Seq(PlanRow)]
    BY StepTypedVersions DEF TypedVersions, TypeOK
  <2>2. DOMAIN Ledger = Initiatives /\ DOMAIN Ledger' = Initiatives
    BY DEF Ledger
  <2>3. ASSUME NEW j \in Initiatives, j # i
        PROVE  Ledger'[j] = Ledger[j]
    BY <1>1, <2>1, <2>3 DEF Ledger
  <2>4. Ledger'[i] = Append(Ledger[i], EntryOf(p))
    <3>1. /\ plans'[i] = Append(plans[i], p)
          /\ Len(plans'[i]) = n + 1 /\ plans'[i][n + 1] = p
          /\ \A k \in 1 .. n : plans'[i][k] = plans[i][k]
      BY <1>1, <1>2, <2>1, AppendProperties
    <3>2. Ledger'[i] = [k \in 1 .. n + 1 |-> EntryOf(plans'[i][k])]
      BY <2>1, <3>1 DEF Ledger, EntryOf, TypeOK
    <3>3. Append(Ledger[i], EntryOf(p)) =
             [k \in 1 .. n + 1 |-> IF k = n + 1 THEN EntryOf(p) ELSE EntryOf(plans[i][k])]
      <4>1. Ledger[i] \in Seq({EntryOf(plans[i][k]) : k \in 1 .. n})
        BY <1>3
      <4>2. QED
        BY <1>3, <4>1
    <3>4. QED
      BY <1>3, <3>1, <3>2, <3>3
  <2>5. QED
    BY <2>2, <2>3, <2>4 DEF Ledger
<1>5. CASE p.trigger = "rebaseline"
  <2>1. Ledger[i] # << >>
    <3>1. plans[i] # << >> /\ plans[i] \in Seq(PlanRow)
      BY <1>1, <1>5 DEF NewRow, HasPlan, TypeOK
    <3>2. Len(Ledger[i]) # 0
      BY <1>3, <3>1
    <3>3. QED
      BY <3>2
  <2>2. PL!Rebaseline(i, p.sub)
    BY <1>4, <1>5, <2>1 DEF PL!Rebaseline, EntryOf
  <2>3. QED
    BY <1>2, <2>2 DEF PL!Next
<1>6. CASE p.trigger = "approval"
  <2>1. ASSUME n > 0
        PROVE  Ledger[i][n] # EntryOf(p)
    <3>1. ~ (plans[i][n].trigger = "approval" /\ plans[i][n].sub = p.sub)
      BY <1>1, <1>3, <1>6, <2>1 DEF NewRow, HasPlan
    <3>2. Ledger[i][n] = EntryOf(plans[i][n])
      BY <1>3, <2>1
    <3>3. QED
      BY <1>6, <3>1, <3>2 DEF EntryOf
  <2>2. PL!Lock(i, p.sub)
    BY <1>3, <1>4, <1>6, <2>1 DEF PL!Lock, EntryOf
  <2>3. QED
    BY <1>2, <2>2 DEF PL!Next
<1>7. QED
  BY <1>2, <1>5, <1>6 DEF PlanRow

\* Whatever is submitted, decided, decided again, edited or configured, and
\* wherever handlers fail, the plan table behaves like a ledger that only grows.
THEOREM LedgerImplemented == Spec => LedgerSpec
<1>1. Init => PL!Init
  BY DEF Init, PL!Init, Ledger
<1>2. Init => BoundedSubmissions
  BY BoundsAssumption DEF Init, BoundedSubmissions
<1>3. QED
  BY <1>1, <1>2, InitTypedVersions, StepTypedVersions, StepBounded, StepLedger,
     PTL DEF Spec, LedgerSpec, PL!Spec

-------------------------------------------------------------------------------
(* The composition with the baselines. *)

\* A step of the composition is a step of the gates, or leaves their tables alone.
LEMMA GovernanceSteps == [BaselineNext]_BaselineVars => [Next]_vars
BY DEF BaselineNext, BaselineVars, UpdateBaseline

\* Editing baselines is invisible to gates and plans: every theorem about Spec
\* holds of the composition too.
THEOREM BaselineKeepsGovernance == BaselineSpec => Spec
<1>1. BaselineInit => Init
  BY DEF BaselineInit
<1>2. QED
  BY <1>1, GovernanceSteps, PTL DEF BaselineSpec, Spec

\* The approvals that lock a baseline are withdrawn one way only: if the settings
\* stay and the lock goes, some approved submission of the lock gate is approved
\* no longer, for rows keep their initiative and gate.
LEMMA UnlockedByDecision ==
  ASSUME TypedVersions, [Next]_vars, settings' = settings,
         NEW i \in Initiatives, BaselineLocked(i), ~ BaselineLocked(i)'
  PROVE  \E s \in Submissions : /\ subs[s].init = i
                                /\ subs[s].gate = settings.baseGate
                                /\ subs[s].decision = "approved"
                                /\ subs'[s].decision # "approved"
<1>1. PICK s \in Submissions : /\ subs[s].init = i
                               /\ subs[s].gate = settings.baseGate
                               /\ subs[s].decision = "approved"
  BY DEF BaselineLocked, HasApprovedGateSubmission
<1>2. s \in Submissions' /\ subs'[s].init = i /\ subs'[s].gate = settings.baseGate
  BY <1>1, SubsStep DEF TypedVersions
<1>3. ASSUME subs'[s].decision = "approved"
      PROVE  FALSE
  BY <1>2, <1>3 DEF BaselineLocked, HasApprovedGateSubmission
<1>4. QED
  BY <1>1, <1>3

\* Whatever is submitted again, waits or is declined, and wherever a decision
\* fails: a locked baseline is unlocked by an administrator or by a decision that
\* takes an approval of the lock gate back.
THEOREM BaselineStaysLocked == BaselineSpec => UnlockedByRevocationOnly
<1> DEFINE Kept == \A i \in Initiatives :
                     (BaselineLocked(i) /\ ~ BaselineLocked(i)')
                       => \/ settings' # settings
                          \/ \E s \in Submissions : /\ subs[s].init = i
                                                    /\ subs[s].gate = settings.baseGate
                                                    /\ subs[s].decision = "approved"
                                                    /\ subs'[s].decision # "approved"
<1>1. BaselineInit => TypedVersions
  BY InitTypedVersions DEF BaselineInit
<1>2. TypedVersions /\ [BaselineNext]_BaselineVars => TypedVersions'
  BY GovernanceSteps, StepTypedVersions
<1>3. TypedVersions /\ [BaselineNext]_BaselineVars => Kept
  BY GovernanceSteps, UnlockedByDecision
<1>4. QED
  BY <1>1, <1>2, <1>3, PTL DEF BaselineSpec, UnlockedByRevocationOnly
===============================================================================
