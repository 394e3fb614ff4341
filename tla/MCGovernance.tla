----------------------------- MODULE MCGovernance -----------------------------
(* Small tenants for Governance.tla and BaselineLock.tla. *)
EXTENDS BaselineLock

CONSTANTS i1, i2          \* initiatives
CONSTANTS to, ta, pm, fl, io   \* users, one per role

MCRoleOf ==
  [a \in Actors |->
     CASE a = to -> "transformation_office"
       [] a = ta -> "tenant_admin"
       [] a = pm -> "pmo_lead"
       [] a = fl -> "finance_lead"
       [] a = io -> "initiative_owner"]

MCOwned == [a \in Actors |-> IF a = io THEN {i1} ELSE {}]

MCChain == 0 .. NumGates

MCAnyStage == -1 .. NumGates

\* Approvers that row-level security also lets update a submission.
MCApprovers == [g \in 1 .. NumGates |-> {"transformation_office", "tenant_admin", "pmo_lead"}]

\* The finance lead approves the gates too, as a gate definition may say.
MCFinanceApprovers == [g \in 1 .. NumGates |-> {"transformation_office", "finance_lead"}]

\* The defaults: rebaselines allowed to the transformation office, finance and PMO
\* leads, baselines locked by the first gate.
MCSettings(planGate, baseLock, allow) ==
  [planLock |-> TRUE, planGate |-> planGate, baseLock |-> baseLock, baseGate |-> 1,
   allowRebaseline |-> allow,
   rebaselineRoles |-> {"transformation_office", "finance_lead", "pmo_lead"}]

MCDefault == MCSettings(1, TRUE, TRUE)

\* The administrator moves the plan gate, unlocks the baselines and forbids
\* rebaselines, and back.
MCChoices == {MCDefault, MCSettings(2, FALSE, FALSE)}

MCOnlyDefault == {MCDefault}
===============================================================================
