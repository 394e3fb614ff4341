---------------------------- MODULE CopilotActions ----------------------------
(* The copilot's writes (services/ai.py): a chat message drafts an action, its
   author confirms it, and only then a service executes it. The ledger row
   (ai_copilot_actions) is written in a call of its own after the execution.
   Another confirmation may begin before one ends: not in one API process, but
   a deployment has two for a while.

   Three kinds of action stand for six: create_risk and create_kpi are checked
   like create_milestone, update_financial_entry like create_cost_line. A
   payload is what it is aimed at. *)
EXTENDS Naturals, FiniteSets

CONSTANTS
  Users, Initiatives,
  Actions,      \* ids of drafts
  None,         \* no user, no initiative
  MaxTries      \* bound on the confirmations of one action that pass the checks

ASSUME CopilotAssumption == None \notin Users \cup Initiatives /\ MaxTries \in Nat

VARIABLES
  role,         \* users.role
  owner,        \* initiatives.owner_id
  lead,         \* the user assigned to the initiative's workstream
  action,       \* the ledger: ai_copilot_actions
  confirming,   \* confirmations past their checks whose service has not run yet
  executed,     \* history: executions of an action that took effect
  refused,      \* history: confirmations past their checks that were answered with an error
  overlapped    \* history: whether two confirmations of an action ran at once

peopleVars == <<role, owner, lead>>
effectVars == <<confirming, executed, refused, overlapped>>
copilotVars == <<role, owner, lead, action, confirming, executed, refused, overlapped>>

Roles == {"transformation_office", "pmo_lead", "finance_lead",
          "workstream_lead", "initiative_owner"}
Types == {"create_initiative", "create_milestone", "create_cost_line"}
Statuses == {"none", "draft", "confirmed", "expired"}

NoAction == [status |-> "none", user |-> None, type |-> "create_initiative",
             target |-> None, overdue |-> FALSE]

-------------------------------------------------------------------------------
(* Who may do what (core/rbac.py). *)

ManagesExecution(u, i) ==
  \/ role[u] \in {"transformation_office", "pmo_lead"}
  \/ role[u] = "initiative_owner" /\ owner[i] = u
  \/ role[u] = "workstream_lead" /\ lead[i] = u

ManagesFinancials(u, i) ==
  \/ role[u] \in {"transformation_office", "finance_lead"}
  \/ role[u] = "initiative_owner" /\ owner[i] = u

ActionAllowed(u, type, i) ==
  CASE type = "create_initiative" -> role[u] = "transformation_office"
    [] type = "create_milestone" -> ManagesExecution(u, i)
    [] type = "create_cost_line" -> ManagesFinancials(u, i)

\* The initiatives a chat can be about. A workstream lead's are those of every
\* workstream with an assignment: the query names the tenant, not the user.
Snapshot(u) ==
  CASE role[u] = "workstream_lead" -> {i \in Initiatives : lead[i] # None}
    [] role[u] = "initiative_owner" -> {i \in Initiatives : owner[i] = u}
    [] OTHER -> Initiatives

WriteTarget(u, type) == IF type = "create_initiative" THEN {None} ELSE Snapshot(u)

-------------------------------------------------------------------------------
CopilotInit ==
  /\ role \in [Users -> Roles]
  /\ owner \in [Initiatives -> Users]
  /\ lead = [i \in Initiatives |-> None]
  /\ action = [a \in Actions |-> NoAction]
  /\ confirming = [a \in Actions |-> 0]
  /\ executed = [a \in Actions |-> 0]
  /\ refused = [a \in Actions |-> 0]
  /\ overlapped = [a \in Actions |-> FALSE]

\* A write request is answered by a draft only if its author may do it now.
DraftAction(u, type) ==
  \E i \in WriteTarget(u, type) :
    /\ ActionAllowed(u, type, i)
    /\ \E a \in Actions :
         /\ action[a].status = "none"
         /\ action' = [action EXCEPT ![a] =
              [status |-> "draft", user |-> u, type |-> type, target |-> i,
               overdue |-> FALSE]]
    /\ UNCHANGED <<peopleVars, effectVars>>

BadLoadAction(a, u) == action[a].status \notin {"none", "expired"} /\ action[a].user = u

\* The ledger row is found, is the caller's and is a draft.
LoadAction(a, u) == action[a].status = "draft" /\ action[a].user = u

\* _update_action_status, which may fail and leave the row as it is.
UpdateActionStatus(a, status, stored) ==
  action' = IF stored THEN [action EXCEPT ![a].status = status] ELSE action

ConfirmOverdue(u) ==
  \E a \in Actions, stored \in BOOLEAN :
    /\ LoadAction(a, u)
    /\ action[a].overdue
    /\ UpdateActionStatus(a, "expired", stored)
    /\ UNCHANGED <<peopleVars, effectVars>>

BadPermits(a, u) == TRUE

Permits(a, u) == ActionAllowed(u, action[a].type, action[a].target)

\* confirm_action up to the service: the draft is read and checked. The hash and
\* the guardrails repeat checks that just passed: see the README.
BeginConfirm(u) ==
  \E a \in Actions :
    /\ LoadAction(a, u)
    /\ ~action[a].overdue
    /\ Permits(a, u)
    /\ executed[a] + refused[a] + confirming[a] < MaxTries
    /\ confirming' = [confirming EXCEPT ![a] = @ + 1]
    /\ overlapped' = [overlapped EXCEPT ![a] = @ \/ confirming[a] > 0]
    /\ UNCHANGED <<peopleVars, action, executed, refused>>

\* The service may raise before it has written anything, or after: calls follow
\* the insert of an initiative, a milestone, a risk and a KPI, a read of the grid
\* follows the write of an entry, and the answer to an insert may be lost.
ServiceRaises(a) ==
  /\ executed' \in {executed, [executed EXCEPT ![a] = @ + 1]}
  /\ refused' = [refused EXCEPT ![a] = @ + 1]
  /\ UNCHANGED action

\* It returns, and the ledger is told, or its update fails (503).
ServiceReturns(a) ==
  \E stored \in BOOLEAN :
    /\ executed' = [executed EXCEPT ![a] = @ + 1]
    /\ refused' = IF stored THEN refused ELSE [refused EXCEPT ![a] = @ + 1]
    /\ UpdateActionStatus(a, "confirmed", stored)

\* The rest of confirm_action, of any request that got so far.
ConfirmAction(a) ==
  /\ confirming[a] > 0
  /\ confirming' = [confirming EXCEPT ![a] = @ - 1]
  /\ ServiceRaises(a) \/ ServiceReturns(a)
  /\ UNCHANGED <<peopleVars, overlapped>>

\* expires_at passes.
DayPasses(a) ==
  /\ action[a].status # "none"
  /\ ~action[a].overdue
  /\ action' = [action EXCEPT ![a].overdue = TRUE]
  /\ UNCHANGED <<peopleVars, effectVars>>

\* The administration changes people while drafts wait.
Reassign ==
  /\ \/ \E u \in Users, r \in Roles :
          role' = [role EXCEPT ![u] = r] /\ UNCHANGED <<owner, lead>>
     \/ \E i \in Initiatives, u \in Users :
          owner' = [owner EXCEPT ![i] = u] /\ UNCHANGED <<role, lead>>
     \/ \E i \in Initiatives, u \in Users \cup {None} :
          lead' = [lead EXCEPT ![i] = u] /\ UNCHANGED <<role, owner>>
  /\ UNCHANGED <<action, effectVars>>

CopilotNext ==
  \/ \E u \in Users : \/ \E type \in Types : DraftAction(u, type)
                      \/ ConfirmOverdue(u)
                      \/ BeginConfirm(u)
  \/ \E a \in Actions : ConfirmAction(a) \/ DayPasses(a)
  \/ Reassign

CopilotSpec == CopilotInit /\ [][CopilotNext]_copilotVars

-------------------------------------------------------------------------------
(* Properties. *)

\* Every variable has its type, and a draft names an initiative unless it makes one.
CopilotTypeOK ==
  /\ role \in [Users -> Roles]
  /\ owner \in [Initiatives -> Users]
  /\ lead \in [Initiatives -> Users \cup {None}]
  /\ action \in [Actions -> [status : Statuses, user : Users \cup {None},
                             type : Types, target : Initiatives \cup {None},
                             overdue : BOOLEAN]]
  /\ \A a \in Actions : action[a].target = None <=> action[a].type = "create_initiative"
  /\ confirming \in [Actions -> Nat]
  /\ executed \in [Actions -> Nat]
  /\ refused \in [Actions -> Nat]
  /\ overlapped \in [Actions -> BOOLEAN]

\* The ledger never claims what did not happen; and where the confirmations of an
\* action came one after another, the action took effect once, if the ledger says
\* so, and at most once more for every confirmation that was answered with an
\* error. A second click, a confirmation after expiry and a retry after success
\* add none. (Two confirmations at once both execute: nothing claims the row.)
LedgerTellsExecutions ==
  \A a \in Actions :
    LET told == IF action[a].status = "confirmed" THEN 1 ELSE 0
    IN  /\ told =< executed[a]
        /\ overlapped[a] \/ executed[a] =< told + refused[a]

\* A confirmation gets to the service only while its author may still do the
\* action, and nothing else does: a role or an ownership lost since the draft is
\* noticed.
ExecutedUnderAuthority ==
  [][\A a \in Actions :
       /\ confirming'[a] > confirming[a] =>
            ActionAllowed(action[a].user, action[a].type, action[a].target)
       /\ executed'[a] # executed[a] => confirming[a] > 0]_copilotVars

\* What the ledger says of a closed action is its last word as soon as no
\* confirmation is under way, and none begins any more.
ClosedActionsStayClosed ==
  [][\A a \in Actions : action[a].status \in {"confirmed", "expired"} =>
       /\ confirming'[a] =< confirming[a]
       /\ confirming[a] = 0 => /\ action'[a].status = action[a].status
                            /\ executed'[a] = executed[a]]_copilotVars

\* Both: a draft acts for somebody who may, and never after it was closed
\* (confirm_action, _load_action).
ConfirmedWithAuthority == ExecutedUnderAuthority /\ ClosedActionsStayClosed
===============================================================================
