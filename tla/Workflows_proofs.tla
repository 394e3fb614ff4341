--------------------------- MODULE Workflows_proofs ---------------------------
(* Proofs about the workflows that MCWorkflows checks side by side: the copilot's
   actions, the benefit lines and the ledger of their actuals, the status updates
   and the nudges, for every set of users, initiatives, lines, pages and periods,
   and any length of the behaviour.  They share no variable; each has its own
   invariant and its own theorems. *)
EXTENDS CopilotActions, StatusUpdates, Nudges, BenefitLines, BenefitLedger,
        FiniteSetTheorems, SequenceTheorems, TLAPS

-------------------------------------------------------------------------------
(* Copilot actions *)

\* Where confirmations do not overlap, at most one is under way, and the action it
\* found is not confirmed.
OneAtATime ==
  \A a \in Actions : ~overlapped[a] =>
    confirming[a] = 0 \/ (confirming[a] = 1 /\ action[a].status # "confirmed")

CopilotInv == CopilotTypeOK /\ LedgerTellsExecutions /\ OneAtATime

\* What a step may do to one action: what was closed stays so once nobody confirms
\* it, and what begins is a draft whose author may do it now.
ActionStep(a) ==
  /\ action[a].status \in {"confirmed", "expired"} =>
       /\ confirming'[a] =< confirming[a]
       /\ confirming[a] = 0 => action'[a].status = action[a].status /\ executed'[a] = executed[a]
  /\ confirming'[a] > confirming[a] =>
       ActionAllowed(action[a].user, action[a].type, action[a].target)
  /\ executed'[a] # executed[a] => confirming[a] > 0

\* A step that leaves the counts alone and no action newly confirmed or no longer so.
LEMMA CountsStay ==
  ASSUME CopilotInv, CopilotTypeOK', UNCHANGED effectVars,
         \A a \in Actions : action'[a].status = "confirmed" <=> action[a].status = "confirmed"
  PROVE  CopilotInv'
<1>1. LedgerTellsExecutions'
  BY DEF CopilotInv, LedgerTellsExecutions, effectVars
<1>2. OneAtATime'
  BY DEF CopilotInv, OneAtATime, effectVars
<1>3. QED
  BY <1>1, <1>2 DEF CopilotInv

LEMMA Beginning ==
  ASSUME CopilotInv, NEW u \in Users, BeginConfirm(u)
  PROVE  CopilotInv' /\ \A a \in Actions : ActionStep(a)
<1>1. PICK a \in Actions :
        /\ action[a].status = "draft" /\ action[a].user = u /\ Permits(a, u)
        /\ confirming' = [confirming EXCEPT ![a] = @ + 1]
        /\ overlapped' = [overlapped EXCEPT ![a] = @ \/ confirming[a] > 0]
        /\ UNCHANGED <<peopleVars, action, executed, refused>>
  BY DEF BeginConfirm, LoadAction
<1>2. /\ confirming[a] \in Nat /\ confirming'[a] = confirming[a] + 1
      /\ overlapped'[a] = (overlapped[a] \/ confirming[a] > 0)
      /\ \A b \in Actions : b # a => confirming'[b] = confirming[b] /\ overlapped'[b] = overlapped[b]
  BY <1>1 DEF CopilotInv, CopilotTypeOK
<1>3. overlapped' \in [Actions -> BOOLEAN] /\ confirming' \in [Actions -> Nat]
  BY <1>1 DEF CopilotInv, CopilotTypeOK
<1>4. CopilotTypeOK'
  BY <1>1, <1>3 DEF CopilotInv, CopilotTypeOK, peopleVars
<1>5. \A b \in Actions : overlapped[b] => overlapped'[b]
  BY <1>2
<1>6. LedgerTellsExecutions'
  BY <1>1, <1>5 DEF CopilotInv, LedgerTellsExecutions
<1>7. OneAtATime'
  <2>1. ~overlapped'[a] => confirming[a] = 0
    <3>1. ~overlapped'[a] => ~(confirming[a] > 0)
      BY <1>2, Zenon
    <3>2. QED
      BY <1>2, <3>1
  <2>2. QED
    BY <1>1, <1>2, <1>5, <2>1 DEF CopilotInv, OneAtATime
<1>8. \A b \in Actions : ActionStep(b)
  <2>1. ActionAllowed(action[a].user, action[a].type, action[a].target)
    BY <1>1 DEF Permits
  <2>2. ActionStep(a)
    BY <1>1, <1>2, <2>1 DEF ActionStep
  <2>3. ASSUME NEW b \in Actions, b # a PROVE ActionStep(b)
    <3>1. confirming[b] \in Nat /\ confirming'[b] = confirming[b] /\ action' = action /\ executed' = executed
      BY <1>1, <1>2, <2>3 DEF CopilotInv, CopilotTypeOK
    <3>2. QED
      BY <3>1 DEF ActionStep
  <2>4. QED
    BY <2>2, <2>3
<1>9. QED
  BY <1>4, <1>6, <1>7, <1>8 DEF CopilotInv

LEMMA Confirming ==
  ASSUME CopilotInv, NEW a \in Actions, ConfirmAction(a)
  PROVE  CopilotInv' /\ \A b \in Actions : ActionStep(b)
<1>1. /\ confirming[a] > 0 /\ confirming' = [confirming EXCEPT ![a] = @ - 1]
      /\ ServiceRaises(a) \/ ServiceReturns(a)
      /\ UNCHANGED <<peopleVars, overlapped>>
  BY DEF ConfirmAction
<1>2. \/ action' = action /\ executed' = executed
           /\ refused' = [refused EXCEPT ![a] = @ + 1]
      \/ action' = action /\ executed' = [executed EXCEPT ![a] = @ + 1]
           /\ refused' = [refused EXCEPT ![a] = @ + 1]
      \/ action' = [action EXCEPT ![a].status = "confirmed"]
           /\ executed' = [executed EXCEPT ![a] = @ + 1] /\ refused' = refused
  BY <1>1 DEF ServiceRaises, ServiceReturns, UpdateActionStatus
<1>3. /\ confirming[a] \in Nat /\ executed[a] \in Nat /\ refused[a] \in Nat
      /\ confirming'[a] = confirming[a] - 1
      /\ \A b \in Actions : b # a =>
           /\ confirming'[b] = confirming[b] /\ executed'[b] = executed[b]
           /\ refused'[b] = refused[b] /\ action'[b] = action[b]
  BY <1>1, <1>2 DEF CopilotInv, CopilotTypeOK
<1>4. CopilotTypeOK'
  <2>1. confirming' \in [Actions -> Nat]
    BY <1>1, <1>3 DEF CopilotInv, CopilotTypeOK
  <2>2. executed' \in [Actions -> Nat] /\ refused' \in [Actions -> Nat]
    BY <1>2 DEF CopilotInv, CopilotTypeOK
  <2>3. \A b \in Actions : /\ action'[b].target = action[b].target
                            /\ action'[b].type = action[b].type
    BY <1>2 DEF CopilotInv, CopilotTypeOK
  <2>4. action' \in [Actions -> [status : Statuses, user : Users \cup {None}, type : Types,
                                 target : Initiatives \cup {None}, overdue : BOOLEAN]]
    BY <1>2 DEF CopilotInv, CopilotTypeOK, Statuses
  <2>5. QED
    BY <1>1, <2>1, <2>2, <2>3, <2>4 DEF CopilotInv, CopilotTypeOK, peopleVars
<1>5. \/ action'[a] = action[a] /\ executed'[a] \in {executed[a], executed[a] + 1}
           /\ refused'[a] = refused[a] + 1
      \/ action'[a].status = "confirmed" /\ executed'[a] = executed[a] + 1
           /\ refused'[a] = refused[a]
  BY <1>2 DEF CopilotInv, CopilotTypeOK
<1>6. /\ action[a].status = "confirmed" => 1 =< executed[a]
      /\ ~overlapped[a] => /\ confirming[a] = 1 /\ action[a].status # "confirmed"
                           /\ executed[a] =< refused[a]
  BY <1>1, <1>3 DEF CopilotInv, LedgerTellsExecutions, OneAtATime
<1>7. LedgerTellsExecutions'
  <2>1. /\ action'[a].status = "confirmed" => 1 =< executed'[a]
        /\ overlapped'[a] \/ executed'[a] =<
             (IF action'[a].status = "confirmed" THEN 1 ELSE 0) + refused'[a]
    BY <1>1, <1>3, <1>5, <1>6
  <2>2. 0 =< executed'[a]
    BY <1>3, <1>5
  <2>3. QED
    BY <1>1, <1>3, <2>1, <2>2 DEF CopilotInv, LedgerTellsExecutions
<1>8. OneAtATime'
  <2>1. ~overlapped'[a] => confirming'[a] = 0
    BY <1>1, <1>3, <1>6
  <2>2. QED
    BY <1>1, <1>3, <2>1 DEF CopilotInv, OneAtATime
<1>9. \A b \in Actions : ActionStep(b)
  <2>1. ActionStep(a)
    BY <1>1, <1>3 DEF ActionStep
  <2>2. ASSUME NEW b \in Actions, b # a PROVE ActionStep(b)
    <3>1. confirming[b] \in Nat
      BY DEF CopilotInv, CopilotTypeOK
    <3>2. QED
      BY <1>3, <2>2, <3>1 DEF ActionStep
  <2>3. QED
    BY <2>1, <2>2
<1>10. QED
  BY <1>4, <1>7, <1>8, <1>9 DEF CopilotInv

LEMMA CopilotStep == CopilotInv /\ [CopilotNext]_copilotVars
                       => CopilotInv' /\ \A a \in Actions : ActionStep(a)
<1> SUFFICES ASSUME CopilotInv, [CopilotNext]_copilotVars
             PROVE  CopilotInv' /\ \A a \in Actions : ActionStep(a)
  OBVIOUS
<1> USE CopilotAssumption
<1>0. \A a \in Actions : confirming[a] \in Nat
  BY DEF CopilotInv, CopilotTypeOK
<1>1. ASSUME NEW u \in Users, NEW type \in Types, DraftAction(u, type)
      PROVE  CopilotInv' /\ \A a \in Actions : ActionStep(a)
  <2>1. PICK i \in WriteTarget(u, type), a \in Actions :
          /\ action[a].status = "none"
          /\ action' = [action EXCEPT ![a] = [status |-> "draft", user |-> u, type |-> type,
                                              target |-> i, overdue |-> FALSE]]
          /\ UNCHANGED <<peopleVars, effectVars>>
    BY <1>1 DEF DraftAction
  <2>2. i \in Initiatives \cup {None} /\ (i = None <=> type = "create_initiative")
    BY DEF WriteTarget, Snapshot
  <2>3. CopilotTypeOK'
    BY <2>1, <2>2 DEF CopilotInv, CopilotTypeOK, Statuses, peopleVars, effectVars
  <2>4. CopilotInv'
    BY <2>1, <2>3, CountsStay DEF CopilotInv, CopilotTypeOK
  <2>5. \A b \in Actions : ActionStep(b)
    BY <1>0, <2>1 DEF ActionStep, CopilotInv, CopilotTypeOK, effectVars
  <2>6. QED
    BY <2>4, <2>5
<1>2. ASSUME NEW u \in Users, ConfirmOverdue(u)
      PROVE  CopilotInv' /\ \A a \in Actions : ActionStep(a)
  <2>1. PICK a \in Actions, stored \in BOOLEAN :
          /\ action[a].status = "draft"
          /\ UpdateActionStatus(a, "expired", stored)
          /\ UNCHANGED <<peopleVars, effectVars>>
    BY <1>2 DEF ConfirmOverdue, LoadAction
  <2>2. CopilotTypeOK'
    BY <2>1 DEF CopilotInv, CopilotTypeOK, UpdateActionStatus, Statuses, peopleVars, effectVars
  <2>3. CopilotInv'
    BY <2>1, <2>2, CountsStay DEF CopilotInv, CopilotTypeOK, UpdateActionStatus
  <2>4. \A b \in Actions : ActionStep(b)
    BY <1>0, <2>1 DEF ActionStep, CopilotInv, CopilotTypeOK, UpdateActionStatus, effectVars
  <2>5. QED
    BY <2>3, <2>4
<1>3. ASSUME NEW a \in Actions, DayPasses(a)
      PROVE  CopilotInv' /\ \A b \in Actions : ActionStep(b)
  <2>1. CopilotTypeOK' /\ \A b \in Actions : action'[b].status = action[b].status
    BY <1>3 DEF DayPasses, CopilotInv, CopilotTypeOK, peopleVars, effectVars
  <2>2. CopilotInv'
    BY <1>3, <2>1, CountsStay DEF DayPasses
  <2>3. QED
    BY <1>0, <1>3, <2>1, <2>2 DEF DayPasses, ActionStep, effectVars
<1>4. CASE Reassign
  <2>1. CopilotTypeOK'
    BY <1>4 DEF Reassign, CopilotInv, CopilotTypeOK, effectVars
  <2>2. CopilotInv'
    BY <1>4, <2>1, CountsStay DEF Reassign
  <2>3. QED
    BY <1>0, <1>4, <2>2 DEF Reassign, ActionStep, effectVars
<1>5. CASE UNCHANGED copilotVars
  <2>1. CopilotTypeOK'
    BY <1>5 DEF copilotVars, CopilotInv, CopilotTypeOK
  <2>2. CopilotInv'
    BY <1>5, <2>1, CountsStay DEF copilotVars, effectVars
  <2>3. QED
    BY <1>0, <1>5, <2>2 DEF copilotVars, ActionStep
<1>6. QED
  BY <1>1, <1>2, <1>3, <1>4, <1>5, Beginning, Confirming DEF CopilotNext

LEMMA CopilotInvariant == CopilotSpec => []CopilotInv
<1>1. CopilotInit => CopilotInv
  BY CopilotAssumption DEF CopilotInit, CopilotInv, CopilotTypeOK, LedgerTellsExecutions,
     OneAtATime, NoAction, Statuses, Types
<1>2. CopilotInv /\ [CopilotNext]_copilotVars => CopilotInv'
  BY CopilotStep
<1>3. QED
  BY <1>1, <1>2, PTL DEF CopilotSpec

\* Every row of the copilot has its type, for any number of users and drafts.
THEOREM CopilotTyped == CopilotSpec => []CopilotTypeOK
<1>1. CopilotInv => CopilotTypeOK
  BY DEF CopilotInv
<1>2. QED
  BY <1>1, CopilotInvariant, PTL

\* However confirmations are repeated and wherever the services raise: the ledger
\* claims nothing that did not happen, and without overlap the errors that were
\* answered account for every execution it does not tell of (confirm_action).
THEOREM ExecutionsTold == CopilotSpec => []LedgerTellsExecutions
<1>1. CopilotInv => LedgerTellsExecutions
  BY DEF CopilotInv
<1>2. QED
  BY <1>1, CopilotInvariant, PTL

\* Nothing is executed for somebody who may not, or after it was closed.
THEOREM AuthorityHeld == CopilotSpec => ConfirmedWithAuthority
<1>1. CopilotInv /\ [CopilotNext]_copilotVars
        => /\ [\A a \in Actions :
                 /\ confirming'[a] > confirming[a] =>
                      ActionAllowed(action[a].user, action[a].type, action[a].target)
                 /\ executed'[a] # executed[a] => confirming[a] > 0]_copilotVars
           /\ [\A a \in Actions : action[a].status \in {"confirmed", "expired"} =>
                 /\ confirming'[a] =< confirming[a]
                 /\ confirming[a] = 0 => /\ action'[a].status = action[a].status
                                      /\ executed'[a] = executed[a]]_copilotVars
  BY CopilotStep DEF ActionStep
<1>2. QED
  BY <1>1, CopilotInvariant, PTL
     DEF CopilotSpec, ConfirmedWithAuthority, ExecutedUnderAuthority, ClosedActionsStayClosed

-------------------------------------------------------------------------------
(* Nudges *)

\* Nobody whom a run is still to remind had a reminder of the same runner in the
\* last 24 hours: the log was read before, and time only passes.
DueAreUnreminded ==
  \A r \in Runners : \A i \in run[r].todo :
    \A e \in log : (e.by = r /\ e.about = i) => e.at + Day < now

NudgesInv ==
  /\ NudgesTypeOK
  /\ \A e \in log : e.at <= now
  /\ DueAreUnreminded
  /\ OncePerDay

LEMMA LogsOneNudge ==
  ASSUME NEW r \in Runners, NudgesInv, LogNudge(r)
  PROVE  NudgesInv'
<1> USE ClockAssumption
<1>1. PICK i \in run[r].todo :
        /\ log' = log \cup {[about |-> i, at |-> now, by |-> r]}
        /\ run' = [run EXCEPT ![r].todo = @ \ {i},
                              ![r].sending = {[about |-> i, at |-> now, by |-> r]}]
        /\ now' = now /\ lastUpdate' = lastUpdate
  BY DEF LogNudge
<1> DEFINE e == [about |-> i, at |-> now, by |-> r]
<1>2. e \in Entry /\ e.about = i /\ e.at = now /\ e.by = r
  BY <1>1 DEF NudgesInv, NudgesTypeOK, Entry
<1> HIDE DEF e
<1>3. log' = log \cup {e}
  BY <1>1 DEF e
<1> DEFINE row == [phase : {"idle", "stats", "loop"}, began : 0 .. MaxTime,
                   due : SUBSET Reported, todo : SUBSET Reported, sending : SUBSET Entry]
           mine == [run[r] EXCEPT !.todo = @ \ {i}, !.sending = {e}]
<1>a. run \in [Runners -> row] /\ run[r] \in row /\ {e} \in SUBSET Entry
  BY <1>2 DEF NudgesInv, NudgesTypeOK
<1>b. mine \in row /\ mine.todo = run[r].todo \ {i}
  BY <1>a
<1>c. run' = [run EXCEPT ![r] = mine]
  BY <1>1 DEF e
<1> HIDE DEF row, mine
<1>4. /\ run'[r] = mine /\ run' \in [Runners -> row]
      /\ \A s \in Runners : s # r => run'[s] = run[s]
  BY <1>a, <1>b, <1>c
<1>5. run'[r].todo = run[r].todo \ {i}
  BY <1>4, <1>b
<1>6. NudgesTypeOK'
  BY <1>1, <1>2, <1>3, <1>4 DEF NudgesInv, NudgesTypeOK, row
<1>7. \A f \in log' : f.at <= now'
  BY <1>1, <1>2, <1>3 DEF NudgesInv, NudgesTypeOK
<1>8. DueAreUnreminded'
  <2> SUFFICES ASSUME NEW s \in Runners, NEW j \in run'[s].todo, NEW f \in log',
                      f.by = s, f.about = j
               PROVE  f.at + Day < now
    BY <1>1 DEF DueAreUnreminded
  <2>1. f \in log
    BY <1>2, <1>3, <1>5
  <2>2. j \in run[s].todo
    BY <1>4, <1>5
  <2>3. QED
    BY <2>1, <2>2 DEF NudgesInv, DueAreUnreminded
<1>9. OncePerDay'
  <2> SUFFICES ASSUME NEW f \in log', NEW g \in log', f.by = g.by, f.by # "hand",
                      f.about = g.about, f.at < g.at
               PROVE  f.at + Day < g.at
    BY DEF OncePerDay
  <2>1. f \in Entry /\ g \in Entry /\ now \in Nat /\ \A h \in log : h.at <= now
    BY <1>2, <1>3 DEF NudgesInv, NudgesTypeOK
  <2>2. CASE f \in log /\ g \in log
    BY <2>2 DEF NudgesInv, OncePerDay
  <2>3. CASE g = e /\ f \in log
    BY <2>3, <1>1, <1>2 DEF NudgesInv, DueAreUnreminded
  <2>4. CASE f = e
    <3>1. g.at <= now
      BY <2>1, <1>2, <1>3
    <3>2. QED
      BY <2>1, <2>4, <3>1, <1>2 DEF Entry
  <2>5. QED
    BY <1>3, <2>2, <2>3, <2>4
<1>10. QED
  BY <1>6, <1>7, <1>8, <1>9 DEF NudgesInv

\* The other steps of a runner write no entry and leave nobody to remind but
\* those whom the log does not show.
LEMMA RunsOn ==
  ASSUME NudgesInv, NEW r \in Runners,
         BeginRun(r) \/ ReadLog(r) \/ Deliver(r) \/ EndRun(r) \/ Abort(r)
  PROVE  NudgesInv'
<1> USE ClockAssumption
<1>1. log' = log /\ now' = now /\ lastUpdate' = lastUpdate
  BY DEF BeginRun, ReadLog, Deliver, EndRun, Abort
<1>2. run' \in [Runners -> [phase : {"idle", "stats", "loop"}, began : 0 .. MaxTime,
                            due : SUBSET Reported, todo : SUBSET Reported,
                            sending : SUBSET Entry]]
  <2>1. CASE BeginRun(r)
    <3> DEFINE late == {i \in Reported : ~OnTimeNow(i)}
    <3>1. late \subseteq Reported
      OBVIOUS
    <3>2. run' = [run EXCEPT ![r] = [phase |-> "stats", began |-> now, todo |-> {},
                                     due |-> late, sending |-> {}]]
      BY <2>1 DEF BeginRun
    <3> HIDE DEF late
    <3>3. QED
      BY <3>1, <3>2 DEF NudgesInv, NudgesTypeOK
  <2>2. CASE ReadLog(r)
    <3> DEFINE left == run[r].due \ NudgedSince
    <3>1. run' = [run EXCEPT ![r].phase = "loop", ![r].todo = @ \cup left]
      BY <2>2 DEF ReadLog
    <3>2. left \subseteq Reported
      BY DEF NudgesInv, NudgesTypeOK
    <3> HIDE DEF left
    <3>3. QED
      BY <3>1, <3>2 DEF NudgesInv, NudgesTypeOK
  <2>3. CASE Deliver(r) \/ EndRun(r)
    BY <2>3 DEF Deliver, EndRun, NudgesInv, NudgesTypeOK
  <2>4. CASE Abort(r)
    BY <2>4 DEF Abort, Idle, NudgesInv, NudgesTypeOK
  <2>5. QED
    BY <2>1, <2>2, <2>3, <2>4
<1>3. \A s \in Runners : \A i \in run'[s].todo :
        i \in run[s].todo \/ i \notin NudgedSince
  <2>1. CASE BeginRun(r)
    <3>1. run'[r].todo = {} /\ \A s \in Runners : s # r => run'[s] = run[s]
      BY <2>1 DEF BeginRun, NudgesInv, NudgesTypeOK
    <3>2. QED
      BY <3>1
  <2>2. CASE ReadLog(r)
    <3>1. /\ run'[r].todo = run[r].todo \cup (run[r].due \ NudgedSince)
          /\ \A s \in Runners : s # r => run'[s] = run[s]
      BY <2>2 DEF ReadLog, NudgesInv, NudgesTypeOK
    <3>2. QED
      BY <3>1
  <2>3. CASE Deliver(r) \/ EndRun(r)
    <3>1. \A s \in Runners : run'[s].todo = run[s].todo
      BY <2>3 DEF Deliver, EndRun, NudgesInv, NudgesTypeOK
    <3>2. QED
      BY <3>1
  <2>4. CASE Abort(r)
    <3>1. run'[r].todo = {} /\ \A s \in Runners : s # r => run'[s] = run[s]
      BY <2>4 DEF Abort, Idle, NudgesInv, NudgesTypeOK
    <3>2. QED
      BY <3>1
  <2>5. QED
    BY <2>1, <2>2, <2>3, <2>4
<1>4. DueAreUnreminded'
  <2> SUFFICES ASSUME NEW s \in Runners, NEW i \in run'[s].todo, NEW e \in log,
                      e.by = s, e.about = i
               PROVE  e.at + Day < now
    BY <1>1 DEF DueAreUnreminded
  <2>1. CASE i \in run[s].todo
    BY <2>1 DEF NudgesInv, DueAreUnreminded
  <2>2. CASE i \notin NudgedSince
    <3>1. ~ (e.at + Day >= now)
      BY <2>2 DEF NudgedSince
    <3>2. e.at \in Nat /\ now \in Nat
      BY DEF NudgesInv, NudgesTypeOK, Entry
    <3>3. QED
      BY <3>1, <3>2
  <2>3. QED
    BY <1>3, <2>1, <2>2
<1>5. QED
  BY <1>1, <1>2, <1>4 DEF NudgesInv, NudgesTypeOK, OncePerDay

LEMMA NudgesStep == NudgesInv /\ [NudgesNext]_nudgeVars => NudgesInv'
<1> SUFFICES ASSUME NudgesInv, [NudgesNext]_nudgeVars PROVE NudgesInv'
  OBVIOUS
<1> USE ClockAssumption
<1>1. CASE Tick
  <2>1. log \subseteq Entry /\ now \in Nat /\ now' = now + 1 /\ now < MaxTime
        /\ UNCHANGED <<lastUpdate, log, run>>
    BY <1>1 DEF Tick, NudgesInv, NudgesTypeOK
  <2>2. \A e \in log : e.at \in Nat
    BY <2>1 DEF Entry
  <2>3. DueAreUnreminded'
    <3> SUFFICES ASSUME NEW s \in Runners, NEW i \in run[s].todo, NEW e \in log,
                        e.by = s, e.about = i
                 PROVE  e.at + Day < now + 1
      BY <2>1 DEF DueAreUnreminded
    <3>1. e.at + Day < now
      BY DEF NudgesInv, DueAreUnreminded
    <3>2. QED
      BY <2>1, <2>2, <3>1
  <2>4. QED
    BY <2>1, <2>2, <2>3 DEF NudgesInv, NudgesTypeOK, OncePerDay
<1>2. ASSUME NEW i \in Reported, Submit(i)
      PROVE  NudgesInv'
  BY <1>2 DEF Submit, NudgesInv, NudgesTypeOK, DueAreUnreminded, OncePerDay
<1>3. ASSUME NEW i \in Reported, NudgeOwner(i)
      PROVE  NudgesInv'
  <2> DEFINE e == [about |-> i, at |-> now, by |-> "hand"]
  <2>1. e \in Entry /\ e.at = now /\ e.by = "hand"
    BY DEF NudgesInv, NudgesTypeOK, Entry
  <2>2. log' = log \cup {e} /\ UNCHANGED <<now, lastUpdate, run>>
    BY <1>3 DEF NudgeOwner
  <2> HIDE DEF e
  <2>3. NudgesTypeOK' /\ \A f \in log' : f.at <= now'
    BY <2>1, <2>2 DEF NudgesInv, NudgesTypeOK
  <2>4. DueAreUnreminded'
    BY <2>1, <2>2 DEF NudgesInv, DueAreUnreminded, Runners
  <2>5. OncePerDay'
    BY <2>1, <2>2 DEF NudgesInv, OncePerDay
  <2>6. QED
    BY <2>3, <2>4, <2>5 DEF NudgesInv
<1>4. CASE UNCHANGED nudgeVars
  BY <1>4 DEF nudgeVars, NudgesInv, NudgesTypeOK, DueAreUnreminded, OncePerDay
<1>5. QED
  BY <1>1, <1>2, <1>3, <1>4, RunsOn, LogsOneNudge DEF NudgesNext

LEMMA NudgesInvariant == NudgesSpec => []NudgesInv
<1>1. NudgesInit => NudgesInv
  BY ClockAssumption DEF NudgesInit, NudgesInv, NudgesTypeOK, DueAreUnreminded, OncePerDay,
     Idle
<1>2. QED
  BY <1>1, NudgesStep, PTL DEF NudgesSpec

\* Every variable of the nudges has its type.
THEOREM NudgesTyped == NudgesSpec => []NudgesTypeOK
<1>1. NudgesInv => NudgesTypeOK
  BY DEF NudgesInv
<1>2. QED
  BY <1>1, NudgesInvariant, PTL

\* A runner reminds an owner at most once in 24 hours, whatever the length of the
\* day, the number of owners, and wherever runs are cut off and begun again.
THEOREM RemindedOnce == NudgesSpec => []OncePerDay
<1>1. NudgesInv => OncePerDay
  BY DEF NudgesInv
<1>2. QED
  BY <1>1, NudgesInvariant, PTL

-------------------------------------------------------------------------------
(* Status updates *)

\* A set of numbers up to n has a largest one (well-founded induction).
LEMMA LargestExists ==
  ASSUME NEW n \in Nat, NEW S \in SUBSET (1 .. n), S # {}
  PROVE  \E u \in S : \A v \in S : v <= u
<1> DEFINE R == {ss \in Nat \X Nat : ss[1] < ss[2]}
           T == {n - u : u \in S}
<1>1. IsWellFoundedOn(R, Nat)
  BY NatLessThanWellFounded DEF OpToRel
<1>2. T \subseteq Nat /\ T # {}
  <2>1. \A u \in S : n - u \in Nat
    OBVIOUS
  <2>2. QED
    BY <2>1, Zenon
<1> HIDE DEF R
<1>3. PICK x \in T : \A y \in T : ~ (<<y, x>> \in R)
  BY <1>1, <1>2, WFMin
<1>4. PICK u \in S : x = n - u
  OBVIOUS
<1>5. \A v \in S : ~ (n - v < n - u)
  BY <1>2, <1>3, <1>4 DEF R
<1>6. QED
  BY <1>5

\* What is submitted was dated when it was; a row that goes back to draft keeps
\* the date, so an undated draft can only be a new one, made when there was none.
SubmittedAreDated == \A u \in Ids : update[u].live /\ ~update[u].draft => update[u].at # 0
Undated == {u \in Drafts : update[u].at = 0}
NewDraftIsAlone == \A u, v \in Undated : u = v

UpdatesInv == UpdatesTypeOK /\ SubmittedAreDated /\ NewDraftIsAlone

LEMMA DraftFound == ASSUME UpdatesInv PROVE GetDraft \in 0 .. MaxUpdates
<1> USE UpdatesAssumption
<1>1. CASE Drafts = {}
  BY <1>1 DEF GetDraft
<1>2. CASE Drafts # {}
  <2>1. Drafts \subseteq 1 .. MaxUpdates
    BY DEF Drafts, Ids
  <2>2. \E u \in Drafts : \A v \in Drafts : v <= u
    BY <1>2, <2>1, LargestExists
  <2>3. Newest(Drafts) \in Drafts
    BY <2>2 DEF Newest
  <2>4. GetDraft = Newest(Drafts)
    BY <1>2 DEF GetDraft
  <2>5. Newest(Drafts) \in 0 .. MaxUpdates
    <3>1. 1 .. MaxUpdates \subseteq 0 .. MaxUpdates
      OBVIOUS
    <3>2. QED
      BY <2>1, <2>3, <3>1, Zenon
  <2>6. QED
    BY <2>4, <2>5
<1>3. QED
  BY <1>1, <1>2

LEMMA UpdatesInitHolds == UpdatesInit => UpdatesInv
<1> SUFFICES ASSUME UpdatesInit PROVE UpdatesInv
  OBVIOUS
<1> DEFINE rows == [live : BOOLEAN, used : BOOLEAN, draft : BOOLEAN,
                    rag : Colours, at : 0 .. MaxSubmissions]
<1>0. NoRow \in rows /\ ~NoRow.live
  BY UpdatesAssumption DEF NoRow, Colours
<1> HIDE DEF rows
<1>1. UpdatesTypeOK
  <2>1. update \in [Ids -> rows]
    BY <1>0 DEF UpdatesInit
  <2>a. 0 \in 0 .. MaxUpdates /\ 0 \in 0 .. MaxSubmissions
    BY UpdatesAssumption
  <2>2. headline \in Colours /\ held \in [Pages -> 0 .. MaxUpdates]
        /\ submissions \in 0 .. MaxSubmissions /\ unsynced \in BOOLEAN
    BY <2>a DEF UpdatesInit, Colours
  <2>3. QED
    BY <2>1, <2>2 DEF UpdatesTypeOK, rows
<1>2. \A u \in Ids : ~update[u].live
  BY <1>0 DEF UpdatesInit
<1>3. QED
  BY <1>1, <1>2 DEF UpdatesInv, SubmittedAreDated, NewDraftIsAlone, Undated, Drafts

\* One row is written, as a submitted one with its date or as a draft that has a
\* date, had none before, or is the only draft.
RowWritten(u, row) ==
  /\ update' = [update EXCEPT ![u] = row]
  /\ row \in [live : {TRUE}, used : BOOLEAN, draft : BOOLEAN, rag : Colours,
              at : 0 .. MaxSubmissions]
  /\ row.draft \/ row.at # 0
  /\ row.at # 0 \/ u \in Undated \/ Undated = {}
  /\ headline' = headline \/ (~row.draft /\ headline' = row.rag)

HeadlineFollowsRow ==
  headline' # headline =>
    \E u \in Ids : /\ update'[u] # update[u] \/ update'[u].at # 0
                   /\ update'[u].live /\ ~update'[u].draft
                   /\ update'[u].rag = headline'

LEMMA WritingARow ==
  ASSUME UpdatesInv, NEW u \in Ids, NEW row, RowWritten(u, row),
         held' = held, submissions' \in 0 .. MaxSubmissions, unsynced' \in BOOLEAN
  PROVE  UpdatesInv' /\ HeadlineFollowsRow
<1>1. /\ update'[u] = row
      /\ \A v \in Ids : v # u => update'[v] = update[v]
      /\ update' \in [Ids -> [live : BOOLEAN, used : BOOLEAN, draft : BOOLEAN,
                              rag : Colours, at : 0 .. MaxSubmissions]]
  BY DEF RowWritten, UpdatesInv, UpdatesTypeOK
<1>2. /\ row.live = TRUE /\ row.draft \in BOOLEAN /\ row.rag \in Colours
      /\ row.draft \/ row.at # 0
  BY DEF RowWritten
<1>3. UpdatesTypeOK'
  BY <1>1, <1>2 DEF RowWritten, UpdatesInv, UpdatesTypeOK
<1>4. SubmittedAreDated'
  BY <1>1, <1>2 DEF UpdatesInv, SubmittedAreDated
<1>5. NewDraftIsAlone'
  <2>1. \A v \in Undated' : v \in Undated \/ (v = u /\ row.at = 0)
    BY <1>1 DEF Undated, Drafts
  <2>2. u \in Undated' => u \in Undated \/ Undated = {}
    BY <1>1 DEF RowWritten, Undated
  <2>3. QED
    BY <2>1, <2>2 DEF UpdatesInv, NewDraftIsAlone
<1>6. HeadlineFollowsRow
  <2> SUFFICES ASSUME headline' # headline
               PROVE  \E v \in Ids : /\ update'[v] # update[v] \/ update'[v].at # 0
                                     /\ update'[v].live /\ ~update'[v].draft
                                     /\ update'[v].rag = headline'
    BY DEF HeadlineFollowsRow
  <2>1. ~row.draft /\ headline' = row.rag
    BY DEF RowWritten
  <2>2. QED
    BY <1>1, <1>2, <2>1
<1>7. QED
  BY <1>3, <1>4, <1>5, <1>6 DEF UpdatesInv

LEMMA Creating ==
  ASSUME UpdatesInv, NEW draft \in BOOLEAN, NEW rag \in Colours, NEW stored \in BOOLEAN,
         submissions < MaxSubmissions, CreateUpdate(draft, rag, stored), held' = held
  PROVE  UpdatesInv' /\ HeadlineFollowsRow
<1> USE UpdatesAssumption
<1>1. PICK u \in Ids :
        /\ submissions' = IF draft THEN submissions ELSE submissions + 1
        /\ update' = [update EXCEPT ![u] =
             [live |-> TRUE, used |-> TRUE, draft |-> draft, rag |-> rag,
              at |-> IF draft THEN 0 ELSE submissions']]
        /\ SyncHeadline(update'[u], stored)
  BY DEF CreateUpdate
<1> DEFINE row == [live |-> TRUE, used |-> TRUE, draft |-> draft, rag |-> rag,
                   at |-> IF draft THEN 0 ELSE submissions']
<1>2. /\ submissions \in 0 .. MaxSubmissions /\ submissions' \in 0 .. MaxSubmissions
      /\ ~draft => submissions' # 0
  BY <1>1 DEF UpdatesInv, UpdatesTypeOK
<1>3. /\ row \in [live : {TRUE}, used : BOOLEAN, draft : BOOLEAN, rag : Colours,
                  at : 0 .. MaxSubmissions]
      /\ row.draft = draft /\ row.rag = rag /\ (draft \/ row.at # 0)
  BY <1>2
<1>4. update' = [update EXCEPT ![u] = row]
  BY <1>1
<1> HIDE DEF row
<1>5. update'[u] = row
  BY <1>4 DEF UpdatesInv, UpdatesTypeOK
<1>6. headline' = headline \/ (~row.draft /\ headline' = row.rag)
  BY <1>1, <1>3, <1>5 DEF SyncHeadline
<1>7. unsynced' \in BOOLEAN
  BY <1>1 DEF SyncHeadline
<1>8. row.at # 0 \/ Undated = {}
  BY <1>3 DEF CreateUpdate, MayCreate, Undated
<1>9. RowWritten(u, row)
  BY <1>3, <1>4, <1>6, <1>8 DEF RowWritten
<1>10. QED
  BY <1>2, <1>7, <1>9, WritingARow

LEMMA Patching ==
  ASSUME UpdatesInv, NEW u \in Ids, NEW draft \in BOOLEAN, NEW rag \in Colours,
         NEW stored \in BOOLEAN,
         submissions < MaxSubmissions, PatchUpdate(u, draft, rag, stored), held' = held
  PROVE  UpdatesInv' /\ HeadlineFollowsRow
<1> USE UpdatesAssumption
<1> DEFINE submits == update[u].draft /\ ~draft
           at == IF submits THEN submissions' ELSE update[u].at
           row == [update[u] EXCEPT !.draft = draft, !.rag = rag, !.at = at]
<1>1. /\ update[u] \in [live : BOOLEAN, used : BOOLEAN, draft : BOOLEAN,
                        rag : Colours, at : 0 .. MaxSubmissions]
      /\ update[u].live = TRUE
  BY DEF PatchUpdate, UpdatesInv, UpdatesTypeOK
<1>2. submissions' = IF submits THEN submissions + 1 ELSE submissions
  BY DEF PatchUpdate
<1>3. submissions \in 0 .. MaxSubmissions /\ submissions' \in 0 .. MaxSubmissions
      /\ (submits => submissions' # 0)
  BY <1>2 DEF UpdatesInv, UpdatesTypeOK
<1>4. update' = [update EXCEPT ![u] = row]
  BY <1>1 DEF PatchUpdate, UpdatesInv, UpdatesTypeOK
<1>5. at \in 0 .. MaxSubmissions
  BY <1>1, <1>3
<1>6. ~draft => at # 0
  BY <1>1, <1>3 DEF UpdatesInv, SubmittedAreDated
<1>7. at # 0 \/ u \in Undated
  BY <1>1, <1>3, <1>6 DEF UpdatesInv, SubmittedAreDated, Undated, Drafts
<1> HIDE DEF at
<1>8. /\ row \in [live : {TRUE}, used : BOOLEAN, draft : BOOLEAN, rag : Colours,
                  at : 0 .. MaxSubmissions]
      /\ row.draft = draft /\ row.rag = rag /\ row.at = at
  BY <1>1, <1>5
<1> HIDE DEF row, submits
<1>9. update'[u] = row
  BY <1>4 DEF UpdatesInv, UpdatesTypeOK
<1>10. SyncHeadline(row, stored)
  BY <1>9 DEF PatchUpdate
<1>11. headline' = headline \/ (~row.draft /\ headline' = row.rag)
  BY <1>10 DEF SyncHeadline
<1>12. unsynced' \in BOOLEAN
  BY <1>10 DEF SyncHeadline
<1>13. RowWritten(u, row)
  BY <1>4, <1>6, <1>7, <1>8, <1>11 DEF RowWritten
<1>14. QED
  BY <1>3, <1>12, <1>13, WritingARow

LEMMA UpdatesStep == UpdatesInv /\ [UpdatesNext]_updateVars
                       => UpdatesInv' /\ HeadlineFollowsRow
<1> SUFFICES ASSUME UpdatesInv, [UpdatesNext]_updateVars
             PROVE  UpdatesInv' /\ HeadlineFollowsRow
  OBVIOUS
<1> USE UpdatesAssumption
<1>1. ASSUME NEW p \in Pages, NEW draft \in BOOLEAN, NEW rag \in Colours,
             NEW stored \in BOOLEAN, PerformSave(p, draft, rag, stored)
      PROVE  UpdatesInv' /\ HeadlineFollowsRow
  <2>1. CASE held[p] # 0
    <3>1. held[p] \in Ids
      BY <2>1 DEF UpdatesInv, UpdatesTypeOK, Ids
    <3>2. QED
      BY <1>1, <2>1, <3>1, Patching DEF PerformSave
  <2>2. CASE held[p] = 0
    BY <1>1, <2>2, Creating DEF PerformSave
  <2>3. QED
    BY <2>1, <2>2
<1>2. ASSUME NEW p \in Pages, FetchDraft(p) \/ OpenPage(p)
      PROVE  UpdatesInv' /\ HeadlineFollowsRow
  <2>1. held' = [held EXCEPT ![p] = GetDraft]
        /\ UNCHANGED <<update, headline, submissions, unsynced>>
    BY <1>2 DEF FetchDraft, OpenPage
  <2>2. QED
    BY <2>1, DraftFound
       DEF UpdatesInv, UpdatesTypeOK, SubmittedAreDated, NewDraftIsAlone, Undated, Drafts,
           HeadlineFollowsRow
<1>3. ASSUME NEW u \in Ids, NEW stored \in BOOLEAN, SubmitUpdate(u, stored)
      PROVE  UpdatesInv' /\ HeadlineFollowsRow
  <2>1. update[u].rag \in Colours
    BY DEF UpdatesInv, UpdatesTypeOK
  <2>2. QED
    BY <1>3, <2>1, Patching DEF SubmitUpdate
<1>4. ASSUME NEW u \in Ids, DeleteUpdate(u)
      PROVE  UpdatesInv' /\ HeadlineFollowsRow
  <2>1. UpdatesTypeOK' /\ UNCHANGED <<headline, held, submissions, unsynced>>
    BY <1>4 DEF DeleteUpdate, UpdatesInv, UpdatesTypeOK
  <2>2. \A v \in Ids : update'[v].live =>
          update[v].live /\ update'[v].draft = update[v].draft /\ update'[v].at = update[v].at
    BY <1>4 DEF DeleteUpdate, UpdatesInv, UpdatesTypeOK
  <2>3. SubmittedAreDated'
    BY <2>2 DEF UpdatesInv, SubmittedAreDated
  <2>4. NewDraftIsAlone'
    BY <2>2 DEF UpdatesInv, NewDraftIsAlone, Undated, Drafts
  <2>5. QED
    BY <2>1, <2>3, <2>4 DEF UpdatesInv, HeadlineFollowsRow
<1>5. CASE UNCHANGED updateVars
  BY <1>5 DEF updateVars, UpdatesInv, UpdatesTypeOK, SubmittedAreDated, NewDraftIsAlone,
              Undated, Drafts, HeadlineFollowsRow
<1>6. QED
  BY <1>1, <1>2, <1>3, <1>4, <1>5 DEF UpdatesNext

LEMMA UpdatesInvariant == UpdatesSpec => []UpdatesInv
<1> QED
  BY UpdatesInitHolds, UpdatesStep, PTL DEF UpdatesSpec

\* A set without two members counts at most one.
LEMMA AtMostOne ==
  ASSUME NEW S, \A u, v \in S : u = v
  PROVE  Cardinality(S) <= 1
<1>1. CASE S = {}
  BY <1>1, FS_EmptySet
<1>2. CASE S # {}
  <2>1. PICK u : S = {u}
    BY <1>2
  <2>2. Cardinality(S) = 1
    BY <2>1, FS_Singleton, Zenon
  <2>3. QED
    BY <2>2
<1>3. QED
  BY <1>1, <1>2

\* Every variable of the status updates has its type, for any number of pages.
THEOREM UpdatesTyped == UpdatesSpec => []UpdatesTypeOK
<1>1. UpdatesInv => UpdatesTypeOK
  BY DEF UpdatesInv
<1>2. QED
  BY <1>1, UpdatesInvariant, PTL

\* Pages that hold drafts others have submitted or deleted, in any number, never
\* make a second new draft, nor show a draft's colour as the headline.
THEOREM DraftsApart == UpdatesSpec => DraftsStayApart
<1>1. UpdatesInv => OneFreshDraft
  <2> SUFFICES ASSUME UpdatesInv PROVE OneFreshDraft
    OBVIOUS
  <2>1. \A u, v \in Undated : u = v
    BY DEF UpdatesInv, NewDraftIsAlone
  <2>2. Cardinality(Undated) <= 1
    BY <2>1, AtMostOne
  <2>3. QED
    BY <2>2 DEF OneFreshDraft, Undated
<1>2. UpdatesInv /\ [UpdatesNext]_updateVars
        => [headline' # headline =>
              \E u \in Ids : /\ update'[u] # update[u] \/ update'[u].at # 0
                             /\ update'[u].live /\ ~update'[u].draft
                             /\ update'[u].rag = headline']_updateVars
  BY UpdatesStep DEF HeadlineFollowsRow
<1>3. QED
  BY <1>1, <1>2, UpdatesInvariant, PTL DEF UpdatesSpec, DraftsStayApart, DraftsLeaveHeadline

-------------------------------------------------------------------------------
(* Benefit lines *)

Moves == LineEvents \cup {"deleted", "cleared"}

\* The status of a line is what its last move made of it.
StatusFollowsMoves ==
  \A l \in Lines : Exists(l) =>
    \/ line[l].status = "draft" /\ moves[l] = <<>>
    \/ /\ moves[l] # <<>>
       /\ \E event \in {"submit", "validate", "reject"} :
            line[l].status = Leads(event) /\ Last(moves[l]) = event

\* So it is for every line, and a deleted one has an empty trail.
TrailsArePart == \A l \in Lines : PartOf(trail[l], moves[l])

LinesInv == LinesTypeOK /\ StatusFollowsMoves /\ TrailsArePart /\ ValidatedWasSubmitted

LineStep(l) ==
  (Exists(l) /\ ~Exists(l)') => moves[l] = <<>> \/ Last(moves[l]) = "reject" \/ DeleteGrid

LEMMA EmptyTrail == ASSUME NEW t PROVE PartOf(<<>>, t)
<1>1. Told(<<>>) = {}
  BY DEF Told
<1>2. [n \in {} |-> 0] \in [{} -> DOMAIN t]
  OBVIOUS
<1>3. QED
  BY <1>1, <1>2 DEF PartOf

\* A trail stays a part when a move is added that it does not tell, when it
\* tells the move that is added, and when it tells of a handoff.
LEMMA TrailBehind ==
  ASSUME NEW s \in Seq(Moves), NEW t \in Seq(Moves), NEW e \in Moves, PartOf(s, t)
  PROVE  PartOf(s, Append(t, e))
<1>1. PICK f \in [Told(s) -> DOMAIN t] :
        /\ \A n \in Told(s) : s[n] = t[f[n]]
        /\ \A m, n \in Told(s) : m < n => f[m] < f[n]
  BY DEF PartOf
<1>2. DOMAIN t \subseteq DOMAIN Append(t, e) /\ \A k \in DOMAIN t : Append(t, e)[k] = t[k]
  BY AppendProperties
<1>3. f \in [Told(s) -> DOMAIN Append(t, e)]
  BY <1>2
<1>4. \A n \in Told(s) : s[n] = Append(t, e)[f[n]]
  BY <1>1, <1>2
<1>5. QED
  BY <1>1, <1>3, <1>4 DEF PartOf

LEMMA TrailTells ==
  ASSUME NEW s \in Seq(Moves), NEW t \in Seq(Moves), NEW e \in Moves,
         e # "handoff_update", PartOf(s, t)
  PROVE  PartOf(Append(s, e), Append(t, e))
<1> DEFINE s2 == Append(s, e)
           t2 == Append(t, e)
<1>1. PICK f \in [Told(s) -> DOMAIN t] :
        /\ \A n \in Told(s) : s[n] = t[f[n]]
        /\ \A m, n \in Told(s) : m < n => f[m] < f[n]
  BY DEF PartOf
<1>2. /\ Len(s) \in Nat /\ DOMAIN s = 1 .. Len(s) /\ DOMAIN s2 = 1 .. Len(s) + 1
      /\ s2[Len(s) + 1] = e /\ \A k \in 1 .. Len(s) : s2[k] = s[k]
  BY AppendProperties
<1>3. /\ Len(t) \in Nat /\ DOMAIN t = 1 .. Len(t) /\ DOMAIN t2 = 1 .. Len(t) + 1
      /\ t2[Len(t) + 1] = e /\ \A k \in 1 .. Len(t) : t2[k] = t[k]
  BY AppendProperties
<1> HIDE DEF s2, t2
<1>4. Told(s2) = Told(s) \cup {Len(s) + 1} /\ Len(s) + 1 \notin Told(s)
  BY <1>2 DEF Told
<1> DEFINE g == [n \in Told(s2) |-> IF n = Len(s) + 1 THEN Len(t) + 1 ELSE f[n]]
<1>5. g \in [Told(s2) -> DOMAIN t2]
  BY <1>3, <1>4
<1>6. \A n \in Told(s2) : s2[n] = t2[g[n]]
  <2> SUFFICES ASSUME NEW n \in Told(s2) PROVE s2[n] = t2[g[n]]
    OBVIOUS
  <2>1. CASE n = Len(s) + 1
    BY <2>1, <1>2, <1>3
  <2>2. CASE n \in Told(s)
    <3>1. n \in 1 .. Len(s) /\ f[n] \in 1 .. Len(t) /\ s[n] = t[f[n]] /\ g[n] = f[n]
      BY <2>2, <1>1, <1>2, <1>3, <1>4 DEF Told
    <3>2. QED
      BY <3>1, <1>2, <1>3
  <2>3. QED
    BY <2>1, <2>2, <1>4
<1>7. \A m, n \in Told(s2) : m < n => g[m] < g[n]
  <2> SUFFICES ASSUME NEW m \in Told(s2), NEW n \in Told(s2), m < n PROVE g[m] < g[n]
    OBVIOUS
  <2>1. m \in Told(s) /\ m \in 1 .. Len(s) /\ g[m] = f[m] /\ f[m] \in 1 .. Len(t)
    BY <1>2, <1>3, <1>4 DEF Told
  <2>2. CASE n = Len(s) + 1
    BY <2>1, <2>2, <1>3
  <2>3. CASE n \in Told(s)
    BY <2>1, <2>3, <1>1, <1>4
  <2>4. QED
    BY <2>2, <2>3, <1>4
<1>8. PartOf(s2, t2)
  BY <1>5, <1>6, <1>7 DEF PartOf
<1>9. QED
  BY <1>8 DEF s2, t2

LEMMA TrailHandsOff ==
  ASSUME NEW s \in Seq(Moves), NEW t, PartOf(s, t)
  PROVE  PartOf(Append(s, "handoff_update"), t)
<1> DEFINE s2 == Append(s, "handoff_update")
<1>1. /\ Len(s) \in Nat /\ DOMAIN s = 1 .. Len(s) /\ DOMAIN s2 = 1 .. Len(s) + 1
      /\ s2[Len(s) + 1] = "handoff_update" /\ \A k \in 1 .. Len(s) : s2[k] = s[k]
  BY AppendProperties DEF Moves, LineEvents
<1> HIDE DEF s2
<1>2. Told(s2) = Told(s) /\ \A n \in Told(s) : s2[n] = s[n]
  BY <1>1 DEF Told
<1>3. PartOf(s2, t)
  BY <1>2 DEF PartOf
<1>4. QED
  BY <1>3 DEF s2

\* A transition that is allowed adds to the moves what they lack and nothing else.
LEMMA Transition ==
  ASSUME LinesInv, NEW l \in Lines, NEW event \in {"submit", "validate", "reject"},
         TransitionBenefitLine(l, event)
  PROVE  LinesInv' /\ \A m \in Lines : LineStep(m)
<1>1. PICK updated \in BOOLEAN, recorded \in BOOLEAN : Written(l, event, updated, recorded)
  BY DEF TransitionBenefitLine
<1>2. /\ Exists(l) /\ line[l].status \in AllowedFrom(event) /\ planLocked' = planLocked
      /\ event \in LineEvents /\ event \in Moves /\ event # "handoff_update"
      /\ Leads(event) \in ValidationStatus
  BY DEF TransitionBenefitLine, LineEvents, Moves, Leads, ValidationStatus
<1>3. CASE ~updated
  <2>1. UNCHANGED <<line, trail, moves, planLocked>>
    BY <1>1, <1>2, <1>3 DEF Written
  <2>2. QED
    BY <2>1 DEF LinesInv, LinesTypeOK, StatusFollowsMoves, TrailsArePart,
                ValidatedWasSubmitted, Exists, LineStep
<1>4. CASE updated
  <2>1. /\ line' = [line EXCEPT ![l].status = Leads(event)]
        /\ moves' = [moves EXCEPT ![l] = Append(@, event)]
        /\ trail' = IF recorded THEN [trail EXCEPT ![l] = Append(@, event)] ELSE trail
    BY <1>1, <1>4 DEF Written
  <2>2. /\ moves[l] \in Seq(Moves) /\ trail[l] \in Seq(LineEvents) /\ trail[l] \in Seq(Moves)
    BY DEF LinesInv, LinesTypeOK, Moves
  <2>3. /\ Append(moves[l], event) \in Seq(Moves) /\ Append(moves[l], event) # <<>>
        /\ Len(Append(moves[l], event)) = Len(moves[l]) + 1
        /\ Append(moves[l], event)[Len(moves[l]) + 1] = event
        /\ \A n \in 1 .. Len(moves[l]) : Append(moves[l], event)[n] = moves[l][n]
        /\ Len(moves[l]) \in Nat
    BY <1>2, <2>2, AppendProperties
  <2>4. Append(trail[l], event) \in Seq(LineEvents)
    BY <1>2, <2>2, AppendProperties
  <2>5. /\ moves'[l] = Append(moves[l], event)
        /\ trail'[l] = trail[l] \/ trail'[l] = Append(trail[l], event)
        /\ line'[l].status = Leads(event) /\ line'[l].metric = line[l].metric
        /\ \A m \in Lines : m # l => /\ moves'[m] = moves[m] /\ trail'[m] = trail[m]
                                     /\ line'[m] = line[m]
    BY <2>1 DEF LinesInv, LinesTypeOK
  <2>6. LinesTypeOK'
    <3>1. line' \in [Lines -> [metric : Metrics \cup {NoMetric}, status : ValidationStatus,
                               shown : BOOLEAN]]
      BY <1>2, <2>1 DEF LinesInv, LinesTypeOK
    <3>2. moves' \in [Lines -> Seq(LineEvents \cup {"deleted", "cleared"})]
      BY <2>1, <2>3 DEF LinesInv, LinesTypeOK, Moves
    <3>3. trail' \in [Lines -> Seq(LineEvents)]
      BY <2>1, <2>4 DEF LinesInv, LinesTypeOK
    <3>4. QED
      BY <1>2, <3>1, <3>2, <3>3 DEF LinesInv, LinesTypeOK
  <2>7. StatusFollowsMoves'
    <3>1. Last(moves'[l]) = event
      BY <2>3, <2>5 DEF Last
    <3>2. QED
      BY <2>3, <2>5, <3>1 DEF LinesInv, StatusFollowsMoves, Exists
  <2>8. TrailsArePart'
    <3>1. PartOf(trail[l], moves[l])
      BY DEF LinesInv, TrailsArePart
    <3>2. PartOf(trail[l], Append(moves[l], event))
      BY <1>2, <2>2, <3>1, TrailBehind
    <3>3. PartOf(Append(trail[l], event), Append(moves[l], event))
      BY <1>2, <2>2, <3>1, TrailTells
    <3>4. PartOf(trail'[l], moves'[l])
      BY <2>5, <3>2, <3>3
    <3>5. QED
      BY <2>5, <3>4 DEF LinesInv, TrailsArePart
  <2>9. ValidatedWasSubmitted'
    <3>1. \A n \in 1 .. Len(moves'[l]) : moves'[l][n] \in {"validate", "reject"} =>
            n > 1 /\ moves'[l][n - 1] = "submit"
      <4> SUFFICES ASSUME NEW n \in 1 .. Len(moves[l]) + 1,
                          Append(moves[l], event)[n] \in {"validate", "reject"}
                   PROVE  n > 1 /\ Append(moves[l], event)[n - 1] = "submit"
        BY <2>3, <2>5
      <4>1. CASE n \in 1 .. Len(moves[l])
        <5>1. n > 1 /\ moves[l][n - 1] = "submit"
          BY <2>3, <4>1 DEF LinesInv, ValidatedWasSubmitted
        <5>2. QED
          BY <2>3, <4>1, <5>1
      <4>2. CASE n = Len(moves[l]) + 1
        <5>1. event \in {"validate", "reject"}
          BY <2>3, <4>2
        <5>2. line[l].status = "submitted"
          BY <1>2, <5>1 DEF AllowedFrom
        <5>3. moves[l] # <<>> /\ Last(moves[l]) = "submit"
          BY <1>2, <5>2 DEF LinesInv, StatusFollowsMoves, Leads
        <5>4. Len(moves[l]) > 0 /\ moves[l][Len(moves[l])] = "submit"
          BY <2>2, <5>3, EmptySeq DEF Last
        <5>5. QED
          BY <2>3, <4>2, <5>4
      <4>3. QED
        BY <2>3, <4>1, <4>2
    <3>2. QED
      BY <2>5, <3>1 DEF LinesInv, ValidatedWasSubmitted
  <2>10. \A m \in Lines : LineStep(m)
    BY <2>5 DEF LineStep, Exists
  <2>11. QED
    BY <2>6, <2>7, <2>8, <2>9, <2>10 DEF LinesInv
<1>5. QED
  BY <1>3, <1>4

\* Only a draft that was never submitted, or a rejected line, is deleted.
LEMMA Deletion ==
  ASSUME LinesInv, NEW l \in Lines, DeleteBenefitLine(l)
  PROVE  LinesInv' /\ \A m \in Lines : LineStep(m)
<1>1. /\ line' = [line EXCEPT ![l] = NoLine] /\ planLocked' = planLocked
      /\ trail' = [trail EXCEPT ![l] = <<>>]
      /\ moves' = [moves EXCEPT ![l] = Append(@, "deleted")]
      /\ Exists(l) /\ Deletable(line[l].status)
  BY DEF DeleteBenefitLine
<1>2. moves[l] \in Seq(Moves) /\ "deleted" \in Moves
  BY DEF LinesInv, LinesTypeOK, Moves
<1>3. /\ Append(moves[l], "deleted") \in Seq(Moves)
      /\ Len(Append(moves[l], "deleted")) = Len(moves[l]) + 1
      /\ Append(moves[l], "deleted")[Len(moves[l]) + 1] = "deleted"
      /\ \A n \in 1 .. Len(moves[l]) : Append(moves[l], "deleted")[n] = moves[l][n]
      /\ Len(moves[l]) \in Nat
  BY <1>2, AppendProperties
<1>4. /\ NoLine \in [metric : Metrics \cup {NoMetric}, status : ValidationStatus,
                     shown : BOOLEAN]
      /\ NoLine.metric = NoMetric /\ <<>> \in Seq(LineEvents)
  BY EmptySeq DEF NoLine, ValidationStatus
<1>5. /\ moves'[l] = Append(moves[l], "deleted") /\ trail'[l] = <<>> /\ line'[l] = NoLine
      /\ \A m \in Lines : m # l => /\ moves'[m] = moves[m] /\ trail'[m] = trail[m]
                                   /\ line'[m] = line[m]
  BY <1>1 DEF LinesInv, LinesTypeOK
<1>6. LinesTypeOK'
  <2>1. line' \in [Lines -> [metric : Metrics \cup {NoMetric}, status : ValidationStatus,
                             shown : BOOLEAN]]
    BY <1>1, <1>4 DEF LinesInv, LinesTypeOK
  <2>2. moves' \in [Lines -> Seq(LineEvents \cup {"deleted", "cleared"})]
    BY <1>1, <1>3 DEF LinesInv, LinesTypeOK, Moves
  <2>3. trail' \in [Lines -> Seq(LineEvents)]
    BY <1>1, <1>4 DEF LinesInv, LinesTypeOK
  <2>4. QED
    BY <1>1, <2>1, <2>2, <2>3 DEF LinesInv, LinesTypeOK
<1>7. StatusFollowsMoves'
  BY <1>4, <1>5 DEF LinesInv, StatusFollowsMoves, Exists
<1>8. TrailsArePart'
  BY <1>5, EmptyTrail DEF LinesInv, TrailsArePart
<1>9. ValidatedWasSubmitted'
  <2>1. \A n \in 1 .. Len(moves'[l]) : moves'[l][n] \in {"validate", "reject"} =>
          n > 1 /\ moves'[l][n - 1] = "submit"
    <3> SUFFICES ASSUME NEW n \in 1 .. Len(moves[l]) + 1,
                        Append(moves[l], "deleted")[n] \in {"validate", "reject"}
                 PROVE  n > 1 /\ Append(moves[l], "deleted")[n - 1] = "submit"
      BY <1>3, <1>5
    <3>1. n \in 1 .. Len(moves[l])
      BY <1>3
    <3>2. n > 1 /\ moves[l][n - 1] = "submit"
      BY <1>3, <3>1 DEF LinesInv, ValidatedWasSubmitted
    <3>3. QED
      BY <1>3, <3>1, <3>2
  <2>2. QED
    BY <1>5, <2>1 DEF LinesInv, ValidatedWasSubmitted
<1>10. \A m \in Lines : LineStep(m)
  <2>1. moves[l] = <<>> \/ Last(moves[l]) = "reject"
    BY <1>1 DEF LinesInv, StatusFollowsMoves, Deletable, Leads
  <2>2. QED
    BY <1>5, <2>1 DEF LineStep, Exists
<1>11. QED
  BY <1>6, <1>7, <1>8, <1>9, <1>10 DEF LinesInv

\* The deletion of the grid tells every line that is there of it.
LEMMA Clearing ==
  ASSUME LinesInv, DeleteGrid
  PROVE  LinesInv' /\ \A m \in Lines : LineStep(m)
<1>1. /\ line' = [l \in Lines |-> NoLine] /\ trail' = [l \in Lines |-> <<>>]
      /\ moves' = [l \in Lines |-> IF Exists(l) THEN Append(moves[l], "cleared") ELSE moves[l]]
      /\ planLocked' = planLocked
  BY DEF DeleteGrid
<1>2. /\ NoLine \in [metric : Metrics \cup {NoMetric}, status : ValidationStatus,
                     shown : BOOLEAN]
      /\ NoLine.metric = NoMetric /\ <<>> \in Seq(LineEvents)
  BY EmptySeq DEF NoLine, ValidationStatus
<1>3. \A l \in Lines :
        /\ moves[l] \in Seq(Moves) /\ Len(moves[l]) \in Nat
        /\ Append(moves[l], "cleared") \in Seq(Moves)
        /\ Len(Append(moves[l], "cleared")) = Len(moves[l]) + 1
        /\ Append(moves[l], "cleared")[Len(moves[l]) + 1] = "cleared"
        /\ \A n \in 1 .. Len(moves[l]) : Append(moves[l], "cleared")[n] = moves[l][n]
  <2> SUFFICES ASSUME NEW l \in Lines
               PROVE  /\ moves[l] \in Seq(Moves) /\ Len(moves[l]) \in Nat
                      /\ Append(moves[l], "cleared") \in Seq(Moves)
                      /\ Len(Append(moves[l], "cleared")) = Len(moves[l]) + 1
                      /\ Append(moves[l], "cleared")[Len(moves[l]) + 1] = "cleared"
                      /\ \A n \in 1 .. Len(moves[l]) :
                           Append(moves[l], "cleared")[n] = moves[l][n]
    OBVIOUS
  <2>1. moves[l] \in Seq(Moves) /\ "cleared" \in Moves
    BY DEF LinesInv, LinesTypeOK, Moves
  <2>2. QED
    BY <2>1, AppendProperties
<1>4. LinesTypeOK'
  <2>1. moves' \in [Lines -> Seq(LineEvents \cup {"deleted", "cleared"})]
    BY <1>1, <1>3 DEF Moves
  <2>2. QED
    BY <1>1, <1>2, <2>1 DEF LinesInv, LinesTypeOK
<1>5. \A l \in Lines : line'[l].metric = NoMetric /\ trail'[l] = <<>>
  BY <1>1, <1>2
<1>6. StatusFollowsMoves' /\ TrailsArePart'
  BY <1>5, EmptyTrail DEF StatusFollowsMoves, TrailsArePart, Exists
<1>7. ValidatedWasSubmitted'
  <2>1. ASSUME NEW l \in Lines, NEW n \in 1 .. Len(moves'[l]),
               moves'[l][n] \in {"validate", "reject"}
        PROVE  n > 1 /\ moves'[l][n - 1] = "submit"
    <3>1. moves'[l] = moves[l] \/ moves'[l] = Append(moves[l], "cleared")
      BY <1>1
    <3>2. n \in 1 .. Len(moves[l]) /\ moves'[l][n] = moves[l][n]
      BY <1>3, <2>1, <3>1
    <3>3. n > 1 /\ moves[l][n - 1] = "submit"
      BY <2>1, <3>2 DEF LinesInv, ValidatedWasSubmitted
    <3>4. n - 1 \in 1 .. Len(moves[l])
      BY <1>3, <3>2, <3>3
    <3>5. QED
      BY <1>3, <3>1, <3>3, <3>4
  <2>2. QED
    BY <2>1 DEF ValidatedWasSubmitted
<1>8. QED
  BY <1>4, <1>6, <1>7 DEF LinesInv, LineStep

LEMMA LinesStep == LinesInv /\ [LinesNext]_lineVars
                     => LinesInv' /\ \A l \in Lines : LineStep(l)
<1> SUFFICES ASSUME LinesInv, [LinesNext]_lineVars
             PROVE  LinesInv' /\ \A l \in Lines : LineStep(l)
  OBVIOUS
<1>1. ASSUME NEW l \in Lines, NEW metric \in Metrics, NEW shown \in BOOLEAN,
             CreateBenefitLine(l, metric, shown) \/ UpdateGrid(l, metric, shown)
      PROVE  LinesInv' /\ \A m \in Lines : LineStep(m)
  <2> DEFINE row == [metric |-> metric, status |-> "draft", shown |-> shown]
  <2>1. /\ moves[l] = <<>> /\ line' = [line EXCEPT ![l] = row] /\ ~Exists(l)
        /\ UNCHANGED <<trail, moves, planLocked>>
    BY <1>1 DEF CreateBenefitLine, UpdateGrid, AddLine
  <2>2. /\ row \in [metric : Metrics \cup {NoMetric}, status : ValidationStatus,
                    shown : BOOLEAN]
        /\ row.status = "draft"
    BY DEF ValidationStatus
  <2> HIDE DEF row
  <2>3. line'[l] = row /\ \A m \in Lines : m # l => line'[m] = line[m]
    BY <2>1 DEF LinesInv, LinesTypeOK
  <2>4. LinesTypeOK'
    BY <2>1, <2>2 DEF LinesInv, LinesTypeOK
  <2>5. StatusFollowsMoves'
    BY <2>1, <2>2, <2>3 DEF LinesInv, StatusFollowsMoves, Exists
  <2>6. TrailsArePart' /\ ValidatedWasSubmitted'
    BY <2>1 DEF LinesInv, TrailsArePart, ValidatedWasSubmitted
  <2>7. QED
    BY <2>1, <2>3, <2>4, <2>5, <2>6 DEF LinesInv, LineStep, Exists
<1>2. ASSUME NEW l \in Lines, UpdateHandoff(l)
      PROVE  LinesInv' /\ \A m \in Lines : LineStep(m)
  <2>1. /\ trail' = [trail EXCEPT ![l] = Append(@, "handoff_update")]
        /\ UNCHANGED <<line, moves, planLocked>>
    BY <1>2 DEF UpdateHandoff
  <2>2. /\ trail[l] \in Seq(LineEvents) /\ trail[l] \in Seq(Moves)
        /\ "handoff_update" \in LineEvents
    BY DEF LinesInv, LinesTypeOK, Moves, LineEvents
  <2>3. Append(trail[l], "handoff_update") \in Seq(LineEvents)
    BY <2>2, AppendProperties
  <2>4. LinesTypeOK'
    BY <2>1, <2>3 DEF LinesInv, LinesTypeOK
  <2>5. PartOf(Append(trail[l], "handoff_update"), moves[l])
    BY <2>2, TrailHandsOff DEF LinesInv, TrailsArePart
  <2>6. TrailsArePart'
    BY <2>1, <2>5 DEF LinesInv, LinesTypeOK, TrailsArePart
  <2>7. QED
    BY <2>1, <2>4, <2>6 DEF LinesInv, StatusFollowsMoves, ValidatedWasSubmitted, LineStep,
                            Exists
<1>3. CASE PlanLocks
  BY <1>3 DEF PlanLocks, LinesInv, LinesTypeOK, StatusFollowsMoves, TrailsArePart,
              ValidatedWasSubmitted, LineStep, Exists
<1>4. CASE UNCHANGED lineVars
  BY <1>4 DEF lineVars, LinesInv, LinesTypeOK, StatusFollowsMoves, TrailsArePart,
              ValidatedWasSubmitted, LineStep, Exists
<1>5. QED
  BY <1>1, <1>2, <1>3, <1>4, Transition, Deletion, Clearing DEF LinesNext

LEMMA LinesInvariant == LinesSpec => []LinesInv
<1>1. LinesInit => LinesInv
  <2> SUFFICES ASSUME LinesInit PROVE LinesInv
    OBVIOUS
  <2>1. NoLine \in [metric : Metrics \cup {NoMetric}, status : ValidationStatus,
                    shown : BOOLEAN]
        /\ NoLine.metric = NoMetric
    BY DEF NoLine, ValidationStatus
  <2>2. LinesTypeOK
    BY <2>1, EmptySeq DEF LinesInit, LinesTypeOK
  <2>3. \A l \in Lines : ~Exists(l) /\ trail[l] = <<>> /\ moves[l] = <<>>
    BY <2>1 DEF LinesInit, Exists
  <2>4. QED
    BY <2>2, <2>3, EmptyTrail
       DEF LinesInv, StatusFollowsMoves, TrailsArePart, ValidatedWasSubmitted
<1>2. QED
  BY <1>1, LinesStep, PTL DEF LinesSpec

\* Every variable of the benefit lines has its type.
THEOREM LinesTyped == LinesSpec => []LinesTypeOK
<1>1. LinesInv => LinesTypeOK
  BY DEF LinesInv
<1>2. QED
  BY <1>1, LinesInvariant, PTL

\* For histories of any length: the trail never tells what did not happen,
\* finance decides once on each submission, and what it was asked stays.
THEOREM GovernedAreTold == LinesSpec => GovernedLinesAreTold
<1>1. LinesInv => TrailNeverAhead /\ ValidatedWasSubmitted
  BY DEF LinesInv, TrailsArePart, TrailNeverAhead
<1>2. LinesInv /\ [LinesNext]_lineVars
        => [\A l \in Lines : (Exists(l) /\ ~Exists(l)') =>
              moves[l] = <<>> \/ Last(moves[l]) = "reject" \/ DeleteGrid]_lineVars
  BY LinesStep DEF LineStep
<1>3. QED
  BY <1>1, <1>2, LinesInvariant, PTL DEF LinesSpec, GovernedLinesAreTold, GovernedLinesStay

-------------------------------------------------------------------------------
(* The ledger of realized benefits *)

\* Rows of their type, and of a period at most one that an import made.
Sound(rows) ==
  /\ rows \in [EntryIds -> LedgerRow]
  /\ \A p \in Periods : \A e, f \in Found(rows, p) :
       ~rows[e].byHand /\ ~rows[f].byHand => e = f

Free(rows) == {e \in EntryIds : ~rows[e].live}

LedgerInv == Sound(entry) /\ currentPlan \in 0 .. MaxPlans

\* A set of numbers up to n has a smallest one.
LEMMA SmallestExists ==
  ASSUME NEW n \in Nat, NEW S \in SUBSET (1 .. n), S # {}
  PROVE  \E u \in S : \A v \in S : u <= v
<1> DEFINE T == {u \in 1 .. n : n + 1 - u \in S}
<1>1. T \subseteq 1 .. n /\ T # {}
  <2>1. PICK u \in S : TRUE
    OBVIOUS
  <2>2. n + 1 - u \in 1 .. n /\ n + 1 - (n + 1 - u) = u
    OBVIOUS
  <2>3. QED
    BY <2>1, <2>2
<1>2. PICK m \in T : \A v \in T : v <= m
  BY <1>1, LargestExists
<1>3. ASSUME NEW v \in S PROVE n + 1 - m <= v
  <2>1. n + 1 - v \in 1 .. n /\ n + 1 - (n + 1 - v) = v
    OBVIOUS
  <2>2. n + 1 - v \in T
    BY <2>1
  <2>3. n + 1 - v <= m /\ m \in 1 .. n /\ v \in 1 .. n
    BY <1>1, <1>2, <2>2
  <2>4. QED
    BY <2>3
<1>4. QED
  BY <1>2, <1>3

LEMMA TwoMembers ==
  ASSUME NEW S, IsFiniteSet(S), Cardinality(S) >= 2
  PROVE  \E e, f \in S : e # f
<1>1. S # {}
  BY FS_EmptySet
<1>2. PICK e \in S : TRUE
  BY <1>1
<1>3. IsFiniteSet(S \ {e}) /\ Cardinality(S \ {e}) = Cardinality(S) - 1
  BY <1>2, FS_RemoveElement
<1>4. Cardinality(S) \in Nat
  BY FS_CardinalityType
<1>5. S \ {e} # {}
  BY <1>3, <1>4, FS_EmptySet
<1>6. QED
  BY <1>2, <1>5

LEMMA FreeIsFinite == \A rows : IsFiniteSet(Free(rows))
<1> SUFFICES ASSUME NEW rows PROVE IsFiniteSet(Free(rows))
  OBVIOUS
<1>1. IsFiniteSet(EntryIds)
  BY LedgerAssumption, FS_Interval DEF EntryIds
<1>2. Free(rows) \subseteq EntryIds
  BY DEF Free
<1>3. QED
  BY <1>1, <1>2, FS_Subset

\* An insertion takes a free row and leaves the others.
LEMMA Inserting ==
  ASSUME NEW rows, Sound(rows), Free(rows) # {}, currentPlan \in 0 .. MaxPlans,
         NEW p \in Periods, NEW actual \in Actuals, NEW byHand \in BOOLEAN,
         byHand \/ Found(rows, p) = {}
  PROVE  /\ Sound(Inserted(rows, p, actual, byHand))
         /\ \E e \in Free(rows) :
              \A f \in Free(rows) : f # e => f \in Free(Inserted(rows, p, actual, byHand))
<1> USE LedgerAssumption
<1> DEFINE First(e) == /\ ~rows[e].live
                       /\ \A f \in 1 .. e - 1 : rows[f].live
<1>1. \E e \in EntryIds : First(e)
  <2>1. Free(rows) \subseteq 1 .. MaxEntries
    BY DEF Free, EntryIds
  <2>2. PICK e \in Free(rows) : \A f \in Free(rows) : e <= f
    BY <2>1, SmallestExists
  <2>3. \A f \in 1 .. e - 1 : f \in EntryIds /\ f \notin Free(rows)
    BY <2>1, <2>2 DEF EntryIds
  <2>4. e \in EntryIds /\ ~rows[e].live
    BY DEF Free
  <2>5. \A f \in 1 .. e - 1 : rows[f].live
    BY <2>3 DEF Free
  <2>6. QED
    BY <2>4, <2>5
<1> DEFINE new == CHOOSE e \in EntryIds : First(e)
           row == [period |-> p, version |-> currentPlan, actual |-> actual,
                   byHand |-> byHand, live |-> TRUE]
<1>2. new \in EntryIds /\ First(new)
  BY <1>1
<1>3. Inserted(rows, p, actual, byHand) = [rows EXCEPT ![new] = row]
  BY DEF Inserted
<1>4. ~rows[new].live
  BY <1>2
<1>5. row \in LedgerRow /\ row.period = p /\ row.byHand = byHand /\ row.live = TRUE
  BY DEF LedgerRow
<1> HIDE DEF new, row, First
<1> DEFINE after == [rows EXCEPT ![new] = row]
<1>6. /\ after[new] = row
      /\ \A e \in EntryIds : e # new => after[e] = rows[e]
      /\ after \in [EntryIds -> LedgerRow]
  BY <1>2, <1>5 DEF Sound
<1> HIDE DEF after
<1>7. Sound(after)
  <2> SUFFICES ASSUME NEW q \in Periods, NEW e \in Found(after, q), NEW f \in Found(after, q),
                      ~after[e].byHand, ~after[f].byHand
               PROVE  e = f
    BY <1>6 DEF Sound
  <2>1. /\ e \in EntryIds /\ after[e].live /\ after[e].period = q
        /\ f \in EntryIds /\ after[f].live /\ after[f].period = q
    BY DEF Found
  <2>2. CASE e # new /\ f # new
    BY <2>1, <2>2, <1>6 DEF Sound, Found
  <2>3. CASE e = new /\ f # new
    <3>1. q = p /\ ~byHand
      BY <2>1, <2>3, <1>5, <1>6
    <3>2. f \in Found(rows, p)
      BY <2>1, <2>3, <3>1, <1>6 DEF Found
    <3>3. QED
      BY <3>1, <3>2
  <2>4. CASE f = new /\ e # new
    <3>1. q = p /\ ~byHand
      BY <2>1, <2>4, <1>5, <1>6
    <3>2. e \in Found(rows, p)
      BY <2>1, <2>4, <3>1, <1>6 DEF Found
    <3>3. QED
      BY <3>1, <3>2
  <2>5. QED
    BY <2>2, <2>3, <2>4
<1>8. new \in Free(rows) /\ \A f \in Free(rows) : f # new => f \in Free(after)
  BY <1>2, <1>4, <1>6 DEF Free
<1>9. Inserted(rows, p, actual, byHand) = after
  BY <1>3 DEF after
<1>10. QED
  BY <1>7, <1>8, <1>9

\* A row of an import updates the period's entries or makes its first.
LEMMA Upserting ==
  ASSUME NEW rows, Sound(rows), Free(rows) # {}, currentPlan \in 0 .. MaxPlans,
         NEW p \in Periods, NEW actual \in Actuals
  PROVE  /\ Sound(Upserted(rows, p, actual))
         /\ (\E e, f \in Free(rows) : e # f) => Free(Upserted(rows, p, actual)) # {}
<1>1. CASE Found(rows, p) = {}
  <2>1. Upserted(rows, p, actual) = Inserted(rows, p, actual, FALSE)
    BY <1>1 DEF Upserted
  <2>2. QED
    BY <1>1, <2>1, Inserting
<1>2. CASE Found(rows, p) # {}
  <2> DEFINE after == Upserted(rows, p, actual)
  <2>1. after = [e \in EntryIds |->
                   IF e \in Found(rows, p)
                   THEN [rows[e] EXCEPT !.actual = actual, !.version = currentPlan]
                   ELSE rows[e]]
    BY <1>2 DEF Upserted
  <2>2. \A e \in EntryIds : rows[e] \in LedgerRow
    BY DEF Sound
  <2>3. \A e \in EntryIds :
          [rows[e] EXCEPT !.actual = actual, !.version = currentPlan] \in LedgerRow
    BY <2>2 DEF LedgerRow
  <2> HIDE DEF after
  <2>4. after \in [EntryIds -> LedgerRow]
    BY <2>1, <2>2, <2>3
  <2>5. \A e \in EntryIds : /\ after[e].period = rows[e].period
                            /\ after[e].live = rows[e].live
                            /\ after[e].byHand = rows[e].byHand
    <3> SUFFICES ASSUME NEW e \in EntryIds
                 PROVE  /\ after[e].period = rows[e].period
                        /\ after[e].live = rows[e].live
                        /\ after[e].byHand = rows[e].byHand
      OBVIOUS
    <3>1. CASE e \in Found(rows, p)
      BY <2>1, <2>2, <3>1 DEF LedgerRow
    <3>2. CASE e \notin Found(rows, p)
      BY <2>1, <3>2
    <3>3. QED
      BY <3>1, <3>2
  <2>6. \A q : Found(after, q) = Found(rows, q)
    BY <2>5 DEF Found
  <2>7. Sound(after)
    BY <2>4, <2>5, <2>6 DEF Sound, Found
  <2>8. Free(after) = Free(rows)
    BY <2>5 DEF Free
  <2>9. QED
    BY <2>7, <2>8 DEF after
<1>3. QED
  BY <1>1, <1>2

LEMMA RoomIsFree ==
  ASSUME NEW n \in Nat, Room(n)
  PROVE  /\ n >= 1 => Free(entry) # {}
         /\ n >= 2 => \E e, f \in Free(entry) : e # f
<1>1. Cardinality(Free(entry)) >= n
  BY DEF Room, Free
<1>2. IsFiniteSet(Free(entry)) /\ Cardinality(Free(entry)) \in Nat
  BY FreeIsFinite, FS_CardinalityType
<1>3. n >= 1 => Free(entry) # {}
  BY <1>1, <1>2, FS_EmptySet
<1>4. n >= 2 => \E e, f \in Free(entry) : e # f
  BY <1>1, <1>2, TwoMembers
<1>5. QED
  BY <1>3, <1>4

LEMMA LedgerStep == LedgerInv /\ [LedgerNext]_ledgerVars => LedgerInv'
<1> SUFFICES ASSUME LedgerInv, [LedgerNext]_ledgerVars PROVE LedgerInv'
  OBVIOUS
<1> USE LedgerAssumption
<1>1. ASSUME NEW p \in Periods, NEW actual \in Actuals, CreateLedgerEntry(p, actual)
      PROVE  LedgerInv'
  <2>1. Free(entry) # {}
    BY <1>1, RoomIsFree DEF CreateLedgerEntry
  <2>2. Sound(Inserted(entry, p, actual, TRUE))
    BY <2>1, Inserting DEF LedgerInv
  <2>3. entry' = Inserted(entry, p, actual, TRUE) /\ currentPlan' = currentPlan
    BY <1>1 DEF CreateLedgerEntry
  <2>4. Sound(entry')
    BY <2>2, <2>3
  <2>5. QED
    BY <2>3, <2>4 DEF LedgerInv, Sound, Found
<1>2. ASSUME NEW p \in Periods, NEW q \in Periods, NEW actual \in Actuals, NEW n \in 1 .. 2,
             ImportLedgerCsv(p, q, actual, n)
      PROVE  LedgerInv'
  <2> DEFINE first == Upserted(entry, p, actual)
  <2>1. Free(entry) # {} /\ \E e, f \in Free(entry) : e # f
    BY <1>2, RoomIsFree DEF ImportLedgerCsv
  <2>2. Sound(first) /\ Free(first) # {}
    BY <2>1, Upserting DEF LedgerInv
  <2>3. /\ entry' = first \/ entry' = Upserted(first, q, actual)
        /\ currentPlan' = currentPlan
    BY <1>2 DEF ImportLedgerCsv
  <2> HIDE DEF first
  <2>4. Sound(Upserted(first, q, actual))
    BY <2>2, Upserting DEF LedgerInv
  <2>5. Sound(entry')
    BY <2>2, <2>3, <2>4
  <2>6. QED
    BY <2>3, <2>5 DEF LedgerInv, Sound, Found
<1>3. ASSUME NEW p \in Periods, NEW actual \in Actuals, NEW e \in EntryIds, NEW brought \in BOOLEAN,
             MoveLedgerEntry(e, p, actual, brought)
      PROVE  LedgerInv'
  <2> DEFINE row == [period |-> p, version |-> currentPlan, actual |-> actual,
                     byHand |-> TRUE, live |-> TRUE]
  <2>1. row \in LedgerRow /\ row.byHand = TRUE
    BY DEF LedgerInv, LedgerRow
  <2>2. entry' = [entry EXCEPT ![e] = row] /\ currentPlan' = currentPlan
    BY <1>3 DEF MoveLedgerEntry
  <2> HIDE DEF row
  <2>3. /\ entry'[e] = row /\ entry' \in [EntryIds -> LedgerRow]
        /\ \A f \in EntryIds : f # e => entry'[f] = entry[f]
    BY <2>1, <2>2 DEF LedgerInv, Sound
  <2>4. QED
    BY <2>1, <2>2, <2>3 DEF LedgerInv, Sound, Found
<1>4. ASSUME NEW actual \in Actuals, NEW e \in EntryIds, UpdateLedgerActual(e, actual)
      PROVE  LedgerInv'
  <2>1. entry' = [entry EXCEPT ![e].actual = actual] /\ currentPlan' = currentPlan
    BY <1>4 DEF UpdateLedgerActual
  <2>2. /\ entry' \in [EntryIds -> LedgerRow]
        /\ \A f \in EntryIds : /\ entry'[f].period = entry[f].period
                               /\ entry'[f].live = entry[f].live
                               /\ entry'[f].byHand = entry[f].byHand
    BY <2>1 DEF LedgerInv, Sound, LedgerRow
  <2>3. QED
    BY <2>1, <2>2 DEF LedgerInv, Sound, Found
<1>5. ASSUME NEW e \in EntryIds, DeleteLedgerEntry(e)
      PROVE  LedgerInv'
  <2>1. entry' = [entry EXCEPT ![e].live = FALSE] /\ currentPlan' = currentPlan
    BY <1>5 DEF DeleteLedgerEntry
  <2>2. /\ entry' \in [EntryIds -> LedgerRow]
        /\ \A f \in EntryIds : /\ entry'[f].period = entry[f].period
                               /\ entry'[f].live => entry[f].live
                               /\ entry'[f].byHand = entry[f].byHand
    BY <2>1 DEF LedgerInv, Sound, LedgerRow
  <2>3. QED
    BY <2>1, <2>2 DEF LedgerInv, Sound, Found
<1>6. CASE NewPlan
  BY <1>6 DEF NewPlan, LedgerInv, Sound, Found
<1>7. CASE UNCHANGED ledgerVars
  BY <1>7 DEF ledgerVars, LedgerInv, Sound, Found
<1>8. QED
  BY <1>1, <1>2, <1>3, <1>4, <1>5, <1>6, <1>7 DEF LedgerNext

LEMMA LedgerInvariant == RealizationSpec => []LedgerInv
<1>1. LedgerInit => LedgerInv
  <2> SUFFICES ASSUME LedgerInit PROVE LedgerInv
    OBVIOUS
  <2>1. (CHOOSE p \in Periods : TRUE) \in Periods /\ (CHOOSE a \in Actuals : TRUE) \in Actuals
    BY LedgerAssumption
  <2>2. NoEntry \in LedgerRow /\ NoEntry.live = FALSE
    BY <2>1, LedgerAssumption DEF NoEntry, LedgerRow
  <2>3. entry \in [EntryIds -> LedgerRow] /\ \A e \in EntryIds : ~entry[e].live
    BY <2>2 DEF LedgerInit
  <2>4. QED
    BY <2>3, LedgerAssumption DEF LedgerInit, LedgerInv, Sound, Found
<1>2. QED
  BY <1>1, LedgerStep, PTL DEF RealizationSpec

\* Every entry of the ledger has its type.
THEOREM LedgerTyped == RealizationSpec => []LedgerTypeOK
<1>1. LedgerInv => LedgerTypeOK
  BY DEF LedgerInv, Sound, LedgerTypeOK
<1>2. QED
  BY <1>1, LedgerInvariant, PTL

\* For any periods and any number of imports, whole or cut off: a period has no
\* second entry that an import made.
THEOREM ImportedOnce == RealizationSpec => []ImportsNeverDuplicate
<1>1. LedgerInv => ImportsNeverDuplicate
  <2> SUFFICES ASSUME LedgerInv, NEW p \in Periods
               PROVE  Cardinality({e \in Found(entry, p) : ~entry[e].byHand}) <= 1
    BY DEF ImportsNeverDuplicate
  <2>1. \A e, f \in {x \in Found(entry, p) : ~entry[x].byHand} : e = f
    BY DEF LedgerInv, Sound
  <2>2. QED
    BY <2>1, AtMostOne
<1>2. QED
  BY <1>1, LedgerInvariant, PTL

===============================================================================
