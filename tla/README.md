# Transmuter: a TLA+ verification project

Transmuter is a multi-tenant SaaS for managing transformation portfolios: initiatives pass stage
gates, approvals freeze financial plans, benefits are tracked against them, meetings and nudges keep
people honest, and tenants are sold through Stripe. The API is FastAPI over Supabase
(PostgREST, Postgres with row-level security), the client Angular, and a procrastinate worker sends
nudges. This directory holds TLA+ modules translated from the code under `src/`, TLC configurations
that check them on small instances, and TLAPS proofs that hold for every instance.

In the tables, `services/x.py` means `src/apps/api/app/services/x.py`, and so on. Which lines each
definition stands for is in `PROJECT.json`, under `map`.

## 1. How the program executes

Five facts about the running system shape every module.

* **Handlers do not interleave, except at an await.** The API is one uvicorn process without
  `--workers` (`apps/api/Dockerfile:21`, `Dockerfile.prod:24`), its handlers are coroutines, and the
  Supabase client they call is synchronous. A handler that awaits nothing runs from its first line to
  its last before another one starts. The handlers of gates and financials await nothing of consequence;
  those of billing await Stripe before they touch the database. Hence *one action per
  handler*. A second replica would void this, and the definitions that read a row and later write what they computed
  from it (`NextVersion`, `HasPending`, `EmailAvailable`, the links of `Identity`) are where it would show.
* **A handler is not a transaction.** Each Supabase call is a PostgREST request and a transaction of
  its own. A handler that fails leaves the calls it completed. Hence an action takes the *prefix of
  calls it completed* as a parameter, and `MayFail` says whether proper prefixes are possible.
* **Row-level security answers each call by itself.** An UPDATE or DELETE of rows the caller may not
  touch affects none and raises nothing; an INSERT raises.
* **Other processes exist.** The procrastinate worker, the commands under `cli/` and `scripts/`, and, while a
  deployment replaces it, a second API process run beside the handlers; their calls interleave with
  everything else's, one database call at a time. The second process is modelled where a call leaves the system and
  its answer comes late: the tokens of Microsoft, the services a copilot action runs, the nudges.
* **Outside services answer by themselves.** Stripe's events come at least once, in any order, late, and
  again after an error; Supabase Auth and Microsoft Graph may fail having taken effect or not.

## 2. Inventory

| Component | Source | State | Modules | Status |
|---|---|---|---|---|
| Stage gates | `services/governance.py` | `gate_submissions`, `initiatives.stage`, audit log | Governance | all but gate definitions and criteria |
| Bankable plan versions | `services/financial.py:1953-2014` | `bankable_plans`, governance settings | PlanLedger, Governance | whole |
| Plan editing under the lock | `services/financial.py`, `repositories/financial.py` | cost lines, metric values, benefit lines, planned period | PlanData | cost lines and one lane of values |
| Annual baselines | `services/financial.py:1423-1461` | baseline per initiative | BaselineLock | the initiative's |
| Initiative lifecycle, workbooks | `services/initiative.py`, `services/initiative_workbook.py`, `services/financial_workbook.py` | `initiatives` and what hangs on them | InitiativeWorkbook, PlanData, Governance | stage, dates, export and import |
| Billing and provisioning | `services/billing.py`, `routers/billing.py` | `signup_intents`, subscriptions, `users`, accounts; Stripe | Billing | all but prices and the portal |
| People, invites, identity | `services/people.py`, `routers/auth.py`, `cli/reconcile_auth_claims.py` | `users`, accounts, invites, links | Identity, Accounts | all but sign-in and assignments |
| Migration of addresses | `scripts/migrate_five_tenant_fixture_email_domains.py` | both stores, a journal | EmailMigration, Accounts | whole |
| Meetings | `services/meeting.py` | series, sessions, agendas, Teams rows, minutes, artifacts | MeetingSeries, TeamsEvents, SessionRecords | all but recurrence rules and transcripts |
| Microsoft Graph | `services/meeting_integrations.py`, `services/meeting_providers.py` | connection row, OAuth rounds | GraphConnection | connection; calendar calls are answers |
| AI copilot | `services/ai.py` | `ai_copilot_actions` | CopilotActions | writes; answers are reads |
| Status updates, nudges | `services/status_update.py`, `jobs/status_nudges.py` | updates, headline, nudge log | StatusUpdates, Nudges | whole |
| Benefits | `services/financial.py`, `repositories/financial.py` | benefit lines, events, ledger of actuals | BenefitLines, BenefitLedger | writers; rollups are in Figures |
| Control tower | `services/executive_control.py` | dependencies, pools, runs | Dependencies, SharedCosts | writers but for notes and reports |
| Milestones, risks, action items | `services/milestone.py`, `services/meeting.py` | milestones, edges, scores | Milestones, DependencyGraph, SessionRecords | milestones; the rest where meetings make them |
| Formulas and reports | `services/financial.py` | metric definitions; values | Formulas, Figures | validation, order, values; five reports |
| Seeds, cleanup, deletion | `scripts/`, `services/admin.py`, `routers/platform.py` | every table of a tenant, as counts | TenantTables, TenantCalls, TenantScripts | each script's calls |
| Portfolio workbook, acceptance | `services/portfolio_workbook.py`, `scripts/verify_five_tenant_dev_api_acceptance.py` | the same | PortfolioWorkbook, Acceptance | dry run, reload, reset; counts and probes |
| Workstream targets, frontend, rate limiter, deployment | | | | not modelled |

How they meet. `record_decision` updates the submission, moves the stage, asks `FinancialService` for a
plan version and writes the audit log; the version and the governance settings are the lock that every
writer of the grid asks for, each in its own way. The annual baseline is locked by gate submissions.
Provisioning and people write the same `users` rows and accounts. A meeting makes risks and action items;
copilot actions call the services of milestones, risks and financials. The scripts write every table.

What makes each correct is in section 4; what is hard about it is `PROJECT.json`'s list of hazards,
each with its line. One hazard has no property: criteria are counted and not identified when a gate asks for all of
them (`services/governance.py:213`), and criteria are not modelled.

## 3. Modules

```
PlanLedger   what the plan table promises   <== refinement ==   Governance
    ^                                                               ^
PlanData  the grid under the lock                               BaselineLock   (conjoined step by step)
    : beside it InitiativeWorkbook; both extend Lists

DependencyGraph  <-- Dependencies, Milestones          Identity, EmailMigration <-- Accounts
TenantTables <-- TenantCalls <-- PortfolioWorkbook, Acceptance <-- TenantScripts

MCGovernance  MCPlanData  MCBilling  MCMeetings  MCWorkflows  MCPortfolio    instances for TLC
Governance_  PlanData_ <-- Workbook_  Billing_  Identity_  Meetings_  Workflows_  Portfolio_proofs
```

* **PlanLedger** is the abstract specification of `bankable_plans`: a history per initiative that grows by
  one version, begins with an approval, and does not grow when the approval of the current
  version comes again. **Governance** implements it: `subs`, `plans`, `stage`, `settings` are the tables,
  `everApproved` a history variable. `Decide` conjoins its four calls `DecideRow`, `DecideStage`,
  `DecidePlan`, `DecideAudit`; nothing in the code asks that a submission is still pending, so nothing in `Decide`
  does. **BaselineLock** conjoins the annual baseline, whose lock is computed from current submissions.
* **PlanData** extends the ledger with the grid: cost lines as the sequence of rows they are, planned and
  actual values as one lane, the planned period, and the operators `...Outcomes`: the grids a handler may
  leave when it may stop after any call. `PreparedLines` resolves the inflation of a batch under the tenant's mode and
  inflates it, `IsRefusedLine` says which lines end the request instead. `Migrated` is what an unlocked legacy read does
  to lines outside the period: it deletes the grid, then prepares the merged lines as any request would, which inflates
  inflated lines once more, or is refused with the grid gone.
* **InitiativeWorkbook** has an initiative leave as one of three files and come back call by call: an operator
  `...Steps` is the sequence of records a handler leaves after each call, and an import that stops leaves one of
  them. **Lists** has what the code writes as a loop over a list, as recursive functions.
* **Billing** has signup's tables and, as outside state, Stripe's sessions and events. An event is never
  removed: it can be delivered again. `ProvisionCalls` are the calls of `provision_checkout_session`.
* **Identity** has invitations, links and accounts, requests that stop after any call, and the reconciliation
  command, which reads everybody once and then writes one by one. **EmailMigration** moves addresses in
  two stores under a journal, and undoes what it did when anything fails.
* **MeetingSeries**, **TeamsEvents**, **SessionRecords** split `services/meeting.py` by what interacts: sessions that are
  snapshots of a series, and `ShownAgenda`, which falls back to the series where a session has no agenda of its own; rows
  of invitations and the events they name at Microsoft; minutes generated across an await and changed by a PATCH that
  looks at no row, and artifacts that own a risk or an action item and may be moved to another initiative or to none.
* **GraphConnection** has two processes, the generations kept in the row, and answers that come late.
* **CopilotActions**, **StatusUpdates**, **Nudges**, **BenefitLines**, **BenefitLedger** are each a table and its
  writers: a confirmation whose service may raise before or after its insert and beside which another may run
  (`BeginConfirm`, `ConfirmAction`), two pages of one draft, worker and request over one log, a line and its event in two
  calls and the `DeleteGrid` that takes both, an import that looks each period up before it writes it.
* **Dependencies** and **Milestones** share the breadth-first search of DependencyGraph. **SharedCosts** rounds
  shares as `Decimal.quantize` does. **Formulas** and **Figures** are computations over any definitions
  and any rows; the state is the data.
* **TenantTables** has the tables and their foreign keys as the migrations leave them, **TenantCalls** the kinds of
  statement, **TenantScripts** each script as the list of its calls, **PortfolioWorkbook** and **Acceptance** two
  scripts with more to say.

Operators named `Bad...` are mistakes one could make in the definition they stand before. No action
uses them; each property fails when one of them takes that definition's place.

## 4. What TLC checks

| Run | Instance | Question |
|---|---|---|
| `core` | 1 initiative, 2 gates, 3 submissions, 2 versions, failures | gates, plans and baseline; the ledger is implemented |
| `plan` | 2 lines, 3 planned periods, failures: 2 months under the lock, 3 years with inflation; 2 books, 2 edits | editing under the lock; workbooks that come back |
| `signup` | 2 slugs, 2 addresses, 2 intents, failures | who owns a tenant and what it has |
| `retry` | 2 slugs, 1 address, 2 intents, fairness | a finished checkout is eventually provisioned |
| `meetings` | 2 dates, 2 accounts, 3 invitations, 2 artifacts, 2 drafts, 2 runs | series, Teams events, records |
| `workflows` | 2 users, 3 updates, 2 nudge runs, 2 lines, 3 entries, every script | copilot, updates, nudges, benefits, scripts |
| `portfolio` | 2 projects, 3 months, 3 initiatives, 3 nodes, 2 processes, 3 people | reports, formulas, pools, graphs, identity, Graph |
| `finance_approver`, `export`, `replay`, `last_row`, `reload_reset` | | section 6 |

A run with parts fixes in its initial state which component moves; the others stand still.

* *Gates and plans* (`core`). `PlansAndRequests`: every version comes from a submission of its initiative
  and kind, a rebaseline is asked for after a version, and versions requested and written never cross.
  `PlanHasApproval`, `StageHasApproval`, `AuditedApprovalTookEffect` are about the order of the calls of a
  decision and failures between them. `LedgerSpec` is the refinement. `UnlockedByRevocationOnly`: an
  approved baseline is unlocked by a setting or a revocation, not by submitting its gate again.
* *Plan editing* (`plan`). `LockedPlanWriters` names who changes a locked plan. `LockKeepsPlan`: under the
  lock, entering actuals changes no planned cost and an import raises none. `SaveTouchesItsMonthsOnly` covers
  the delete-then-insert of a batch that stops. `MovingKeepsCosts`: unless a line is refused, moving
  costs into the planned period keeps at least the planned cost there was, exactly that where nothing is inflated, and
  comes to an end in a period that ends after it starts. `ReimportSettles`, `RetryCompletes`: an exported file that is
  imported
  twice changes nothing the second time, and an import that stopped is completed by another.
* *Billing* (`signup`, `retry`). `ClaimsMatchProfile`, `ProvisionedIsWhole`, `ActiveIsPaid`, `TenantsAreOwned`
  relate tables written in separate calls by interrupted and repeated deliveries. `PaidIsProvisioned` is the
  project's liveness property.
* *Meetings* (`meetings`). `SeriesHistoryStands`: the agenda shown of a session that was started with one, or that was
  given one of its own, stands, and a cancelled series gets no further session. (Of a session held without an agenda
  nothing stands: section 6.) `InvitesAreWithdrawn`: no row claims a cancellation Microsoft did not
  make, and a series is cancelled only after each event was tried. `RecordsStayTogether`: minutes marked
  sent are those that were mailed, unless a PATCH set the mark or the text under it; an artifact is not gone while its
  record remains, unless it is a risk's and had been moved to no initiative.
* *Workflows*. `LedgerTellsExecutions`: the ledger never confirms what did not happen, and an action whose confirmations
  came one after another took effect at most once more than it says for each of them that ended in an error.
  `ConfirmedWithAuthority`, `DraftsStayApart`, `OncePerDay`. `GovernedLinesAreTold`: a line's trail never tells a move
  that
  was not made, and a line that finance was asked about disappears with its whole grid only. `ImportsNeverDuplicate`.
  `SeedIsCanonical`, `SeedIsNeverRefused`: a seed stopped anywhere and run again ends
  with the fixture's counts and is refused by no foreign key; the reload and the acceptance run are held
  to what they report. `CleanupIsWhole`: cleanup empties what it names and nothing else.
* *Portfolio*. `ReportsTally` (five reports over one set of rows; the contributors of every period whose key the
  report may be asked for), `FormulasSolve` (an order is found and
  every formula has its value), `RunsAreSound` (a run adds up to its pool and is in proportion),
  `NoInitiativeWaitsForItself`, `NoMilestoneWaitsForItself`, `DirectDependentsCount`, `AcceptedAreIn`, `RevokedStayOut`
  (nobody put out comes back, and no password is chosen through a link that was used up, replaced, revoked or expired: the
  history `late` collects such links), `OkMeansInSync`, `DisconnectSticks`, `LateAnswersAreLost`.

**Bounds.** Two gates give one that is not the plan gate and gates out of order; three submissions a gate, its
resubmission and a rebaseline between; one initiative suffices because every action touches the rows of
one. Two months are one inside and one outside a period; one period is inverted, since only the create form
orders dates; planned amounts up to 2 let two lines merge. The part with three years has planned costs only, and lines
that
ask for nothing and are inflated or not by the mode of the moment: three years are a first inflated year outside the
period, and
two inside of which the later one grows. A grid that would grow beyond `MaxAmount` is not written.
The lock is switched on and off only where there is a version, without which it locks nothing. Two intents, slugs and
addresses are every way two
signups can meet. Two dates, accounts, artifacts, users, lines and processes are a pair that can be confused, and so
are two drafts of
minutes, one mailed and one not; three invitations, updates and entries are one that comes, one that replaces it and
one late. `MaxDisturbances = 1`
is one stop, failed row, added row or page read during a script; two were once checked before the reload
and the acceptance run were added. Accounts and processes are symmetric in `portfolio`. Deadlock is checked everywhere.

**Fairness.** Only `FairSpec` of Billing has any: weak fairness of `AnswerCompleted(k)`, a delivery of the
completion event of an unprovisioned checkout with no failure between two calls. Stripe repeats an event
until it is answered with success; that some delivery does not fail is what retrying presumes. Nothing is assumed
of the customer. The property's exception, two open intents of one address, is real: section 6.

## 5. What is proved

TLAPS checks these for every value of the constants: any number of initiatives, people, months,
lines, links or processes, with and without failures.

| Module | Theorems |
|---|---|
| `Governance_proofs` | `TypeCorrect`, `VersionsAreDense`, `OnePending`, `Provenance`, `PlansAreApproved`, `StagesAreApproved`, `AuditIsTrue`, `LedgerImplemented` (refinement), `BaselineKeepsGovernance`, `BaselineStaysLocked` |
| `PlanData_proofs` | `PlanTyped`, `LockHolds`, `SaveIsLocal`, `PlanKept`, `MovingKeeps` |
| `Billing_proofs` | `BillingTyped`, `ClaimsAgree`, `RetriesHaveThePassword`, `ProvisionedWhole`, `ActivePaid`, `TenantsOwned`, `PurchasesStand` |
| `Identity_proofs` | `IdentityTyped`, `AcceptedIn`, `RevokedForGood`, `OkIsInSync`, `MigrationTyped`, `MigrationTold`, `OkIsTrue`; of the Graph connection `ConnectionTyped`, `DisconnectedForGood`, `LateAnswersLost` |
| `Meetings_proofs` | `SeriesTyped`, `SeriesHistory`, `TeamsTyped`, `InvitesWithdrawn`, `RecordsTyped`, `RecordsTogether` |
| `Workflows_proofs` | `CopilotTyped`, `ExecutionsTold`, `AuthorityHeld`, `NudgesTyped`, `RemindedOnce`, `UpdatesTyped`, `DraftsApart`, `LinesTyped`, `GovernedAreTold`, `LedgerTyped`, `ImportedOnce` |
| `Portfolio_proofs` | `DependenciesTyped`, `InitiativesStayAcyclic`, `MilestonesTyped`, `MilestonesStayAcyclic`, `ScoresCountDependents`; `SharedCostsTyped`, `RunsSound`, `FiguresTyped`, `ReportsTallied`, `FormulasTyped`, `FormulasSolved`; the lemma `AddingKeepsAcyclic` |
| `Workbook_proofs` | `WorkbookTyped`, `RetriesCompleteAlways`, `ReimportsSettle` |

`PROJECT.json` says which run's property a theorem states, and leaves out a few of the typings.

**Assumptions.** The named ASSUMEs of the modules give the constants their types (finite sets where the code
iterates over rows, positive bounds; amounts and weights are any integers, a full percentage is a positive number of
units). Two more stand in theorems: `ApproversMayUpdate` (row-level security admits every
approver's role to `gate_submissions`) in `PlansAreApproved`, and with it `FormStaysOnChain` (stage edits
name configured stages) in `StagesAreApproved`. They are hypotheses because the code enforces neither: section 6.

**Arguments.**

* *Governance.* The root is `TypeOK /\ VersionsDense`: `LatestPlan` is the row of the highest number, and only
  with dense numbers is it the last one. `PlanStep`, `PlansGrow` and `SubsStep` say that a step appends at
  most one version, and appends a pending submission or changes one decision; the rest is argued from
  these and not from the handlers. `ApprovalIsStored` uses that calls complete in order; `StageInv` adds that
  every row that says approved is in the history.
* *Plan editing.* Typing is inductive, but needs that merging, upserting and filtering sequences of rows leave
  sequences of rows. The filters and sums are recursive functions; `Recursion` proves that such a function exists from
  the well-foundedness of the numbers, and induction over numbers and sequences is proved for sets (`Induction`,
  `SequenceInduction`) since operators cannot be passed to the library's theorems. `PlannedSplit`, that the costs
  of two kinds of lines add up, carries `MergedCost`: merging neither loses nor doubles a cost. `InsertedApart`: an
  upsert of lines of different months into an empty grid deletes none of them. Inflation multiplies each line by a
  positive
  number, since the first inflated year of a batch is a minimum and exists (`Minimum`, `InflatedType`): so a batch that is
  prepared keeps its lines and months (`PreparedLinesType`) and its costs only rise (`PlannedRises`), and merging
  inflates a
  line only where one was inflated (`NormalizeInflates`). `MigratedFacts` puts them together for `MovingKeeps`.
  `LockHolds` goes through
  `AllowedUnderLock`, one lemma per action.
* *Workbooks, types.* An import is a chain of conversions; each has a lemma for what it makes of any list of lines, proved
  by induction over the list (`Written`, `Listed`, `FlattenSeq`) or over the steps of its recursion (`Distinct`, `Among`).
  `WorkbookTyped` then follows one call at a time: every record an import passes through is an initiative.
* *Workbooks, retry.* A record an import may stop at has the window and owner the import gives it, the grid from before or
  the one it writes, and a prefix of the new updates (`StoppedReached`). Updates are new by their summary, so
  that a retry appends what is missing; the grid is emptied first, so that what it held does not matter, and under the
  lock, where it is not refilled, it stays empty.
* *Workbooks, settling.* What an import writes are plain lines: one month each, not inflated, an actual amount entered,
  one for each key and each at its place in the period. An export gives every such line a cell of its own
  (`RowReread`, `ColumnsApart`), a share of all of it, and no other line of its row is of that month (`CellOfOne`), so
  that
  what is read again is the same set of lines (`LinesReread`); moving, preparing and writing them are then identities
  (`PlacedSame`, `PlainPrepared`, `WrittenSingle`). For the planned cost: a line whose amount divides by its months is
  a span of
  equal whole cells (`LineSpan`, `ShareSpan`), and the cells of the sheet have one sum by rows and by columns
  (`TotalSwap`), so that nothing is rounded away; placing and writing lose nothing where no two lines have one key.
* *Billing.* `PurchasesStand` first: intents keep tenant and address, finished sessions stay finished, a users row
  keeps its tenant. Each property then depends on the order of the provisioning calls alone.
* *Identity.* Strengthened by: rows have accounts; a dead link belongs to an invitation that was decided or
  has a newer link, so that no request holds it and nobody follows it; whatever a reconciliation that has not failed
  still has to write is on its list. *Migration*:
  while a command is at work only its current person can be half way, those before are new in both stores and
  those after old in both; when none is at work one at most is torn.
* *Graph.* Generations only grow, and an answer carries the one it was asked under.
* *Meetings.* A session without a row is the empty record and a held agenda is frozen; a fresh invitation is
  named by no row; a sent draft is in the mailed set unless a PATCH gave it its mark.
* *Workflows.* The copilot's ledger equation is inductive with typing and `OneAtATime`: where no two confirmations of an
  action overlapped, one that is under way found a draft, and nothing has closed it since. Nudges need that nobody a
  run is still to
  remind was reminded by that runner within a day. Updates need that submitted rows have a date. A
  benefit line's status is what its last move made of it and its trail embeds in its moves; a deleted grid leaves no trail
  to compare (`Clearing`). The ledger of
  actuals needs that a free row exists while there is room.
* *Dependencies.* An edge is added only when the search from its target did not reach its source;
  `AddingKeepsAcyclic` does the rest for both tables.
* *Sums.* `SumFunction` is a recursion over the subsets of a set that chooses an element at each. `SomethingAdds` proves
  that such a recursion exists, `AddsAlike` that any two agree, `SumWithout` that any element may be taken first;
  then sums are linear, bounded by their terms, and may be taken part by part (`SumByParts`).
* *Shared costs.* Each run is sound by itself (`SoundRun`), and steps make sound runs (`NewRunIsSound`), change a
  status, or
  take the row of a deleted initiative and remember it (`WithoutIsSound`). A run adds up because the last row is what the
  others leave. Proportion: a quotient is within half a unit of its share (`QuotientRounds`); summed over all other rows
  this bounds the last one (`SharesInProportion`), for bases of either sign. Of a base of zero nothing is said: the last
  row then takes everything.
* *Reports.* Rows are finitely many and of their type; every report is a sum over the same rows by a key
  (period, initiative, year, month), and `NetByKey` says that the parts make the whole. `PlainGains`: with metrics
  configured as the guide says, what the portfolio by initiative counts is what the value case counts. The report may
  be asked only for periods that parse (`Parses`); the rest have
  no contributors to add up. The curve of the break-even needs that no cost names a quarter, for otherwise a period is
  told by more than its month.
* *Formulas.* Saving keeps `NeverLoops`. Formulas without loops have a rank (`Ranked`, by induction over sets of
  formulas), and
  a visit that may go `d` calls deep settles every formula of a rank below `d` (`CalledSound`): the order it returns
  has each
  formula once and behind what it names (`Settled`). Then a value is never computed from one that changes later
  (`AllSolved`).

**Only model-checked.** `PaidIsProvisioned`: liveness is out of the prover's reach. `SeedIsCanonical`,
`SeedIsNeverRefused`, `CleanupIsWhole`
are facts about particular lists of some hundred calls, and about the rows that a fold of such a list leaves in a
customer's
tenant: evaluation settles them, and the prover cannot unfold the folds. What `ReimportSettles` says excludes `default_on`
inflation, under which it is false (section 6).

## 6. Where code and documents disagree

Five runs each violate one property, taken from a sentence quoted in `PROJECT.json`.

* `finance_approver`: a gate may name an approver role that row-level security keeps from updating
  submissions. The approval moves the stage and writes a version; the submission stays pending.
* `export`: the export reads through the migrating read, which deletes metric values and benefit lines, those that
  finance validated with their trails included.
* `replay`: a repeated completion event reactivates a canceled subscription or a deactivated user.
* `last_row`: the last row of an allocation takes the share of initiatives the rule excludes.
* `reload_reset`: the reset before a reload is refused once a plan is locked, with earlier tables emptied.

Seen in the same models, without a run:

* *Gates and plans.* Stage strings off the configured order pass no gate (`services/initiative.py:758`). Approving
  the plan gate again after a further submission writes a version where rebaselining is disabled. An approved
  rebaseline counts as the approval of the plan gate. `update_cost_line` looks at no lock
  (`services/financial.py:789`).
* *Plan editing.* With planned dates in the wrong order no line settles and every read rewrites the grid. A read that
  moves
  lines into the period inflates those that were inflated when they were stored, and where the mode was changed since
  it is refused with the
  grid deleted (`services/financial.py:4874-4884`). Under the lock a replacing import deletes all cost lines and
  re-inserts none. An import where a month holds several lines lowers its plan.
* *Workbooks.* A re-import makes the importer owner, clears business units and resets confidence; benefit values are
  deleted
  and not rewritten; two cost names in one month overwrite each other; `default_on` inflation compounds at every
  round (`docs/team/RUNBOOK_E2E_FINDINGS_IMPLEMENTATION_PLAN.md:467`); updates come in newest first, so that the
  oldest sets the headline; a retried template import makes a second initiative.
* *Billing.* The second tenant of one address is paid for and never provisioned (`services/billing.py:823`).
  `mark_checkout_failed` writes a status the CHECK constraint refuses (`services/billing.py:416`).
* *People.* A crash after an account is created strands the address: invite, create and accept refuse it, and the
  reconciliation only warns. `update_profile` may write claims and roll the row back. No API reactivates
  a person. A kill of the migration between the two stores leaves one person whom preflight refuses until repaired by
  hand.
* *Meetings.* A session held without an agenda of its own shows the agenda of the series and follows its later edits, and
  so do its attendees (`services/meeting.py:422`). A PATCH of the text alone keeps "sent" over a text nobody received, and
  "sent" may be set without a mail (`services/meeting.py:489`). A risk stays behind when its artifact was moved to no
  initiative
  and is deleted; one moved to another initiative answers 404 after it was written. A cancelled series may keep an
  open session (`tests/test_meeting_v2_service.py:411`); generated
  minutes overwrite edits made during the await; `create_microsoft_event` repeated orphans an invitation; a
  failed cancellation is not retried once the series is cancelled.
* *Copilot.* The branches to "failed" and "cancelled" are unreachable; a failed ledger update, or a service that
  raises after
  its insert (`services/milestone.py:113`, `services/financial.py:599`), leaves the draft open to be executed again; two
  confirmations at once both execute, and the ledger may turn from expired to confirmed when one began before the
  expiry; `docs/team/AI_COPILOT_V3_WRITE_TOOLS_PLAN.md:89` promises an audit entry that financial actions do not
  write.
* *Status updates, nudges.* A submitted row saved back as a draft keeps its date: two drafts
  (`status_update.py:57`) and a headline of no submitted row. A late run skips a day, so that nudges come every
  other day; two overlapping runners both nudge; a failed mail is not repeated.
* *Benefits.* `delete_grid` deletes lines in any status, called by a read that migrates and by a replacing import. The
  grid inserts lines without the one-visible-line check; a hand-made duplicate makes an import
  stop half way; entries keep the old plan's amounts after a rebaseline. The Benefits card takes plan and variance
  from different bases (`services/financial.py:5943`). The dashboard's waterline counts an initiative of
  a locked target twice, or not at all.
* *Control tower.* Several locked runs of one pool all count (the docs say the latest); a run cut off before its rows
  counts as locked with none.
* *Milestones.* The stored pressure is stale after a deletion and for what waits transitively
  (`domain_packs/transmuter/pressure_formula.yaml:389`); any dependency id can be deleted through any milestone.
* *Reports, formulas.* A monthly report shows a cost without a month as a period of its year, whose contributors are a 422
  (`services/financial.py:6418`, `domain/fiscal_calendar.py:41`). The "net"  bridge row is not net
  (`docs/user-guides/admin-financial-configuration-user-guide.md:1174`);
  a division by zero at save is a 500; a metric a formula uses can be deactivated; the break-even
  counts a cost line with quarter and month twice.
* *Scripts.* The administrator's cleanup is refused once a plan is locked, and so is tenant deletion by tables it
  does not list, each with earlier tables emptied; `seed_dev.py:12` says "Idempotent" and duplicates two risks, and
  it always stops at a dropped table; a dry run counts rows without a name otherwise than the reload inserts
  them, and the first load inserts a workstream per initiative that names a missing one. An acceptance probe
  whose audit entry fails stays, and the next acceptance is refused until reseeded.

## 7. Abstractions, and what is not modelled

* *Gates*: criteria, comments, conditional decisions as such, audit entries other than approvals, snapshots inside a
  version.
* *Plan editing*: one cost category, a recurring one; Plan Base, Plan High and benefit lines are one lane, since the
  code writes and
  deletes them together, and the deletes of values and of benefit lines are one step; all inflated lines have one
  rate, so that a
  merged line keeps it; quarters are in InitiativeWorkbook and Figures instead. The legacy
  metric tables follow the steps of the cost lines.
* *Workbooks*: one cost category, whole dollars, amounts that double each inflated year; lines that ask for inflation
  one by
  one, creation of workstreams by name, and the migration inside a read step by step are left out (PlanData has the
  first and the last).
* *Reports*: the path over `financial_entries` (`services/financial.py:2860-2932`) is not modelled: migration
  `20260611000002` dropped the table, and its reads return nothing.
* *Billing*: plans and seats, organization names, accounts that came another way than by signup.
* *Identity*: workstream assignments, `/register`, rotation of the administrator's address, sign-in. *Migration*: what
  it reads about people outside its plan is a failure that may happen.
* *Meetings*: recurrence is a window of dates; agents are an await; transcripts are whether there is a source.
* *Shared costs*: pool periods, notes, reports and the owner cockpit. An initiative that is deleted takes its rows
  along, which `lost` remembers; proportion is claimed of runs that lost none.
* *Scripts*: rows are counts; values, and what references the organization or a person beside a nearer parent, are
  left out.
* Not modelled: workstream targets (one insert each), dashboards and search (reads), frontend, rate limiter, deployment.

## 8. Plan

1. Gate criteria under Governance, counted as the code counts them; workstream targets beside PlanLedger.
2. The legacy metric tables under PlanData as rows of their own, with the calls that write them.
3. Lines that ask for inflation one by one in InitiativeWorkbook, and a rate for each line in PlanData.
