---------------------------- MODULE StatusUpdates ----------------------------
(* The status updates of one initiative and its headline colour
   (services/status_update.py), edited from pages that each hold the draft they
   loaded (status-updates-tab.component.ts).

   A handler is synchronous, so one request runs at a time; its last call, the
   headline's, may fail on its own. *)
EXTENDS Naturals, FiniteSets

CONSTANTS
  Pages,          \* open pages of the initiative
  MaxUpdates,     \* bound on the rows created
  MaxSubmissions  \* bound on the submissions

ASSUME UpdatesAssumption == MaxUpdates \in Nat /\ MaxSubmissions \in Nat

VARIABLES
  update,         \* the rows of status_updates, in the order of their creation
  headline,       \* initiatives.rag_status
  held,           \* the draft a page holds, 0: none
  submissions,    \* history: the clock of submitted_at
  unsynced        \* history: a headline write failed

updateVars == <<update, headline, held, submissions, unsynced>>

Colours == {"red", "green"}
Ids == 1 .. MaxUpdates
NoRow == [live |-> FALSE, used |-> FALSE, draft |-> FALSE, rag |-> "green", at |-> 0]

UpdatesInit ==
  /\ update = [u \in Ids |-> NoRow]
  /\ headline = "green"
  /\ held = [p \in Pages |-> 0]
  /\ submissions = 0
  /\ unsynced = FALSE

-------------------------------------------------------------------------------
Drafts == {u \in Ids : update[u].live /\ update[u].draft}

Newest(S) == CHOOSE u \in S : \A v \in S : v <= u

\* get_draft: the newest row that is a draft.
GetDraft == IF Drafts = {} THEN 0 ELSE Newest(Drafts)

BadSyncHeadline(row, stored) ==
  /\ headline' = IF ~stored THEN headline ELSE row.rag
  /\ unsynced' = (unsynced \/ ~stored)

\* _sync_headline_rag_for_submitted, after every write of a row.
SyncHeadline(row, stored) ==
  /\ headline' = IF row.draft \/ ~stored THEN headline ELSE row.rag
  /\ unsynced' = (unsynced \/ ~(row.draft \/ stored))

\* A draft is refused while there is one.
MayCreate(draft) == draft => Drafts = {}

CreateUpdate(draft, rag, stored) ==
  /\ MayCreate(draft)
  /\ \E u \in Ids :
       /\ ~update[u].used
       /\ \A v \in 1 .. u - 1 : update[v].used
       /\ submissions' = IF draft THEN submissions ELSE submissions + 1
       /\ update' = [update EXCEPT ![u] =
            [live |-> TRUE, used |-> TRUE, draft |-> draft, rag |-> rag,
             at |-> IF draft THEN 0 ELSE submissions']]
       /\ SyncHeadline(update'[u], stored)

\* Only the step from draft to submitted sets submitted_at; a row may go back
\* to draft and keeps it.
PatchUpdate(u, draft, rag, stored) ==
  /\ update[u].live
  /\ LET submits == update[u].draft /\ ~draft
     IN  /\ submissions' = IF submits THEN submissions + 1 ELSE submissions
         /\ update' = [update EXCEPT ![u].draft = draft, ![u].rag = rag,
                                     ![u].at = IF submits THEN submissions' ELSE @]
  /\ SyncHeadline(update'[u], stored)

\* performSave: PUT the draft the page holds, or POST a new row.
PerformSave(p, draft, rag, stored) ==
  /\ submissions < MaxSubmissions
  /\ IF held[p] # 0 THEN PatchUpdate(held[p], draft, rag, stored)
                    ELSE CreateUpdate(draft, rag, stored)
  /\ UNCHANGED held

\* fetchDraft, once a save returned: a page keeps what it holds if there is no draft.
FetchDraft(p) ==
  /\ Drafts # {}
  /\ held' = [held EXCEPT ![p] = GetDraft]
  /\ UNCHANGED <<update, headline, submissions, unsynced>>

\* The page is opened anew.
OpenPage(p) ==
  /\ held' = [held EXCEPT ![p] = GetDraft]
  /\ UNCHANGED <<update, headline, submissions, unsynced>>

\* The submit route; a row that is not a draft is returned as it is.
SubmitUpdate(u, stored) ==
  /\ submissions < MaxSubmissions
  /\ update[u].live /\ update[u].draft
  /\ PatchUpdate(u, FALSE, update[u].rag, stored)
  /\ UNCHANGED held

DeleteUpdate(u) ==
  /\ update[u].live
  /\ update' = [update EXCEPT ![u].live = FALSE]
  /\ UNCHANGED <<headline, held, submissions, unsynced>>

UpdatesNext ==
  \/ \E p \in Pages :
       \/ \E draft \in BOOLEAN, rag \in Colours, stored \in BOOLEAN :
            PerformSave(p, draft, rag, stored)
       \/ FetchDraft(p)
       \/ OpenPage(p)
  \/ \E u \in Ids : (\E stored \in BOOLEAN : SubmitUpdate(u, stored)) \/ DeleteUpdate(u)

UpdatesSpec == UpdatesInit /\ [][UpdatesNext]_updateVars

-------------------------------------------------------------------------------
(* Properties. *)

\* Every variable has its type.
UpdatesTypeOK ==
  /\ update \in [Ids -> [live : BOOLEAN, used : BOOLEAN, draft : BOOLEAN,
                         rag : Colours, at : 0 .. MaxSubmissions]]
  /\ headline \in Colours
  /\ held \in [Pages -> 0 .. MaxUpdates]
  /\ submissions \in 0 .. MaxSubmissions
  /\ unsynced \in BOOLEAN

\* However pages are interleaved, at most one draft was never submitted: any
\* other draft is a submitted row that a page saved back.
OneFreshDraft == Cardinality({u \in Drafts : update[u].at = 0}) <= 1

\* Work in progress never shows: while a row is a draft, writing it leaves the
\* headline of the portfolio alone.
DraftsLeaveHeadline ==
  [][headline' # headline =>
       \E u \in Ids : /\ update'[u] # update[u] \/ update'[u].at # 0
                      /\ update'[u].live /\ ~update'[u].draft
                      /\ update'[u].rag = headline']_updateVars

\* Drafts stay apart, from each other and from the headline (create_update,
\* patch_update).
DraftsStayApart == []OneFreshDraft /\ DraftsLeaveHeadline

Submitted == {u \in Ids : update[u].live /\ ~update[u].draft}

\* There is one draft at a time (the rule create_update states).
OneDraft == Cardinality(Drafts) <= 1

\* The latest submitted update gives the headline, as the plan for the status
\* heartbeat recommends (no failed write, nothing deleted).
LatestGivesHeadline ==
  (~unsynced /\ Submitted # {} /\ \A u \in Ids : update[u].used => update[u].live)
    => headline = update[CHOOSE u \in Submitted :
                           \A v \in Submitted : update[v].at <= update[u].at].rag
===============================================================================
