----------------------------- MODULE TeamsEvents -----------------------------
(* The Teams invites of a meeting series: the rows of meeting_external_events
   and the events that exist in the organizer's mailbox (services/meeting.py).

   A row belongs to the series or to one of its sessions and names the invite
   made last for it. Handlers are synchronous, so each is one step, but the
   mailbox and the database fail on their own: a step may leave the one changed
   and the other not. *)
EXTENDS Naturals, FiniteSets

CONSTANTS
  Series,       \* the scope of the series' own invite
  SessionScopes,\* the scopes of its sessions
  Accounts,     \* Microsoft accounts an administrator may connect
  NoId,         \* NULL
  MaxInvites    \* bound on the invites made

ASSUME TeamsAssumption == MaxInvites \in Nat

VARIABLES
  seriesCancelled,  \* meetings.status = 'cancelled'
  events,           \* the row of each scope
  connected,        \* the connected account
  mailbox           \* the account whose calendar holds an invite, NoId: none

teamsVars == <<seriesCancelled, events, connected, mailbox>>

Scopes == SessionScopes \cup {Series}
Invites == 1..MaxInvites
SyncStatus == {"synced", "failed", "not_configured", "pending", "cancelled"}

\* pinned: integration_connection_id names the present connection. A connection
\* that is removed takes the ids of its rows along (ON DELETE SET NULL).
Event == [sync : SyncStatus \cup {"none"}, ext : Invites \cup {NoId}, pinned : BOOLEAN]
NoEvent == [sync |-> "none", ext |-> NoId, pinned |-> FALSE]

TeamsInit == /\ seriesCancelled = FALSE
             /\ events = [s \in Scopes |-> NoEvent]
             /\ connected = NoId
             /\ mailbox = [i \in Invites |-> NoId]

Rows == {s \in Scopes : events[s].sync # "none"}
Made == {i \in Invites : mailbox[i] # NoId} \cup {events[s].ext : s \in Rows}
Fresh == {i \in Invites : \A j \in Made \cap Invites : i > j}

\* An upsert keeps the columns its payload leaves out, the event's id above all.
UpsertExternalEvent(s, row) == events' = [events EXCEPT ![s] = row]

-------------------------------------------------------------------------------
ConnectAccount(a) ==
  /\ connected = NoId
  /\ connected' = a
  /\ UNCHANGED <<seriesCancelled, events, mailbox>>

DisconnectAccount ==
  /\ connected # NoId
  /\ connected' = NoId
  /\ events' = [s \in Scopes |-> [events[s] EXCEPT !.pinned = FALSE]]
  /\ UNCHANGED <<seriesCancelled, mailbox>>

\* create_microsoft_event asks neither whether the series is cancelled nor
\* whether the scope has an invite: the row then names the new one.
NotConnected(s) ==
  /\ connected = NoId
  /\ UpsertExternalEvent(s, [events[s] EXCEPT !.sync = "not_configured"])
  /\ UNCHANGED <<seriesCancelled, connected, mailbox>>

InviteMade(s, i) ==
  /\ connected # NoId /\ i \in Fresh
  /\ mailbox' = [mailbox EXCEPT ![i] = connected]
  /\ UpsertExternalEvent(s, [sync |-> "synced", ext |-> i, pinned |-> TRUE])
  /\ UNCHANGED <<seriesCancelled, connected>>

\* Microsoft refuses, cannot be reached, answers too late, or the row cannot be
\* written: an invite may exist that no row names.
InviteFailed(s, sync, made, stored) ==
  /\ connected # NoId
  /\ mailbox' = [i \in Invites |-> IF i \in made THEN connected ELSE mailbox[i]]
  /\ IF stored THEN UpsertExternalEvent(s, [events[s] EXCEPT !.sync = sync, !.pinned = TRUE])
     ELSE UNCHANGED events
  /\ UNCHANGED <<seriesCancelled, connected>>

\* The event a transcript is read from: the session's own, else any with an invite.
MicrosoftExternalEvents(s) ==
  LET named == {t \in {s, Series} : events[t].ext # NoId}
  IN  IF s \in named THEN {s} ELSE named

\* sync_microsoft_transcript writes a row for the session, one without an invite
\* where there was none.
SyncMicrosoftTranscript(s, sync) ==
  /\ \E t \in MicrosoftExternalEvents(s) : events[t].pinned
  /\ UpsertExternalEvent(s, [events[s] EXCEPT !.sync = sync, !.pinned = TRUE])
  /\ UNCHANGED <<seriesCancelled, connected, mailbox>>

\* The organizer deletes the event in Outlook.
DeleteInOutlook(i) ==
  /\ mailbox[i] # NoId
  /\ mailbox' = [mailbox EXCEPT ![i] = NoId]
  /\ UNCHANGED <<seriesCancelled, events, connected>>

-------------------------------------------------------------------------------
(* cancel_meeting_series: for each row the invite is deleted at Microsoft and the
   row updated, then the series is cancelled. *)

\* What Microsoft answers to the deletion of an invite.
CanDelete(s) == events[s].pinned /\ events[s].ext # NoId
Answers(s) == IF ~CanDelete(s) THEN {"none"}
              ELSE {"config", "error"} \cup
                   (IF mailbox[events[s].ext] = connected THEN {"ok"} ELSE {})

CancelledAs(s, answer) ==
  CASE events[s].ext = NoId \/ answer = "ok" -> "cancelled"
    [] answer = "error" -> "failed"
    [] OTHER -> "not_configured"

BadLoopEnds(tried) == TRUE

\* A failed call to the database ends the loop and the handler.
LoopEnds(tried) == tried = Rows

\* tried: the rows written; asked: those Microsoft was asked about, one more if
\* the write of its row is what failed; gone: deletions that timed out but happened.
CancelSeriesEvents(tried, asked, answer, gone, done) ==
  /\ ~seriesCancelled
  /\ Cardinality(asked \ tried) <= 1
  /\ \A s \in asked : answer[s] \in Answers(s)
  /\ gone \subseteq {s \in asked : answer[s] = "error"}
  /\ done => LoopEnds(tried)
  /\ LET deleted == {events[s].ext : s \in {t \in asked : answer[t] = "ok"} \cup gone}
     IN  mailbox' = [i \in Invites |-> IF i \in deleted THEN NoId ELSE mailbox[i]]
  /\ events' = [s \in Scopes |-> IF s \in tried
                                 THEN [events[s] EXCEPT !.sync = CancelledAs(s, answer[s])]
                                 ELSE events[s]]
  /\ seriesCancelled' = done
  /\ UNCHANGED connected

\* The rows go with the meeting; its invites stay in the mailbox.
DeleteSeries ==
  /\ seriesCancelled' = FALSE
  /\ events' = [s \in Scopes |-> NoEvent]
  /\ UNCHANGED <<connected, mailbox>>

-------------------------------------------------------------------------------
TeamsNext ==
  \/ \E a \in Accounts : ConnectAccount(a)
  \/ DisconnectAccount
  \/ \E s \in Scopes :
       \/ NotConnected(s)
       \/ \E i \in Invites : InviteMade(s, i)
       \/ \E sync \in {"failed", "not_configured"}, ok \in BOOLEAN,
             made \in {{}} \cup {{i} : i \in Fresh} : InviteFailed(s, sync, made, ok)
  \/ \E s \in SessionScopes, sync \in {"synced", "failed", "pending"} :
       SyncMicrosoftTranscript(s, sync)
  \/ \E i \in Invites : DeleteInOutlook(i)
  \/ \E asked \in SUBSET Rows :
       \E tried, gone \in SUBSET asked, done \in BOOLEAN,
          answer \in [asked -> {"none", "ok", "config", "error"}] :
         CancelSeriesEvents(tried, asked, answer, gone, done)
  \/ DeleteSeries

TeamsSpec == TeamsInit /\ [][TeamsNext]_teamsVars

TeamsTypeOK ==
  /\ seriesCancelled \in BOOLEAN
  /\ events \in [Scopes -> Event]
  /\ connected \in Accounts \cup {NoId}
  /\ mailbox \in [Invites -> Accounts \cup {NoId}]

\* A row that says its Teams event was cancelled names no event that is still in
\* a calendar, across retries, reconnections by another account and answers that
\* came too late (cancel_meeting_series, create_microsoft_event).
CancelledRowIsGone ==
  \A s \in Rows : events[s].sync = "cancelled" /\ events[s].ext # NoId =>
                    mailbox[events[s].ext] = NoId

\* A series is not cancelled in the database before the cancellation of each of
\* its Teams events was tried and the outcome recorded: whatever call fails, what
\* is left undone is left to a series that can be cancelled again.
CancelAttemptsEveryInvite ==
  [][~seriesCancelled /\ seriesCancelled' =>
       \A s \in Rows : /\ events'[s].sync \in {"cancelled", "failed", "not_configured"}
                       /\ events'[s].sync = "cancelled" /\ events[s].ext # NoId =>
                            mailbox'[events[s].ext] = NoId]_teamsVars

\* Every invite of a cancelled series was asked for, and no row claims more than
\* Microsoft did.
InvitesAreWithdrawn == []CancelledRowIsGone /\ CancelAttemptsEveryInvite
===============================================================================
