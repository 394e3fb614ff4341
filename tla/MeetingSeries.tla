---------------------------- MODULE MeetingSeries ----------------------------
(* One meeting series and its dated sessions (services/meeting.py).

   The series keeps a default agenda and default attendees. A session is a row
   of its own, made when the series is opened (a GET that writes) or when it is
   started, and it holds a snapshot of both. snapshot_session_agenda decides at
   every read whether the snapshot still follows the series. Each repository
   call is its own transaction, so a handler may stop between two of them
   (MayFail), and what was written stays. *)
EXTENDS Naturals, FiniteSets

CONSTANTS
  Dates,      \* dates a session may be held on
  Windows,    \* the sets of dates a page of the series may list
  Items,      \* ids of default agenda items
  Texts,      \* texts of agenda items
  Users,      \* people who may attend
  None,
  MayFail,    \* TRUE: a call to the database may raise
  MaxEdits    \* bound on the edits of agendas and attendees

ASSUME WindowsAreDates == Windows \subseteq SUBSET Dates /\ MaxEdits \in Nat

VARIABLES
  meeting,    \* the row of meetings, with its agenda_items and meeting_attendees
  sessions,   \* meeting_sessions with their agenda items and attendees, by date
  held,       \* history: the texts a session must go on showing, None: not fixed
  edits       \* edits so far (bound)

vars == <<meeting, sessions, held, edits>>

SessionStatus == {"scheduled", "in_progress", "completed", "cancelled"}

\* A row of meeting_session_agenda_items: source_agenda_item_id and text.
Row == [src : Items \cup {None}, text : Texts]

Session == [status : SessionStatus \cup {"none"},
            agenda : SUBSET Row, agendaCustom : BOOLEAN,
            people : SUBSET Users, peopleCustom : BOOLEAN]

NoSession == [status |-> "none", agenda |-> {}, agendaCustom |-> FALSE,
              people |-> {}, peopleCustom |-> FALSE]

NoMeeting == [status |-> "none", agenda |-> [i \in Items |-> None], people |-> {}]

TextsOf(rows) == {r.text : r \in rows}

Init == /\ meeting = NoMeeting
        /\ sessions = [d \in Dates |-> NoSession]
        /\ held = [d \in Dates |-> None]
        /\ edits = 0

-------------------------------------------------------------------------------
(* Snapshots. *)

Closed == {"completed", "cancelled"}

Frozen(s, custom, rows) ==
  custom \/ s.status \in Closed \/ (s.status = "in_progress" /\ rows # {})

SnapshotAgenda(s) ==
  [s EXCEPT !.agenda =
     IF Frozen(s, s.agendaCustom, @) THEN @
     ELSE {[src |-> i, text |-> meeting.agenda[i]] :
             i \in {j \in Items : meeting.agenda[j] # None}}
          \cup {r \in @ : r.src = None}]

SnapshotAttendees(s) ==
  [s EXCEPT !.people = IF Frozen(s, s.peopleCustom, @) THEN @ ELSE meeting.people]

MaterializeSession(s) == SnapshotAttendees(SnapshotAgenda(s))

\* What the next page shows of a session the repository has just made.
CreateScheduledSession(status) == [NoSession EXCEPT !.status = status]

EnsureSession(s, materialize) ==
  LET row == IF s.status = "none" THEN CreateScheduledSession("scheduled") ELSE s
  IN  IF materialize THEN MaterializeSession(row) ELSE row

\* Duplicate texts are refused; the initiative of an item is left out.
RejectDuplicateAgenda(texts, text) == text \in texts

-------------------------------------------------------------------------------
(* The series. *)

Active == meeting.status = "active"
Exists == meeting.status # "none"
Edit == edits < MaxEdits /\ edits' = edits + 1

CreateMeeting(agenda, people) ==
  /\ ~Exists
  /\ meeting' = [status |-> "active", agenda |-> agenda, people |-> people]
  /\ UNCHANGED <<sessions, held, edits>>

\* get_sessions_window, called by get_meeting_detail: a cancelled series lists
\* the sessions it has, an active one makes those of the page.
BadSessionsWindow(done, last) ==
  sessions' = [d \in Dates |-> IF d \in done THEN EnsureSession(sessions[d], d # last)
                               ELSE sessions[d]]

SessionsWindow(done, last) ==
  sessions' = IF meeting.status = "cancelled" THEN sessions
              ELSE [d \in Dates |-> IF d \in done THEN EnsureSession(sessions[d], d # last)
                                    ELSE sessions[d]]

\* The sessions a call got through (done), and one made but not filled (last).
Reached(window, done, last) ==
  \/ done = window /\ last = None
  \/ MayFail /\ done \subseteq window /\ last \in done \cup {None}

OpenMeeting(window, done, last) ==
  /\ Exists
  /\ Reached(window, done, last)
  /\ SessionsWindow(done, last)
  /\ UNCHANGED <<meeting, held, edits>>

\* set_attendees deletes the rows and inserts the new ones in two calls.
SetAttendees(people, inserted) == IF inserted THEN people ELSE {}

\* update_meeting with participants, before the detail it returns.
UpdateMeeting(people, inserted) ==
  /\ Exists /\ Edit
  /\ MayFail \/ inserted
  /\ meeting' = [meeting EXCEPT !.people = SetAttendees(people, inserted)]
  /\ UNCHANGED <<sessions, held>>

CreateAgendaItem(i, text) ==
  /\ Exists /\ Edit
  /\ meeting.agenda[i] = None
  /\ ~RejectDuplicateAgenda({meeting.agenda[j] : j \in Items}, text)
  /\ meeting' = [meeting EXCEPT !.agenda[i] = text]
  /\ UNCHANGED <<sessions, held>>

UpdateAgendaItem(i, text) ==
  /\ Exists /\ Edit
  /\ meeting.agenda[i] # None
  /\ meeting' = [meeting EXCEPT !.agenda[i] = text]
  /\ UNCHANGED <<sessions, held>>

\* The foreign key of the snapshots is ON DELETE SET NULL: a copied row stays in
\* every session, as a row without a source.
Orphaned(rows, i) == {IF r.src = i THEN [r EXCEPT !.src = None] ELSE r : r \in rows}

DeleteAgendaItem(i) ==
  /\ Exists /\ Edit
  /\ meeting.agenda[i] # None
  /\ meeting' = [meeting EXCEPT !.agenda[i] = None]
  /\ sessions' = [d \in Dates |-> [sessions[d] EXCEPT !.agenda = Orphaned(@, i)]]
  /\ UNCHANGED held

AddAttendee(u) ==
  /\ Exists /\ Edit
  /\ meeting' = [meeting EXCEPT !.people = @ \cup {u}]
  /\ UNCHANGED <<sessions, held>>

DeleteAttendee(u) ==
  /\ Exists /\ Edit
  /\ meeting' = [meeting EXCEPT !.people = @ \ {u}]
  /\ UNCHANGED <<sessions, held>>

\* cancel_meeting_series, after the Teams events (TeamsEvents.tla). A failure
\* between the two calls leaves sessions open, and a retry returns early.
CancelOpenSessions(all) ==
  [d \in Dates |-> IF sessions[d].status \in {"scheduled", "in_progress"}
                   THEN [all[d] EXCEPT !.status = "cancelled"] ELSE all[d]]

CancelMeetingSeries(closes) ==
  /\ Active
  /\ MayFail \/ closes
  /\ meeting' = [meeting EXCEPT !.status = "cancelled"]
  /\ sessions' = IF closes THEN CancelOpenSessions(sessions) ELSE sessions
  /\ UNCHANGED <<held, edits>>

\* The sessions and their rows go with the meeting (ON DELETE CASCADE).
DeleteMeeting ==
  /\ Exists
  /\ meeting' = NoMeeting
  /\ sessions' = [d \in Dates |-> NoSession]
  /\ held' = [d \in Dates |-> None]
  /\ UNCHANGED edits

-------------------------------------------------------------------------------
(* A session. *)

\* get_session_detail, and every handler that calls it, writes the snapshot. The
\* agenda it shows is the session's own or, of a session that has none, the one of
\* the series.
ShownAgenda(s) == IF s.agenda # {} THEN TextsOf(s.agenda)
                  ELSE {meeting.agenda[i] : i \in Items} \ {None}

GetSessionDetail(d) ==
  /\ sessions[d].status # "none"
  /\ sessions' = [sessions EXCEPT ![d] = MaterializeSession(@)]
  /\ UNCHANGED <<meeting, held, edits>>

\* A started session goes on showing the agenda it started with, if it has one: one
\* that starts with none shows the agenda of the series, whatever becomes of it.
Hold(d, s) == held' = [held EXCEPT ![d] = IF s.agenda = {} THEN @ ELSE TextsOf(s.agenda)]

\* start_session takes any date, one of the series' schedule or not.
StartSession(d, done) ==
  LET s == sessions[d]
      found == [MaterializeSession(s) EXCEPT !.status = "in_progress"]
      made == CreateScheduledSession("in_progress")
      row == IF s.status # "none" THEN found
             ELSE IF done THEN MaterializeSession(made) ELSE made
  IN  /\ Active
      /\ s.status \notin Closed
      /\ MayFail \/ done
      /\ sessions' = [sessions EXCEPT ![d] = row]
      /\ Hold(d, row)
      /\ UNCHANGED <<meeting, edits>>

EndSession(d) ==
  /\ sessions[d].status = "in_progress"
  /\ sessions' = [sessions EXCEPT ![d].status = "completed"]
  /\ UNCHANGED <<meeting, held, edits>>

\* PATCH of a session: any status, no look at the row or at the series. A session
\* put back to "scheduled" follows the series again unless it was edited.
UpdateSession(d, status) ==
  /\ sessions[d].status # "none"
  /\ sessions' = [sessions EXCEPT ![d].status = status]
  /\ held' = [held EXCEPT ![d] =
                IF status = "scheduled" /\ ~sessions[d].agendaCustom THEN None ELSE @]
  /\ UNCHANGED <<meeting, edits>>

\* An edit of the session's own agenda writes the rows, then the flag. A session
\* whose last row is deleted shows the agenda of the series again: nothing is held.
EditAgenda(d, s, rows, flagged) ==
  /\ Edit
  /\ MayFail \/ flagged
  /\ sessions' = [sessions EXCEPT ![d] =
                    [s EXCEPT !.agenda = rows, !.agendaCustom = @ \/ flagged]]
  /\ held' = [held EXCEPT ![d] = IF rows # {} /\ (s.agendaCustom \/ flagged)
                                  THEN TextsOf(rows) ELSE None]
  /\ UNCHANGED meeting

CreateSessionAgendaItem(d, text, flagged) ==
  LET s == MaterializeSession(sessions[d]) IN
  /\ s.status # "none"
  /\ ~RejectDuplicateAgenda(TextsOf(s.agenda), text)
  /\ EditAgenda(d, s, s.agenda \cup {[src |-> None, text |-> text]}, flagged)

UpdateSessionAgendaItem(d, row, text, flagged) ==
  EditAgenda(d, sessions[d], (sessions[d].agenda \ {row}) \cup {[row EXCEPT !.text = text]},
             flagged)

DeleteSessionAgendaItem(d, row, flagged) ==
  EditAgenda(d, sessions[d], sessions[d].agenda \ {row}, flagged)

EditAttendees(d, s, people, flagged) ==
  /\ Edit
  /\ MayFail \/ flagged
  /\ sessions' = [sessions EXCEPT ![d] =
                    [s EXCEPT !.people = people, !.peopleCustom = @ \/ flagged]]
  /\ UNCHANGED <<meeting, held>>

AddSessionAttendee(d, u, flagged) ==
  LET s == MaterializeSession(sessions[d]) IN
  s.status # "none" /\ EditAttendees(d, s, s.people \cup {u}, flagged)

DeleteSessionAttendee(d, u, flagged) ==
  /\ u \in sessions[d].people
  /\ EditAttendees(d, sessions[d], sessions[d].people \ {u}, flagged)

-------------------------------------------------------------------------------
SeriesStep ==
  \/ \E text \in Texts \cup {None}, people \in SUBSET Users :
       CreateMeeting([i \in Items |-> text], people)
  \/ \E window \in Windows, done \in SUBSET Dates, last \in Dates \cup {None} :
       OpenMeeting(window, done, last)
  \/ \E people \in SUBSET Users, ok \in BOOLEAN : UpdateMeeting(people, ok)
  \/ \E i \in Items, text \in Texts : CreateAgendaItem(i, text) \/ UpdateAgendaItem(i, text)
  \/ \E i \in Items : DeleteAgendaItem(i)
  \/ \E u \in Users : AddAttendee(u) \/ DeleteAttendee(u)
  \/ \E ok \in BOOLEAN : CancelMeetingSeries(ok)
  \/ DeleteMeeting

SessionStep(d) ==
  \/ GetSessionDetail(d)
  \/ EndSession(d)
  \/ \E status \in SessionStatus : UpdateSession(d, status)
  \/ \E ok \in BOOLEAN :
       \/ StartSession(d, ok)
       \/ \E text \in Texts : CreateSessionAgendaItem(d, text, ok)
       \/ \E row \in sessions[d].agenda :
            \/ DeleteSessionAgendaItem(d, row, ok)
            \/ \E text \in Texts : UpdateSessionAgendaItem(d, row, text, ok)
       \/ \E u \in Users : AddSessionAttendee(d, u, ok) \/ DeleteSessionAttendee(d, u, ok)

Next == SeriesStep \/ \E d \in Dates : SessionStep(d)

Spec == Init /\ [][Next]_vars

-------------------------------------------------------------------------------
(* Properties. *)

\* The rows have their types, a session only where the series exists.
TypeOK ==
  /\ meeting \in [status : {"none", "active", "cancelled"},
                  agenda : [Items -> Texts \cup {None}], people : SUBSET Users]
  /\ sessions \in [Dates -> Session]
  /\ held \in [Dates -> (SUBSET Texts) \cup {None}]
  /\ edits \in 0..MaxEdits
  /\ meeting.status = "none" => \A d \in Dates : sessions[d] = NoSession

\* A session that was started with an agenda, or whose agenda was edited for that
\* date and is not empty, shows that agenda (ShownAgenda) until it is edited again:
\* no read of it, edit of the series, deletion of a default item, cancellation or
\* status patch changes it (snapshot_session_agenda, cancel_open_sessions,
\* get_session_detail).
HeldAgendaStands ==
  \A d \in Dates : held[d] # None => ShownAgenda(sessions[d]) = held[d]

\* Cancelling is for good: the series stays cancelled until it is deleted, and
\* reading its pages or starting a date makes no further session
\* (get_sessions_window, start_session, update_meeting).
CancelledSeriesStaysQuiet ==
  [][meeting.status = "cancelled" /\ meeting'.status # "none" =>
       /\ meeting'.status = "cancelled"
       /\ \A d \in Dates : sessions[d].status = "none" => sessions'[d].status = "none"]_vars

\* What was held stands, and what was cancelled stays so.
SeriesHistoryStands == []HeldAgendaStands /\ CancelledSeriesStaysQuiet

\* After a series is cancelled none of its sessions is scheduled or in progress,
\* which is what the test of cancel_meeting_series asserts of it.
CancelledSeriesHasNoOpenSession ==
  meeting.status = "cancelled" =>
    \A d \in Dates : sessions[d].status \notin {"scheduled", "in_progress"}
===============================================================================
