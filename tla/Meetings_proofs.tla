---------------------------- MODULE Meetings_proofs ----------------------------
(* Proofs about meetings: the series and its sessions, their Teams invites, their
   minutes and artifacts, for every set of dates, agenda items, people, accounts
   and artifacts. *)
EXTENDS MeetingSeries, TeamsEvents, SessionRecords, TLAPS

(* The series and its sessions. *)

Begun == {"in_progress", "completed", "cancelled"}

\* A held agenda is the one shown, and no snapshot is taken over it any more: it
\* was edited for its date, or the session has started with an agenda.
Holds(s, h) ==
  h # None => /\ s.agenda # {} /\ TextsOf(s.agenda) = h
              /\ s.agendaCustom \/ s.status \in Begun

SeriesInv ==
  /\ TypeOK
  /\ \A d \in Dates : /\ Holds(sessions[d], held[d])
                      /\ sessions[d].status = "none" => sessions[d] = NoSession

\* A cancelled series stays so and gets no session.
StaysQuiet ==
  meeting.status = "cancelled" /\ meeting'.status # "none" =>
    /\ meeting'.status = "cancelled"
    /\ \A d \in Dates : sessions[d].status = "none" => sessions'[d].status = "none"

LEMMA SessionParts ==
  ASSUME NEW s, s \in Session
  PROVE  /\ DOMAIN s = {"status", "agenda", "agendaCustom", "people", "peopleCustom"}
         /\ s.status \in SessionStatus \cup {"none"} /\ s.agenda \subseteq Row
         /\ s.agendaCustom \in BOOLEAN /\ s.people \subseteq Users /\ s.peopleCustom \in BOOLEAN
BY DEF Session

LEMMA TypeParts ==
  ASSUME TypeOK
  PROVE  /\ DOMAIN meeting = {"status", "agenda", "people"}
         /\ meeting.status \in {"none", "active", "cancelled"}
         /\ meeting.agenda \in [Items -> Texts \cup {None}] /\ meeting.people \subseteq Users
         /\ sessions \in [Dates -> Session] /\ held \in [Dates -> (SUBSET Texts) \cup {None}]
         /\ edits \in 0 .. MaxEdits
         /\ meeting.status = "none" => \A d \in Dates : sessions[d] = NoSession
BY DEF TypeOK

LEMMA NothingThere ==
  /\ NoSession \in Session /\ NoSession.status = "none" /\ NoSession.agenda = {}
  /\ NoSession.agendaCustom = FALSE
  /\ \A status \in SessionStatus :
       /\ CreateScheduledSession(status) \in Session
       /\ CreateScheduledSession(status).status = status
       /\ CreateScheduledSession(status).agenda = {}
       /\ CreateScheduledSession(status).agendaCustom = FALSE
  /\ \A h : Holds(NoSession, h) => h = None
BY DEF NoSession, Session, CreateScheduledSession, Holds, SessionStatus, Begun

\* A snapshot keeps everything but agenda and people, and the agenda as well where
\* it is held.
LEMMA SnapshotKeeps ==
  ASSUME TypeOK, NEW s \in Session
  PROVE  /\ MaterializeSession(s) \in Session
         /\ MaterializeSession(s).status = s.status
         /\ MaterializeSession(s).agendaCustom = s.agendaCustom
         /\ \A h : h # None /\ Holds(s, h) => MaterializeSession(s).agenda = s.agenda
<1> DEFINE copied == {[src |-> i, text |-> meeting.agenda[i]] :
                        i \in {j \in Items : meeting.agenda[j] # None}}
           agenda == IF Frozen(s, s.agendaCustom, s.agenda) THEN s.agenda
                     ELSE copied \cup {r \in s.agenda : r.src = None}
           people == IF Frozen(s, s.peopleCustom, s.people) THEN s.people ELSE meeting.people
<1>1. copied \subseteq Row
  BY TypeParts DEF Row
<1>2. agenda \subseteq Row
  BY <1>1, SessionParts
<1>3. people \subseteq Users
  BY TypeParts, SessionParts
<1>4. \A h : h # None /\ Holds(s, h) => agenda = s.agenda
  BY DEF Holds, Frozen, Begun, Closed
<1>5. SnapshotAgenda(s) = [s EXCEPT !.agenda = agenda]
  BY DEF SnapshotAgenda
<1> DEFINE t == [s EXCEPT !.agenda = agenda]
<1>6. /\ t.status = s.status /\ t.people = s.people /\ t.peopleCustom = s.peopleCustom
      /\ t.agenda = agenda /\ t.agendaCustom = s.agendaCustom /\ t \in Session
  <2> HIDE DEF agenda
  <2>1. QED
    BY <1>2 DEF Session
<1>7. Frozen(t, t.peopleCustom, t.people) <=> Frozen(s, s.peopleCustom, s.people)
  <2> HIDE DEF t
  <2>1. QED
    BY <1>6 DEF Frozen
<1>8. MaterializeSession(s) = [t EXCEPT !.people = people]
  <2>1. MaterializeSession(s) = SnapshotAttendees(t)
    BY <1>5 DEF MaterializeSession
  <2>2. SnapshotAttendees(t) = [t EXCEPT !.people = IF Frozen(t, t.peopleCustom, t.people)
                                                    THEN t.people ELSE meeting.people]
    BY DEF SnapshotAttendees
  <2> HIDE DEF t
  <2>3. QED
    BY <1>6, <1>7, <2>1, <2>2
<1> HIDE DEF t, agenda, people
<1>9. QED
  BY <1>3, <1>4, <1>6, <1>8 DEF Session

\* One session written, with what is held of it.
LEMMA OneSession ==
  ASSUME SeriesInv, NEW d \in Dates, NEW row \in Session, row.status # "none",
         NEW h \in (SUBSET Texts) \cup {None}, Holds(row, h),
         sessions' = [sessions EXCEPT ![d] = row], held' = [held EXCEPT ![d] = h],
         sessions[d].status # "none" \/ Active,
         edits' \in 0 .. MaxEdits, meeting' = meeting
  PROVE  SeriesInv' /\ StaysQuiet
<1>1. /\ sessions' \in [Dates -> Session] /\ held' \in [Dates -> (SUBSET Texts) \cup {None}]
      /\ sessions'[d] = row /\ held'[d] = h
      /\ \A e \in Dates : e # d => sessions'[e] = sessions[e] /\ held'[e] = held[e]
  BY TypeParts DEF SeriesInv
<1>2. meeting.status # "none"
  BY TypeParts, NothingThere DEF SeriesInv, Active
<1>3. TypeOK'
  BY <1>1, <1>2 DEF SeriesInv, TypeOK
<1>4. \A e \in Dates : /\ Holds(sessions'[e], held'[e])
                       /\ sessions'[e].status = "none" => sessions'[e] = NoSession
  BY <1>1 DEF SeriesInv
<1>5. SeriesInv'
  BY <1>3, <1>4 DEF SeriesInv, Holds, NoSession
<1>6. StaysQuiet
  BY <1>1 DEF StaysQuiet, Active
<1>7. QED
  BY <1>5, <1>6

\* Every session written, or none, with what is held of them.
LEMMA EverySession ==
  ASSUME SeriesInv, meeting' \in [status : {"none", "active", "cancelled"},
                                  agenda : [Items -> Texts \cup {None}], people : SUBSET Users],
         sessions' \in [Dates -> Session], held' \in [Dates -> (SUBSET Texts) \cup {None}],
         edits' \in 0 .. MaxEdits,
         \A d \in Dates : /\ Holds(sessions'[d], held'[d])
                          /\ sessions'[d].status = "none" => sessions'[d] = NoSession,
         meeting'.status = "none" => \A d \in Dates : sessions'[d] = NoSession,
         StaysQuiet
  PROVE  SeriesInv' /\ StaysQuiet
<1>1. TypeOK'
  BY DEF TypeOK
<1>2. QED
  BY <1>1 DEF SeriesInv, Holds, NoSession

-------------------------------------------------------------------------------
\* Reading a session writes its snapshot.
LEMMA DetailKeeps ==
  ASSUME SeriesInv, NEW d \in Dates, GetSessionDetail(d)
  PROVE  SeriesInv' /\ StaysQuiet
<1> DEFINE s == sessions[d]
           row == MaterializeSession(s)
           h == held[d]
<1>1. s \in Session /\ h \in (SUBSET Texts) \cup {None} /\ Holds(s, h) /\ TypeOK
      /\ edits \in 0 .. MaxEdits /\ held \in [Dates -> (SUBSET Texts) \cup {None}]
  BY TypeParts DEF SeriesInv
<1>2. /\ s.status # "none" /\ sessions' = [sessions EXCEPT ![d] = row]
      /\ UNCHANGED <<meeting, held, edits>>
  BY DEF GetSessionDetail
<1>3. held' = [held EXCEPT ![d] = h]
  BY <1>1, <1>2
<1> HIDE DEF s, h
<1>4. row \in Session /\ row.status = s.status /\ Holds(row, h)
  BY <1>1, SnapshotKeeps DEF Holds
<1> HIDE DEF row
<1>5. QED
  BY <1>1, <1>2, <1>3, <1>4, OneSession DEF s

LEMMA StartKeeps ==
  ASSUME SeriesInv, NEW d \in Dates, NEW done \in BOOLEAN, StartSession(d, done)
  PROVE  SeriesInv' /\ StaysQuiet
<1> DEFINE s == sessions[d]
           found == [MaterializeSession(s) EXCEPT !.status = "in_progress"]
           made == CreateScheduledSession("in_progress")
           row == IF s.status # "none" THEN found
                  ELSE IF done THEN MaterializeSession(made) ELSE made
           h == IF row.agenda = {} THEN held[d] ELSE TextsOf(row.agenda)
<1>1. s \in Session /\ held[d] \in (SUBSET Texts) \cup {None} /\ Holds(s, held[d]) /\ TypeOK
      /\ edits \in 0 .. MaxEdits /\ (s.status = "none" => s = NoSession)
  BY TypeParts DEF SeriesInv
<1>2. /\ Active /\ sessions' = [sessions EXCEPT ![d] = row]
      /\ held' = [held EXCEPT ![d] = IF row.agenda = {} THEN @ ELSE TextsOf(row.agenda)]
      /\ UNCHANGED <<meeting, edits>>
  BY DEF StartSession, Hold
<1>3. held' = [held EXCEPT ![d] = h]
  BY <1>2
<1>4. made \in Session /\ made.status = "in_progress"
  BY NothingThere DEF SessionStatus
<1>5. CASE s.status # "none"
  <2> DEFINE m == MaterializeSession(s)
  <2>1. /\ m \in Session /\ m.agendaCustom = s.agendaCustom
        /\ held[d] # None => m.agenda = s.agenda
    BY <1>1, SnapshotKeeps
  <2>2. row = [m EXCEPT !.status = "in_progress"]
    BY <1>5
  <2> HIDE DEF m, row, s
  <2>3. /\ row \in Session /\ row.status = "in_progress" /\ row.agenda = m.agenda
        /\ row.agendaCustom = m.agendaCustom
    BY <2>1, <2>2 DEF Session, SessionStatus
  <2>4. Holds(row, h)
    BY <1>1, <2>1, <2>3 DEF Holds, Begun
  <2>5. h \in (SUBSET Texts) \cup {None}
    BY <1>1, <2>3, SessionParts DEF TextsOf, Row
  <2> HIDE DEF h
  <2>6. QED
    BY <1>1, <1>2, <1>3, <2>3, <2>4, <2>5, OneSession
<1>6. CASE s.status = "none"
  <2>1. /\ row \in Session /\ row.status = "in_progress"
    BY <1>1, <1>4, <1>6, SnapshotKeeps
  <2>2. held[d] = None
    BY <1>1, <1>6, NothingThere
  <2> HIDE DEF row, s
  <2>3. Holds(row, h)
    BY <2>1, <2>2 DEF Holds, Begun
  <2>4. h \in (SUBSET Texts) \cup {None}
    BY <1>1, <2>1, SessionParts DEF TextsOf, Row
  <2> HIDE DEF h
  <2>5. QED
    BY <1>1, <1>2, <1>3, <2>1, <2>3, <2>4, OneSession
<1>7. QED
  BY <1>5, <1>6

\* The status alone: a session put back to "scheduled" is held no longer unless it
\* was edited.
LEMMA StatusKeeps ==
  ASSUME SeriesInv, NEW d \in Dates,
         EndSession(d) \/ \E status \in SessionStatus : UpdateSession(d, status)
  PROVE  SeriesInv' /\ StaysQuiet
<1> DEFINE s == sessions[d]
<1>1. s \in Session /\ held[d] \in (SUBSET Texts) \cup {None} /\ Holds(s, held[d])
      /\ edits \in 0 .. MaxEdits /\ held \in [Dates -> (SUBSET Texts) \cup {None}]
  BY TypeParts DEF SeriesInv
<1>2. PICK status \in SessionStatus, h \in {held[d], None} :
        /\ s.status # "none" /\ sessions' = [sessions EXCEPT ![d].status = status]
        /\ held' = [held EXCEPT ![d] = h]
        /\ status \notin Begun /\ ~s.agendaCustom => h = None
        /\ UNCHANGED <<meeting, edits>>
  <2>1. CASE EndSession(d)
    <3>1. held' = [held EXCEPT ![d] = held[d]] /\ "completed" \in SessionStatus /\ s.status # "none"
      BY <1>1, <2>1 DEF EndSession, SessionStatus
    <3>2. QED
      BY <2>1, <3>1 DEF EndSession, Begun
  <2>2. ASSUME NEW status \in SessionStatus, UpdateSession(d, status)
        PROVE  \E h \in {held[d], None} :
                 /\ s.status # "none" /\ sessions' = [sessions EXCEPT ![d].status = status]
                 /\ held' = [held EXCEPT ![d] = h]
                 /\ status \notin Begun /\ ~s.agendaCustom => h = None
                 /\ UNCHANGED <<meeting, edits>>
    <3> DEFINE h == IF status = "scheduled" /\ ~s.agendaCustom THEN None ELSE held[d]
    <3>1. held' = [held EXCEPT ![d] = h]
      BY <2>2 DEF UpdateSession
    <3>2. status \notin Begun => status = "scheduled"
      BY DEF SessionStatus, Begun
    <3>3. QED
      BY <2>2, <3>1, <3>2 DEF UpdateSession
  <2>3. QED
    BY <2>1, <2>2
<1> DEFINE row == [s EXCEPT !.status = status]
<1>3. sessions' = [sessions EXCEPT ![d] = row]
  BY <1>2
<1> HIDE DEF s
<1>4. /\ row \in Session /\ row.status = status /\ row.agenda = s.agenda
      /\ row.agendaCustom = s.agendaCustom
  BY <1>1 DEF Session
<1> HIDE DEF row
<1>5. Holds(row, h) /\ h \in (SUBSET Texts) \cup {None} /\ row.status # "none"
  BY <1>1, <1>2, <1>4, SessionParts DEF Holds, Begun, SessionStatus
<1>6. QED
  BY <1>1, <1>2, <1>3, <1>4, <1>5, OneSession DEF s

LEMMA EditTyped == SeriesInv /\ Edit => edits' \in 0 .. MaxEdits
  BY TypeParts, WindowsAreDates DEF SeriesInv, Edit

\* An edit of the session's own agenda.
LEMMA AgendaEditKeeps ==
  ASSUME SeriesInv, NEW d \in Dates, sessions[d].status # "none",
         NEW s \in Session, s.status = sessions[d].status,
         NEW rows \in SUBSET Row, NEW flagged \in BOOLEAN, EditAgenda(d, s, rows, flagged)
  PROVE  SeriesInv' /\ StaysQuiet
<1> DEFINE row == [s EXCEPT !.agenda = rows, !.agendaCustom = @ \/ flagged]
           h == IF rows # {} /\ (s.agendaCustom \/ flagged) THEN TextsOf(rows) ELSE None
<1>1. /\ sessions' = [sessions EXCEPT ![d] = row] /\ held' = [held EXCEPT ![d] = h]
      /\ meeting' = meeting /\ edits' \in 0 .. MaxEdits
  BY EditTyped DEF EditAgenda
<1>2. /\ row \in Session /\ row.status = s.status /\ row.agenda = rows
      /\ row.agendaCustom = (s.agendaCustom \/ flagged)
  BY DEF Session
<1>3. h \in (SUBSET Texts) \cup {None}
  BY DEF TextsOf, Row
<1> HIDE DEF row
<1>4. Holds(row, h)
  BY <1>2 DEF Holds
<1> HIDE DEF h
<1>5. QED
  BY <1>1, <1>2, <1>3, <1>4, OneSession

LEMMA AgendaItemKeeps ==
  ASSUME SeriesInv, NEW d \in Dates, NEW ok \in BOOLEAN, NEW text \in Texts,
         \/ CreateSessionAgendaItem(d, text, ok)
         \/ \E row \in sessions[d].agenda : \/ DeleteSessionAgendaItem(d, row, ok)
                                            \/ UpdateSessionAgendaItem(d, row, text, ok)
  PROVE  SeriesInv' /\ StaysQuiet
<1> DEFINE s == sessions[d]
<1>1. s \in Session /\ TypeOK /\ s.agenda \subseteq Row
  BY TypeParts, SessionParts DEF SeriesInv
<1>2. CASE CreateSessionAgendaItem(d, text, ok)
  <2> DEFINE m == MaterializeSession(s)
             rows == m.agenda \cup {[src |-> None, text |-> text]}
  <2>1. m \in Session /\ m.status = s.status /\ m.agenda \subseteq Row
    BY <1>1, SnapshotKeeps, SessionParts
  <2>2. rows \subseteq Row
    BY <2>1 DEF Row
  <2>3. m.status # "none" /\ EditAgenda(d, m, rows, ok)
    BY <1>2 DEF CreateSessionAgendaItem
  <2> HIDE DEF m, rows
  <2>4. QED
    BY <2>1, <2>2, <2>3, AgendaEditKeeps
<1>3. ASSUME NEW row \in s.agenda PROVE s.status # "none"
  BY NothingThere DEF SeriesInv
<1>4. ASSUME NEW row \in s.agenda, DeleteSessionAgendaItem(d, row, ok)
      PROVE  SeriesInv' /\ StaysQuiet
  <2>1. s.agenda \ {row} \subseteq Row /\ EditAgenda(d, s, s.agenda \ {row}, ok)
    BY <1>1, <1>4 DEF DeleteSessionAgendaItem
  <2>2. QED
    BY <1>1, <1>3, <2>1, AgendaEditKeeps
<1>5. ASSUME NEW row \in s.agenda, UpdateSessionAgendaItem(d, row, text, ok)
      PROVE  SeriesInv' /\ StaysQuiet
  <2> DEFINE rows == (s.agenda \ {row}) \cup {[row EXCEPT !.text = text]}
  <2>1. rows \subseteq Row
    BY <1>1 DEF Row
  <2>2. EditAgenda(d, s, rows, ok)
    BY <1>5 DEF UpdateSessionAgendaItem
  <2> HIDE DEF rows
  <2>3. QED
    BY <1>1, <1>3, <2>1, <2>2, AgendaEditKeeps
<1>6. QED
  BY <1>2, <1>4, <1>5

\* An edit of who attends a session.
LEMMA AttendeesKeep ==
  ASSUME SeriesInv, NEW d \in Dates, NEW u \in Users, NEW ok \in BOOLEAN,
         AddSessionAttendee(d, u, ok) \/ DeleteSessionAttendee(d, u, ok)
  PROVE  SeriesInv' /\ StaysQuiet
<1> DEFINE s == sessions[d]
           h == held[d]
<1>1. s \in Session /\ h \in (SUBSET Texts) \cup {None} /\ Holds(s, h) /\ TypeOK
      /\ s.people \subseteq Users /\ held \in [Dates -> (SUBSET Texts) \cup {None}]
  BY TypeParts, SessionParts DEF SeriesInv
<1>2. ASSUME NEW m \in Session, m.status = s.status, s.status # "none", Holds(m, h),
             NEW people \in SUBSET Users, EditAttendees(d, m, people, ok)
      PROVE  SeriesInv' /\ StaysQuiet
  <2> DEFINE row == [m EXCEPT !.people = people, !.peopleCustom = @ \/ ok]
  <2>1. /\ sessions' = [sessions EXCEPT ![d] = row] /\ meeting' = meeting
        /\ edits' \in 0 .. MaxEdits /\ held' = held
    BY <1>2, EditTyped DEF EditAttendees
  <2>2. held' = [held EXCEPT ![d] = h]
    BY <1>1, <2>1
  <2>3. /\ row \in Session /\ row.status = m.status /\ row.agenda = m.agenda
        /\ row.agendaCustom = m.agendaCustom
    BY DEF Session
  <2> HIDE DEF row, h, s
  <2>4. Holds(row, h)
    BY <1>2, <2>3 DEF Holds
  <2>5. QED
    BY <1>1, <1>2, <2>1, <2>2, <2>3, <2>4, OneSession DEF s
<1>3. CASE AddSessionAttendee(d, u, ok)
  <2> DEFINE m == MaterializeSession(s)
             people == m.people \cup {u}
  <2>1. m \in Session /\ m.status = s.status /\ Holds(m, h)
    BY <1>1, SnapshotKeeps DEF Holds
  <2>2. people \subseteq Users
    BY <2>1, SessionParts
  <2>3. m.status # "none" /\ EditAttendees(d, m, people, ok)
    BY <1>3 DEF AddSessionAttendee
  <2> HIDE DEF m, people, h, s
  <2>4. QED
    BY <1>2, <2>1, <2>2, <2>3
<1>4. CASE DeleteSessionAttendee(d, u, ok)
  <2>1. u \in s.people /\ EditAttendees(d, s, s.people \ {u}, ok)
    BY <1>4 DEF DeleteSessionAttendee
  <2>2. s.status # "none"
    BY <2>1, SessionParts DEF SeriesInv, NoSession
  <2>3. s.people \ {u} \subseteq Users
    BY <1>1
  <2> HIDE DEF h, s
  <2>4. QED
    BY <1>1, <1>2, <2>1, <2>2, <2>3
<1>5. QED
  BY <1>3, <1>4

-------------------------------------------------------------------------------
\* The row of the series alone is written, never its status.
LEMMA MeetingKeeps ==
  ASSUME SeriesInv, UNCHANGED <<sessions, held>>, meeting.status # "none",
         NEW agenda \in [Items -> Texts \cup {None}], NEW people \in SUBSET Users,
         meeting' = [status |-> meeting.status, agenda |-> agenda, people |-> people],
         edits' \in 0 .. MaxEdits
  PROVE  SeriesInv' /\ StaysQuiet
<1>1. meeting'.status = meeting.status /\ StaysQuiet
  BY DEF StaysQuiet
<1>2. meeting' \in [status : {"none", "active", "cancelled"},
                    agenda : [Items -> Texts \cup {None}], people : SUBSET Users]
  BY TypeParts DEF SeriesInv
<1>3. /\ sessions' \in [Dates -> Session] /\ held' \in [Dates -> (SUBSET Texts) \cup {None}]
      /\ \A d \in Dates : /\ Holds(sessions'[d], held'[d])
                          /\ sessions'[d].status = "none" => sessions'[d] = NoSession
  BY TypeParts DEF SeriesInv
<1>4. QED
  BY <1>1, <1>2, <1>3, EverySession

LEMMA MeetingStep ==
  ASSUME SeriesInv,
         \/ \E people \in SUBSET Users, ok \in BOOLEAN : UpdateMeeting(people, ok)
         \/ \E i \in Items, text \in Texts : CreateAgendaItem(i, text) \/ UpdateAgendaItem(i, text)
         \/ \E u \in Users : AddAttendee(u) \/ DeleteAttendee(u)
  PROVE  SeriesInv' /\ StaysQuiet
<1>1. /\ DOMAIN meeting = {"status", "agenda", "people"} /\ meeting.people \subseteq Users
      /\ meeting.agenda \in [Items -> Texts \cup {None}]
      /\ meeting = [status |-> meeting.status, agenda |-> meeting.agenda,
                    people |-> meeting.people]
  BY DEF SeriesInv, TypeOK
<1>2. ASSUME NEW people \in SUBSET Users, NEW ok \in BOOLEAN, UpdateMeeting(people, ok)
      PROVE  SeriesInv' /\ StaysQuiet
  <2> DEFINE them == SetAttendees(people, ok)
  <2>1. meeting' = [meeting EXCEPT !.people = them] /\ them \subseteq Users /\ Exists /\ Edit
    BY <1>2 DEF UpdateMeeting, SetAttendees
  <2> HIDE DEF them
  <2>2. meeting' = [status |-> meeting.status, agenda |-> meeting.agenda, people |-> them]
    BY <1>1, <2>1
  <2>3. QED
    BY <1>1, <1>2, <2>1, <2>2, EditTyped, MeetingKeeps DEF UpdateMeeting, Exists
<1>3. ASSUME NEW i \in Items, NEW text \in Texts,
             CreateAgendaItem(i, text) \/ UpdateAgendaItem(i, text)
      PROVE  SeriesInv' /\ StaysQuiet
  <2> DEFINE agenda == [meeting.agenda EXCEPT ![i] = text]
  <2>1. meeting' = [meeting EXCEPT !.agenda[i] = text] /\ Exists /\ Edit
        /\ UNCHANGED <<sessions, held>>
    BY <1>3 DEF CreateAgendaItem, UpdateAgendaItem
  <2>2. agenda \in [Items -> Texts \cup {None}]
    BY <1>1
  <2>3. meeting' = [status |-> meeting.status, agenda |-> agenda, people |-> meeting.people]
    BY <1>1, <2>1
  <2> HIDE DEF agenda
  <2>4. QED
    BY <1>1, <2>1, <2>2, <2>3, EditTyped, MeetingKeeps DEF Exists
<1>4. ASSUME NEW u \in Users, AddAttendee(u) \/ DeleteAttendee(u)
      PROVE  SeriesInv' /\ StaysQuiet
  <2>1. PICK them \in SUBSET Users : meeting' = [meeting EXCEPT !.people = them]
    BY <1>1, <1>4 DEF AddAttendee, DeleteAttendee
  <2>2. meeting' = [status |-> meeting.status, agenda |-> meeting.agenda, people |-> them]
    BY <1>1, <2>1
  <2>3. Exists /\ Edit /\ UNCHANGED <<sessions, held>>
    BY <1>4 DEF AddAttendee, DeleteAttendee
  <2>4. QED
    BY <1>1, <2>2, <2>3, EditTyped, MeetingKeeps DEF Exists
<1>5. QED
  BY <1>2, <1>3, <1>4

LEMMA CreateKeeps ==
  ASSUME SeriesInv, NEW text \in Texts \cup {None}, NEW people \in SUBSET Users,
         CreateMeeting([i \in Items |-> text], people)
  PROVE  SeriesInv' /\ StaysQuiet
<1>1. /\ meeting.status = "none" /\ UNCHANGED <<sessions, held, edits>>
      /\ meeting' = [status |-> "active", agenda |-> [i \in Items |-> text], people |-> people]
  BY DEF CreateMeeting, Exists
<1>2. meeting' \in [status : {"none", "active", "cancelled"},
                    agenda : [Items -> Texts \cup {None}], people : SUBSET Users]
      /\ meeting'.status = "active"
  BY <1>1
<1>3. /\ sessions' \in [Dates -> Session] /\ held' \in [Dates -> (SUBSET Texts) \cup {None}]
      /\ edits' \in 0 .. MaxEdits
      /\ \A d \in Dates : /\ Holds(sessions'[d], held'[d])
                          /\ sessions'[d].status = "none" => sessions'[d] = NoSession
  BY <1>1, TypeParts DEF SeriesInv
<1>4. StaysQuiet
  BY <1>1 DEF StaysQuiet
<1>5. QED
  BY <1>2, <1>3, <1>4, EverySession

\* A page of the series makes sessions only while it is active.
LEMMA OpenKeeps ==
  ASSUME SeriesInv, NEW window \in Windows, NEW done \in SUBSET Dates,
         NEW last \in Dates \cup {None}, OpenMeeting(window, done, last)
  PROVE  SeriesInv' /\ StaysQuiet
<1>1. /\ meeting.status # "none" /\ UNCHANGED <<meeting, held, edits>>
      /\ sessions' = IF meeting.status = "cancelled" THEN sessions
                     ELSE [d \in Dates |-> IF d \in done THEN EnsureSession(sessions[d], d # last)
                                           ELSE sessions[d]]
  BY DEF OpenMeeting, Exists, SessionsWindow
<1>2. /\ TypeOK /\ sessions \in [Dates -> Session] /\ edits' \in 0 .. MaxEdits
      /\ held' \in [Dates -> (SUBSET Texts) \cup {None}]
      /\ meeting' \in [status : {"none", "active", "cancelled"},
                       agenda : [Items -> Texts \cup {None}], people : SUBSET Users]
      /\ \A d \in Dates : /\ Holds(sessions[d], held[d])
                          /\ sessions[d].status = "none" => sessions[d] = NoSession
  BY <1>1 DEF SeriesInv, TypeOK
<1>3. ASSUME NEW d \in Dates, NEW materialize \in BOOLEAN
      PROVE  LET t == EnsureSession(sessions[d], materialize)
             IN  t \in Session /\ Holds(t, held[d]) /\ t.status # "none"
  <2> DEFINE row == IF sessions[d].status = "none" THEN CreateScheduledSession("scheduled")
                    ELSE sessions[d]
             t == EnsureSession(sessions[d], materialize)
  <2>1. row \in Session /\ row.status # "none" /\ Holds(row, held[d])
    <3>1. CASE sessions[d].status = "none"
      <4>1. held[d] = None
        BY <1>2, <3>1, NothingThere
      <4>2. QED
        BY <3>1, <4>1, NothingThere DEF SessionStatus, Holds
    <3>2. CASE sessions[d].status # "none"
      BY <1>2, <3>2
    <3>3. QED
      BY <3>1, <3>2
  <2>2. t = IF materialize THEN MaterializeSession(row) ELSE row
    BY DEF EnsureSession
  <2> HIDE DEF row
  <2>3. /\ MaterializeSession(row) \in Session /\ MaterializeSession(row).status = row.status
        /\ Holds(MaterializeSession(row), held[d])
    BY <1>2, <2>1, SnapshotKeeps DEF Holds
  <2> HIDE DEF t
  <2>4. t \in Session /\ Holds(t, held[d]) /\ t.status # "none"
    BY <2>1, <2>2, <2>3
  <2>5. QED
    BY <2>4 DEF t
<1>4. /\ sessions' \in [Dates -> Session]
      /\ \A d \in Dates : /\ Holds(sessions'[d], held'[d])
                          /\ sessions'[d].status = "none" => sessions'[d] = NoSession
  <2>1. CASE meeting.status = "cancelled"
    BY <1>1, <1>2, <2>1
  <2>2. CASE meeting.status # "cancelled"
    BY <1>1, <1>2, <1>3, <2>2
  <2>3. QED
    BY <2>1, <2>2
<1>5. StaysQuiet
  BY <1>1 DEF StaysQuiet
<1>6. QED
  BY <1>1, <1>2, <1>4, <1>5, EverySession

\* A default item goes: the copies in the sessions keep their texts.
LEMMA DeleteItemKeeps ==
  ASSUME SeriesInv, NEW i \in Items, DeleteAgendaItem(i)
  PROVE  SeriesInv' /\ StaysQuiet
<1>1. /\ meeting.status # "none" /\ meeting' = [meeting EXCEPT !.agenda[i] = None] /\ Edit
      /\ sessions' = [d \in Dates |-> [sessions[d] EXCEPT !.agenda = Orphaned(@, i)]]
      /\ held' = held
  BY DEF DeleteAgendaItem, Exists
<1>2. /\ sessions \in [Dates -> Session] /\ held' \in [Dates -> (SUBSET Texts) \cup {None}]
      /\ edits' \in 0 .. MaxEdits
      /\ \A d \in Dates : /\ Holds(sessions[d], held[d])
                          /\ sessions[d].status = "none" => sessions[d] = NoSession
  BY <1>1, EditTyped, TypeParts DEF SeriesInv
<1>3. /\ meeting' \in [status : {"none", "active", "cancelled"},
                       agenda : [Items -> Texts \cup {None}], people : SUBSET Users]
      /\ meeting'.status = meeting.status
  BY <1>1 DEF SeriesInv, TypeOK
<1>4. ASSUME NEW rows \in SUBSET Row
      PROVE  /\ Orphaned(rows, i) \subseteq Row
             /\ TextsOf(Orphaned(rows, i)) = TextsOf(rows)
             /\ Orphaned(rows, i) = {} <=> rows = {}
  <2> DEFINE Now(r) == IF r.src = i THEN [r EXCEPT !.src = None] ELSE r
  <2>1. \A r \in rows : Now(r) \in Row /\ Now(r).text = r.text
    BY DEF Row
  <2>2. Orphaned(rows, i) = {Now(r) : r \in rows}
    BY DEF Orphaned
  <2> HIDE DEF Now
  <2>3. \A text : text \in TextsOf(Orphaned(rows, i)) <=> text \in TextsOf(rows)
    BY <2>1, <2>2 DEF TextsOf
  <2>4. TextsOf(Orphaned(rows, i)) = TextsOf(rows)
    BY <2>3 DEF TextsOf
  <2>5. QED
    BY <2>1, <2>2, <2>4
<1>5. ASSUME NEW d \in Dates
      PROVE  /\ sessions'[d] \in Session /\ Holds(sessions'[d], held'[d])
             /\ sessions'[d].status = sessions[d].status
             /\ sessions'[d].status = "none" => sessions'[d] = NoSession
  <2> DEFINE s == sessions[d]
             rows == Orphaned(s.agenda, i)
  <2>1. s \in Session /\ s.agenda \subseteq Row
    BY <1>2, SessionParts
  <2>2. rows \subseteq Row /\ TextsOf(rows) = TextsOf(s.agenda) /\ (rows = {} <=> s.agenda = {})
    BY <1>4, <2>1
  <2>3. sessions'[d] = [s EXCEPT !.agenda = rows]
    BY <1>1
  <2>4. Holds(s, held[d]) /\ (s.status = "none" => s = NoSession)
    BY <1>2
  <2> HIDE DEF rows, s
  <2>5. /\ sessions'[d] \in Session /\ sessions'[d].status = s.status
        /\ sessions'[d].agenda = rows /\ sessions'[d].agendaCustom = s.agendaCustom
    BY <2>1, <2>2, <2>3 DEF Session
  <2>6. s = NoSession => sessions'[d] = NoSession
    BY <2>2, <2>3, NothingThere DEF NoSession
  <2>7. Holds(sessions'[d], held'[d])
    BY <1>1, <2>2, <2>4, <2>5 DEF Holds
  <2>8. QED
    BY <2>4, <2>5, <2>6, <2>7 DEF s
<1>6. sessions' \in [Dates -> Session]
  BY <1>1, <1>5
<1>7. StaysQuiet
  BY <1>3, <1>5 DEF StaysQuiet
<1>8. QED
  BY <1>1, <1>2, <1>3, <1>5, <1>6, <1>7, EverySession

\* The open sessions of a cancelled series are cancelled, or the call failed.
LEMMA CancelKeeps ==
  ASSUME SeriesInv, NEW closes \in BOOLEAN, CancelMeetingSeries(closes)
  PROVE  SeriesInv' /\ StaysQuiet
<1>1. /\ meeting.status = "active" /\ meeting' = [meeting EXCEPT !.status = "cancelled"]
      /\ sessions' = (IF closes THEN CancelOpenSessions(sessions) ELSE sessions)
      /\ UNCHANGED <<held, edits>>
  BY DEF CancelMeetingSeries, Active
<1>2. /\ sessions \in [Dates -> Session] /\ held' \in [Dates -> (SUBSET Texts) \cup {None}]
      /\ edits' \in 0 .. MaxEdits
      /\ \A d \in Dates : /\ Holds(sessions[d], held[d])
                          /\ sessions[d].status = "none" => sessions[d] = NoSession
  BY <1>1, TypeParts DEF SeriesInv
<1>3. /\ meeting' \in [status : {"none", "active", "cancelled"},
                       agenda : [Items -> Texts \cup {None}], people : SUBSET Users]
      /\ meeting'.status = "cancelled"
  BY <1>1 DEF SeriesInv, TypeOK
<1>4. ASSUME NEW d \in Dates
      PROVE  LET t == CancelOpenSessions(sessions)[d]
             IN  /\ t \in Session /\ Holds(t, held[d])
                 /\ t.status = "none" => t = NoSession
  <2> DEFINE s == sessions[d]
             t == CancelOpenSessions(sessions)[d]
  <2>1. t = IF s.status \in {"scheduled", "in_progress"} THEN [s EXCEPT !.status = "cancelled"]
            ELSE s
    BY DEF CancelOpenSessions
  <2>2. s \in Session /\ Holds(s, held[d]) /\ (s.status = "none" => s = NoSession)
    BY <1>2
  <2> DEFINE c == [s EXCEPT !.status = "cancelled"]
  <2> HIDE DEF s
  <2>3. /\ c \in Session /\ c.status = "cancelled" /\ c.agenda = s.agenda
        /\ c.agendaCustom = s.agendaCustom
    BY <2>2 DEF Session, SessionStatus
  <2> HIDE DEF c
  <2>4. Holds(c, held[d])
    BY <2>2, <2>3 DEF Holds, Begun
  <2> HIDE DEF t
  <2>5. t \in Session /\ Holds(t, held[d]) /\ (t.status = "none" => t = NoSession)
    BY <2>1, <2>2, <2>3, <2>4 DEF c
  <2>6. QED
    BY <2>5 DEF t
<1>5. /\ sessions' \in [Dates -> Session]
      /\ \A d \in Dates : /\ Holds(sessions'[d], held'[d])
                          /\ sessions'[d].status = "none" => sessions'[d] = NoSession
  <2>1. CASE closes
    <3> DEFINE f == CancelOpenSessions(sessions)
    <3>1. f = [d \in Dates |-> f[d]] /\ DOMAIN f = Dates
      BY DEF CancelOpenSessions
    <3>2. \A d \in Dates : /\ f[d] \in Session /\ Holds(f[d], held[d])
                           /\ f[d].status = "none" => f[d] = NoSession
      BY <1>4
    <3>3. sessions' = f /\ held' = held
      BY <1>1, <2>1
    <3> HIDE DEF f
    <3>4. QED
      BY <3>1, <3>2, <3>3
  <2>2. CASE ~closes
    BY <1>1, <1>2, <2>2
  <2>3. QED
    BY <2>1, <2>2
<1>6. StaysQuiet
  BY <1>1 DEF StaysQuiet
<1>7. QED
  BY <1>2, <1>3, <1>5, <1>6, EverySession

LEMMA DeleteKeeps ==
  ASSUME SeriesInv, DeleteMeeting
  PROVE  SeriesInv' /\ StaysQuiet
<1>1. /\ meeting' = NoMeeting /\ sessions' = [d \in Dates |-> NoSession]
      /\ held' = [d \in Dates |-> None] /\ edits' = edits
  BY DEF DeleteMeeting
<1>2. /\ meeting' \in [status : {"none", "active", "cancelled"},
                       agenda : [Items -> Texts \cup {None}], people : SUBSET Users]
      /\ meeting'.status = "none"
  BY <1>1 DEF NoMeeting
<1>3. edits' \in 0 .. MaxEdits /\ StaysQuiet
  BY <1>1, <1>2, TypeParts DEF SeriesInv, StaysQuiet
<1>4. QED
  BY <1>1, <1>2, <1>3, NothingThere, EverySession DEF Holds

LEMMA SeriesStepKeeps ==
  SeriesInv /\ [Next]_vars => SeriesInv' /\ StaysQuiet
<1> SUFFICES ASSUME SeriesInv, [Next]_vars PROVE SeriesInv' /\ StaysQuiet
  OBVIOUS
<1>1. CASE SeriesStep
  BY <1>1, CreateKeeps, OpenKeeps, MeetingStep, DeleteItemKeeps, CancelKeeps, DeleteKeeps
     DEF SeriesStep
<1>2. ASSUME NEW d \in Dates, SessionStep(d)
      PROVE  SeriesInv' /\ StaysQuiet
  <2>1. ASSUME NEW ok \in BOOLEAN, NEW row \in sessions[d].agenda, DeleteSessionAgendaItem(d, row, ok)
        PROVE  SeriesInv' /\ StaysQuiet
    <3>1. row.text \in Texts
      BY TypeParts, SessionParts DEF SeriesInv, Row
    <3>2. QED
      BY <2>1, <3>1, AgendaItemKeeps
  <2>2. ASSUME NEW ok \in BOOLEAN, NEW text \in Texts,
               \/ CreateSessionAgendaItem(d, text, ok)
               \/ \E row \in sessions[d].agenda : UpdateSessionAgendaItem(d, row, text, ok)
        PROVE  SeriesInv' /\ StaysQuiet
    BY <2>2, AgendaItemKeeps
  <2>3. QED
    BY <1>2, <2>1, <2>2, DetailKeeps, StatusKeeps, StartKeeps, AttendeesKeep DEF SessionStep
<1>3. CASE UNCHANGED vars
  <2>1. UNCHANGED <<meeting, sessions, held, edits>>
    BY <1>3 DEF vars
  <2>2. QED
    BY <2>1 DEF SeriesInv, TypeOK, Holds, StaysQuiet, NoSession
<1>4. QED
  BY <1>1, <1>2, <1>3 DEF Next

LEMMA SeriesInvariant == Spec => []SeriesInv
<1>1. Init => SeriesInv
  <2> SUFFICES ASSUME Init PROVE SeriesInv
    OBVIOUS
  <2>1. /\ meeting = NoMeeting /\ sessions = [d \in Dates |-> NoSession]
        /\ held = [d \in Dates |-> None] /\ edits = 0
    BY DEF Init
  <2>2. 0 \in 0 .. MaxEdits
    BY WindowsAreDates
  <2>3. /\ NoMeeting \in [status : {"none", "active", "cancelled"},
                          agenda : [Items -> Texts \cup {None}], people : SUBSET Users]
        /\ NoMeeting.status = "none"
    BY DEF NoMeeting
  <2>4. QED
    BY <2>1, <2>2, <2>3, NothingThere DEF SeriesInv, TypeOK, Holds
<1>2. QED
  BY <1>1, SeriesStepKeeps, PTL DEF Spec

\* Every variable of a series has its type.
THEOREM SeriesTyped == Spec => []TypeOK
<1>1. SeriesInv => TypeOK
  BY DEF SeriesInv
<1>2. QED
  BY <1>1, SeriesInvariant, PTL

\* For every set of dates and agenda items: an agenda a session started with, or
\* was given for its date, stands, and a cancelled series stays quiet.
THEOREM SeriesHistory == Spec => SeriesHistoryStands
<1>1. SeriesInv => HeldAgendaStands
  BY DEF SeriesInv, HeldAgendaStands, Holds, ShownAgenda
<1>2. SeriesInv /\ [Next]_vars =>
        [meeting.status = "cancelled" /\ meeting'.status # "none" =>
           /\ meeting'.status = "cancelled"
           /\ \A d \in Dates : sessions[d].status = "none" => sessions'[d].status = "none"]_vars
  BY SeriesStepKeeps DEF StaysQuiet
<1>3. QED
  BY <1>1, <1>2, SeriesInvariant, PTL DEF Spec, SeriesHistoryStands, CancelledSeriesStaysQuiet

-------------------------------------------------------------------------------
(* The Teams invites. *)

TeamsInv == TeamsTypeOK /\ CancelledRowIsGone

EveryInviteTried ==
  ~seriesCancelled /\ seriesCancelled' =>
    \A s \in Rows : /\ events'[s].sync \in {"cancelled", "failed", "not_configured"}
                    /\ events'[s].sync = "cancelled" /\ events[s].ext # NoId =>
                         mailbox'[events[s].ext] = NoId

\* A row in its parts.
LEMMA EventRow ==
  ASSUME NEW e, e \in Event
  PROVE  /\ DOMAIN e = {"sync", "ext", "pinned"}
         /\ e.sync \in SyncStatus \cup {"none"} /\ e.ext \in Invites \cup {NoId}
         /\ e.pinned \in BOOLEAN
         /\ \A sync \in SyncStatus :
              /\ [e EXCEPT !.sync = sync] \in Event
              /\ [e EXCEPT !.sync = sync].sync = sync /\ [e EXCEPT !.sync = sync].ext = e.ext
              /\ [e EXCEPT !.sync = sync, !.pinned = TRUE] \in Event
              /\ [e EXCEPT !.sync = sync, !.pinned = TRUE].sync = sync
         /\ [e EXCEPT !.pinned = FALSE] \in Event
         /\ [e EXCEPT !.pinned = FALSE].sync = e.sync
         /\ [e EXCEPT !.pinned = FALSE].ext = e.ext
BY DEF Event

\* No row says a fresh invite was cancelled: none names it.
LEMMA FreshIsUnnamed ==
  ASSUME NEW i \in Fresh, NEW s \in Rows
  PROVE  i \in Invites /\ events[s].ext # i
<1>1. i \in Invites /\ (i \in Made => i > i)
  BY DEF Fresh
<1>2. i \in Nat
  BY <1>1, TeamsAssumption DEF Invites
<1>3. events[s].ext \in Made
  BY DEF Made
<1>4. QED
  BY <1>1, <1>2, <1>3

\* One row written, with a status that claims nothing; the mailbox gains fresh
\* invites at most.
LEMMA OneRow ==
  ASSUME TeamsInv, NEW s \in Scopes, NEW row \in Event, row.sync # "cancelled",
         events' = [events EXCEPT ![s] = row] \/ events' = events,
         mailbox' \in [Invites -> Accounts \cup {NoId}],
         \A i \in Invites : i \in Fresh \/ mailbox'[i] = mailbox[i],
         UNCHANGED <<seriesCancelled, connected>>
  PROVE  TeamsInv' /\ EveryInviteTried
<1>1. TeamsTypeOK'
  BY DEF TeamsInv, TeamsTypeOK
<1>2. ASSUME NEW t \in Rows', events'[t].sync = "cancelled", events'[t].ext # NoId
      PROVE  mailbox'[events'[t].ext] = NoId
  <2>1. t \in Scopes /\ events'[t] = events[t]
    BY <1>2 DEF TeamsInv, TeamsTypeOK, Rows
  <2>2. t \in Rows /\ events[t].ext \in Invites
    BY <1>2, <2>1, EventRow DEF TeamsInv, TeamsTypeOK, Rows
  <2>3. mailbox'[events[t].ext] = mailbox[events[t].ext]
    BY <2>2, FreshIsUnnamed
  <2>4. QED
    BY <1>2, <2>1, <2>2, <2>3 DEF TeamsInv, CancelledRowIsGone
<1>3. QED
  BY <1>1, <1>2 DEF TeamsInv, CancelledRowIsGone, EveryInviteTried

LEMMA InviteStep ==
  ASSUME TeamsInv, NEW s \in Scopes,
         \/ NotConnected(s)
         \/ \E i \in Invites : InviteMade(s, i)
         \/ \E sync \in {"failed", "not_configured"}, ok \in BOOLEAN,
               made \in {{}} \cup {{i} : i \in Fresh} : InviteFailed(s, sync, made, ok)
         \/ \E sync \in {"synced", "failed", "pending"} : SyncMicrosoftTranscript(s, sync)
  PROVE  TeamsInv' /\ EveryInviteTried
<1>1. /\ events[s] \in Event /\ mailbox \in [Invites -> Accounts \cup {NoId}]
      /\ connected \in Accounts \cup {NoId}
  BY DEF TeamsInv, TeamsTypeOK
<1>2. CASE NotConnected(s)
  <2> DEFINE row == [events[s] EXCEPT !.sync = "not_configured"]
  <2>1. row \in Event /\ row.sync = "not_configured"
    BY <1>1, EventRow DEF SyncStatus
  <2>2. events' = [events EXCEPT ![s] = row] /\ UNCHANGED <<seriesCancelled, connected, mailbox>>
    BY <1>2 DEF NotConnected, UpsertExternalEvent
  <2> HIDE DEF row
  <2>3. QED
    BY <1>1, <2>1, <2>2, OneRow
<1>3. ASSUME NEW i \in Invites, InviteMade(s, i)
      PROVE  TeamsInv' /\ EveryInviteTried
  <2> DEFINE row == [sync |-> "synced", ext |-> i, pinned |-> TRUE]
  <2>1. row \in Event /\ row.sync = "synced"
    BY DEF Event, SyncStatus
  <2>2. /\ events' = [events EXCEPT ![s] = row] /\ UNCHANGED <<seriesCancelled, connected>>
        /\ mailbox' = [mailbox EXCEPT ![i] = connected] /\ i \in Fresh
    BY <1>3 DEF InviteMade, UpsertExternalEvent
  <2> HIDE DEF row
  <2>3. mailbox' \in [Invites -> Accounts \cup {NoId}]
        /\ \A j \in Invites : j \in Fresh \/ mailbox'[j] = mailbox[j]
    BY <1>1, <2>2
  <2>4. QED
    BY <2>1, <2>2, <2>3, OneRow
<1>4. ASSUME NEW sync \in {"failed", "not_configured"}, NEW ok \in BOOLEAN,
             NEW made \in {{}} \cup {{i} : i \in Fresh}, InviteFailed(s, sync, made, ok)
      PROVE  TeamsInv' /\ EveryInviteTried
  <2> DEFINE row == [events[s] EXCEPT !.sync = sync, !.pinned = TRUE]
  <2>1. row \in Event /\ row.sync = sync
    <3>1. sync \in SyncStatus
      BY DEF SyncStatus
    <3>2. QED
      BY <1>1, <3>1, EventRow
  <2>2. /\ events' = [events EXCEPT ![s] = row] \/ events' = events
        /\ UNCHANGED <<seriesCancelled, connected>>
        /\ mailbox' = [i \in Invites |-> IF i \in made THEN connected ELSE mailbox[i]]
    BY <1>4 DEF InviteFailed, UpsertExternalEvent
  <2> HIDE DEF row
  <2>3. mailbox' \in [Invites -> Accounts \cup {NoId}]
        /\ \A j \in Invites : j \in Fresh \/ mailbox'[j] = mailbox[j]
    BY <1>1, <2>2
  <2>4. QED
    BY <2>1, <2>2, <2>3, OneRow
<1>5. ASSUME NEW sync \in {"synced", "failed", "pending"}, SyncMicrosoftTranscript(s, sync)
      PROVE  TeamsInv' /\ EveryInviteTried
  <2> DEFINE row == [events[s] EXCEPT !.sync = sync, !.pinned = TRUE]
  <2>1. row \in Event /\ row.sync = sync
    <3>1. sync \in SyncStatus
      BY DEF SyncStatus
    <3>2. QED
      BY <1>1, <3>1, EventRow
  <2>2. /\ events' = [events EXCEPT ![s] = row]
        /\ UNCHANGED <<seriesCancelled, connected, mailbox>>
    BY <1>5 DEF SyncMicrosoftTranscript, UpsertExternalEvent
  <2> HIDE DEF row
  <2>3. QED
    BY <1>1, <2>1, <2>2, OneRow
<1>6. QED
  BY <1>2, <1>3, <1>4, <1>5

\* The loop writes "cancelled" where there was no invite or Microsoft deleted it.
LEMMA CancellingKeeps ==
  ASSUME TeamsInv, NEW asked \in SUBSET Rows, NEW tried \in SUBSET asked,
         NEW gone \in SUBSET asked, NEW done \in BOOLEAN,
         NEW answer \in [asked -> {"none", "ok", "config", "error"}],
         CancelSeriesEvents(tried, asked, answer, gone, done)
  PROVE  TeamsInv' /\ EveryInviteTried
<1> DEFINE deleted == {events[s].ext : s \in {t \in asked : answer[t] = "ok"} \cup gone}
<1>1. /\ mailbox' = [i \in Invites |-> IF i \in deleted THEN NoId ELSE mailbox[i]]
      /\ events' = [s \in Scopes |-> IF s \in tried
                                     THEN [events[s] EXCEPT !.sync = CancelledAs(s, answer[s])]
                                     ELSE events[s]]
      /\ seriesCancelled' = done /\ connected' = connected /\ (done => tried = Rows)
  BY DEF CancelSeriesEvents, LoopEnds
<1>2. /\ events \in [Scopes -> Event] /\ mailbox \in [Invites -> Accounts \cup {NoId}]
      /\ Rows \subseteq Scopes
  BY DEF TeamsInv, TeamsTypeOK, Rows
<1>3. ASSUME NEW s \in tried
      PROVE  /\ CancelledAs(s, answer[s]) \in {"cancelled", "failed", "not_configured"}
             /\ CancelledAs(s, answer[s]) = "cancelled" /\ events[s].ext # NoId =>
                  events[s].ext \in deleted
  <2>1. CancelledAs(s, answer[s]) \in {"cancelled", "failed", "not_configured"}
    BY DEF CancelledAs
  <2>2. CancelledAs(s, answer[s]) = "cancelled" => events[s].ext = NoId \/ answer[s] = "ok"
    BY DEF CancelledAs
  <2>3. answer[s] = "ok" => events[s].ext \in deleted
    OBVIOUS
  <2>4. QED
    BY <2>1, <2>2, <2>3
<1> HIDE DEF deleted
<1>4. ASSUME NEW s \in tried
      PROVE  /\ events'[s] \in Event /\ events'[s].ext = events[s].ext
             /\ events'[s].sync = CancelledAs(s, answer[s])
  <2> DEFINE sync == CancelledAs(s, answer[s])
  <2>1. s \in Scopes /\ events[s] \in Event /\ sync \in SyncStatus
    BY <1>2, <1>3, <1>4 DEF SyncStatus
  <2>2. events'[s] = [events[s] EXCEPT !.sync = sync]
    BY <1>1, <1>4, <2>1
  <2> HIDE DEF sync
  <2>3. events'[s] \in Event /\ events'[s].ext = events[s].ext /\ events'[s].sync = sync
    BY <2>1, <2>2 DEF Event
  <2>4. QED
    BY <2>3 DEF sync
<1>5. events' \in [Scopes -> Event]
  BY <1>1, <1>2, <1>4
<1>6. /\ mailbox' \in [Invites -> Accounts \cup {NoId}]
      /\ \A i \in Invites : mailbox'[i] = NoId \/ mailbox'[i] = mailbox[i]
      /\ \A i \in Invites : i \in deleted => mailbox'[i] = NoId
  BY <1>1, <1>2
<1>7. TeamsTypeOK'
  BY <1>1, <1>5, <1>6 DEF TeamsInv, TeamsTypeOK
<1>8. ASSUME NEW s \in tried, events'[s].sync = "cancelled", events[s].ext # NoId
      PROVE  mailbox'[events[s].ext] = NoId
  <2>1. events[s].ext \in Invites
    BY <1>2, <1>8, EventRow
  <2>2. QED
    BY <1>3, <1>4, <1>6, <1>8, <2>1
<1>9. ASSUME NEW s \in Rows', events'[s].sync = "cancelled", events'[s].ext # NoId
      PROVE  mailbox'[events'[s].ext] = NoId
  <2>1. CASE s \in tried
    BY <1>4, <1>8, <1>9, <2>1
  <2>2. CASE s \notin tried
    <3>1. s \in Scopes /\ events'[s] = events[s]
      BY <1>1, <2>2 DEF Rows
    <3>2. s \in Rows /\ events[s].ext \in Invites /\ mailbox[events[s].ext] = NoId
      BY <1>2, <1>9, <3>1, EventRow DEF Rows, TeamsInv, CancelledRowIsGone
    <3>3. QED
      BY <1>6, <3>1, <3>2
  <2>3. QED
    BY <2>1, <2>2
<1>10. EveryInviteTried
  BY <1>1, <1>3, <1>4, <1>8 DEF EveryInviteTried
<1>11. QED
  BY <1>7, <1>9, <1>10 DEF TeamsInv, CancelledRowIsGone

LEMMA TeamsStep ==
  TeamsInv /\ [TeamsNext]_teamsVars => TeamsInv' /\ EveryInviteTried
<1> SUFFICES ASSUME TeamsInv, [TeamsNext]_teamsVars PROVE TeamsInv' /\ EveryInviteTried
  OBVIOUS
<1>1. /\ events \in [Scopes -> Event] /\ mailbox \in [Invites -> Accounts \cup {NoId}]
      /\ connected \in Accounts \cup {NoId} /\ seriesCancelled \in BOOLEAN
  BY DEF TeamsInv, TeamsTypeOK
<1>2. ASSUME NEW a \in Accounts, ConnectAccount(a) PROVE TeamsInv' /\ EveryInviteTried
  BY <1>1, <1>2 DEF ConnectAccount, TeamsInv, TeamsTypeOK, CancelledRowIsGone, Rows, EveryInviteTried
<1>3. CASE DisconnectAccount
  <2>1. /\ events' = [s \in Scopes |-> [events[s] EXCEPT !.pinned = FALSE]]
        /\ connected' = NoId /\ UNCHANGED <<seriesCancelled, mailbox>>
    BY <1>3 DEF DisconnectAccount
  <2>2. \A s \in Scopes : /\ events'[s] \in Event /\ events'[s].sync = events[s].sync
                          /\ events'[s].ext = events[s].ext
    BY <1>1, <2>1, EventRow
  <2>3. TeamsTypeOK'
    BY <1>1, <2>1, <2>2 DEF TeamsTypeOK
  <2>4. QED
    BY <2>1, <2>2, <2>3 DEF TeamsInv, CancelledRowIsGone, Rows, EveryInviteTried
<1>4. ASSUME NEW i \in Invites, DeleteInOutlook(i) PROVE TeamsInv' /\ EveryInviteTried
  <2>1. /\ mailbox' = [mailbox EXCEPT ![i] = NoId]
        /\ UNCHANGED <<seriesCancelled, events, connected>>
    BY <1>4 DEF DeleteInOutlook
  <2>2. /\ mailbox' \in [Invites -> Accounts \cup {NoId}]
        /\ \A j \in Invites : mailbox[j] = NoId => mailbox'[j] = NoId
    BY <1>1, <2>1
  <2>3. \A s \in Rows : events[s].ext \in Invites \cup {NoId}
    BY <1>1, EventRow DEF Rows
  <2>4. QED
    BY <1>1, <2>1, <2>2, <2>3
       DEF TeamsInv, TeamsTypeOK, CancelledRowIsGone, Rows, EveryInviteTried
<1>5. CASE DeleteSeries
  <2>1. NoEvent \in Event /\ NoEvent.sync = "none"
    BY DEF NoEvent, Event
  <2>2. /\ events' = [s \in Scopes |-> NoEvent] /\ seriesCancelled' = FALSE
        /\ UNCHANGED <<connected, mailbox>>
    BY <1>5 DEF DeleteSeries
  <2>3. Rows' = {} /\ TeamsTypeOK'
    BY <1>1, <2>1, <2>2 DEF Rows, TeamsTypeOK
  <2>4. QED
    BY <2>2, <2>3 DEF TeamsInv, CancelledRowIsGone, EveryInviteTried
<1>6. CASE UNCHANGED teamsVars
  BY <1>1, <1>6 DEF teamsVars, TeamsInv, TeamsTypeOK, CancelledRowIsGone, Rows, EveryInviteTried
<1>7. SessionScopes \subseteq Scopes
  BY DEF Scopes
<1>8. QED
  BY <1>2, <1>3, <1>4, <1>5, <1>6, <1>7, InviteStep, CancellingKeeps DEF TeamsNext

LEMMA TeamsInvariant == TeamsSpec => []TeamsInv
<1>1. TeamsInit => TeamsInv
  <2> SUFFICES ASSUME TeamsInit PROVE TeamsInv
    OBVIOUS
  <2>1. NoEvent \in Event /\ NoEvent.sync = "none"
    BY DEF NoEvent, Event
  <2>2. TeamsTypeOK /\ Rows = {}
    BY <2>1 DEF TeamsInit, TeamsTypeOK, Rows
  <2>3. QED
    BY <2>2 DEF TeamsInv, CancelledRowIsGone
<1>2. QED
  BY <1>1, TeamsStep, PTL DEF TeamsSpec

\* Every variable of the Teams events has its type.
THEOREM TeamsTyped == TeamsSpec => []TeamsTypeOK
<1>1. TeamsInv => TeamsTypeOK
  BY DEF TeamsInv
<1>2. QED
  BY <1>1, TeamsInvariant, PTL

\* For any number of sessions, accounts and invites: every invite of a cancelled
\* series was asked for, and no row claims more than Microsoft did.
THEOREM InvitesWithdrawn == TeamsSpec => InvitesAreWithdrawn
<1>1. TeamsInv => CancelledRowIsGone
  BY DEF TeamsInv
<1>2. TeamsInv /\ [TeamsNext]_teamsVars =>
        [~seriesCancelled /\ seriesCancelled' =>
           \A s \in Rows : /\ events'[s].sync \in {"cancelled", "failed", "not_configured"}
                           /\ events'[s].sync = "cancelled" /\ events[s].ext # NoId =>
                                mailbox'[events[s].ext] = NoId]_teamsVars
  BY TeamsStep DEF EveryInviteTried
<1>3. QED
  BY <1>1, <1>2, TeamsInvariant, PTL
     DEF TeamsSpec, InvitesAreWithdrawn, CancelAttemptsEveryInvite

-------------------------------------------------------------------------------
(* What a session records. *)

RecordsInv == RecordsTypeOK /\ SentMinutesWereMailed

TakesItsRecord ==
  \A a \in Artifacts : artifact[a].linked /\ ~artifact'[a].linked =>
    record'[a] = "none" \/ PassesOver(a)

LEMMA ArtifactRow ==
  ASSUME RecordsInv, NEW a \in Artifacts
  PROVE  /\ artifact[a] \in Artifact /\ record[a] \in Status \cup {"none"}
         /\ NoArtifact \in Artifact
BY DEF RecordsInv, RecordsTypeOK, Artifact, NoArtifact, Status, Places

\* Requests about the minutes leave the artifacts alone: a new text is a draft, a
\* sent one was mailed, or is a PATCH's.
LEMMA MinutesKeep ==
  ASSUME RecordsInv, UNCHANGED <<artifact, record>>,
         draft' \in 0 .. MaxDrafts, sent' \in BOOLEAN, mailed' \subseteq 1 .. MaxDrafts,
         patched' \in BOOLEAN,
         running' \in 0 .. MaxRuns, written' \in 0 .. MaxDrafts,
         sent' => draft' \in mailed' \/ patched'
  PROVE  RecordsInv' /\ TakesItsRecord
BY DEF RecordsInv, RecordsTypeOK, SentMinutesWereMailed, TakesItsRecord

LEMMA ArtifactsKeep ==
  ASSUME RecordsInv, UNCHANGED minutesVars, NEW a \in Artifacts,
         artifact' \in [Artifacts -> Artifact], record' \in [Artifacts -> Status \cup {"none"}],
         \A b \in Artifacts : b # a => artifact'[b] = artifact[b],
         artifact[a].linked /\ ~artifact'[a].linked => record'[a] = "none" \/ PassesOver(a)
  PROVE  RecordsInv' /\ TakesItsRecord
BY DEF RecordsInv, RecordsTypeOK, SentMinutesWereMailed, TakesItsRecord, minutesVars, PassesOver

LEMMA MinutesStep ==
  ASSUME RecordsInv,
         \/ BeginMinutes \/ FinishMinutes \/ AbandonMinutes
         \/ \E status \in {"unset", "draft", "sent"} : PatchMinutes(status)
         \/ \E delivered, stored \in BOOLEAN : SendMinutes(delivered, stored)
  PROVE  RecordsInv' /\ TakesItsRecord
<1>1. /\ draft \in 0 .. MaxDrafts /\ sent \in BOOLEAN /\ mailed \subseteq 1 .. MaxDrafts
      /\ patched \in BOOLEAN /\ running \in 0 .. MaxRuns /\ written \in 0 .. MaxDrafts
      /\ sent => draft \in mailed \/ patched
  BY DEF RecordsInv, RecordsTypeOK, SentMinutesWereMailed
<1>2. CASE BeginMinutes \/ AbandonMinutes
  <2>1. running' \in 0 .. MaxRuns
    <3>1. CASE BeginMinutes
      <4>1. running < MaxRuns /\ running' = running + 1
        BY <3>1 DEF BeginMinutes
      <4>2. QED
        BY <1>1, <4>1, RecordsAssumption
    <3>2. CASE AbandonMinutes
      <4>1. running > 0 /\ running' = running - 1
        BY <3>2 DEF AbandonMinutes
      <4>2. QED
        BY <1>1, <4>1, RecordsAssumption
    <3>3. QED
      BY <1>2, <3>1, <3>2
  <2>2. QED
    <3>1. UNCHANGED <<draft, sent, mailed, patched, written, artifact, record>>
      BY <1>2 DEF BeginMinutes, AbandonMinutes
    <3>2. QED
      BY <1>1, <2>1, <3>1, MinutesKeep
<1>3. CASE FinishMinutes
  <2>1. /\ written' \in 0 .. MaxDrafts /\ draft' = written' /\ running' \in 0 .. MaxRuns
        /\ sent' = FALSE /\ patched' = FALSE
    BY <1>1, <1>3, RecordsAssumption DEF FinishMinutes, NewDraft
  <2>2. QED
    BY <1>1, <1>3, <2>1, MinutesKeep DEF FinishMinutes
<1>6. ASSUME NEW status \in {"unset", "draft", "sent"}, PatchMinutes(status)
      PROVE  RecordsInv' /\ TakesItsRecord
  <2>1. written' \in 0 .. MaxDrafts /\ draft' \in 0 .. MaxDrafts
    BY <1>1, <1>6, RecordsAssumption DEF PatchMinutes, NewDraft
  <2>2. /\ sent' = IF status = "unset" THEN sent ELSE status = "sent"
        /\ patched' = (sent' /\ (patched \/ draft' # draft \/ status = "sent"))
        /\ UNCHANGED <<mailed, running, artifact, record>>
    BY <1>6 DEF PatchMinutes
  <2>3. sent' \in BOOLEAN /\ patched' \in BOOLEAN
    BY <1>1, <2>2
  <2>4. sent' => draft' \in mailed' \/ patched'
    BY <1>1, <2>2
  <2>5. QED
    BY <1>1, <2>1, <2>2, <2>3, <2>4, MinutesKeep
<1>4. ASSUME NEW delivered \in BOOLEAN, NEW stored \in BOOLEAN, SendMinutes(delivered, stored)
      PROVE  RecordsInv' /\ TakesItsRecord
  <2>1. draft \in 1 .. MaxDrafts
    BY <1>1, <1>4, RecordsAssumption DEF SendMinutes
  <2>2. /\ mailed' \subseteq 1 .. MaxDrafts /\ sent' \in BOOLEAN /\ patched' \in BOOLEAN
        /\ sent' => draft \in mailed' \/ patched'
    BY <1>1, <1>4, <2>1 DEF SendMinutes
  <2>3. QED
    BY <1>1, <1>4, <2>2, MinutesKeep DEF SendMinutes
<1>5. QED
  BY <1>2, <1>3, <1>4, <1>6

LEMMA ArtifactStep ==
  ASSUME RecordsInv, NEW a \in Artifacts,
         \/ \E kind \in Kinds, place \in {"own", "none"}, done \in BOOLEAN :
              CreateArtifact(a, kind, place, done)
         \/ \E status \in Status, place \in Places, done \in BOOLEAN :
              UpdateArtifact(a, status, place, done)
         \/ \E done \in BOOLEAN : DeleteArtifact(a, done)
         \/ \E status \in Status : UpdateRecord(a, status)
         \/ DeleteRecord(a)
  PROVE  RecordsInv' /\ TakesItsRecord
<1>1. /\ artifact \in [Artifacts -> Artifact] /\ record \in [Artifacts -> Status \cup {"none"}]
      /\ artifact[a] \in Artifact /\ NoArtifact \in Artifact /\ NoArtifact.linked = FALSE
  BY ArtifactRow DEF RecordsInv, RecordsTypeOK, NoArtifact
<1>2. ASSUME NEW kind \in Kinds, NEW place \in {"own", "none"}, NEW done \in BOOLEAN,
             CreateArtifact(a, kind, place, done)
      PROVE  RecordsInv' /\ TakesItsRecord
  <2> DEFINE row == [kind |-> kind, status |-> "open", place |-> place,
                     linked |-> HasRecord(kind, place)]
  <2>1. row \in Artifact /\ row.linked = HasRecord(kind, place)
    BY DEF Artifact, Status, Places, HasRecord
  <2>2. /\ record' \in [Artifacts -> Status \cup {"none"}] /\ record[a] = "none"
        /\ ~HasRecord(kind, place) => record'[a] = "none"
    BY <1>1, <1>2 DEF CreateArtifact, CreateLinkedRecord, Status
  <2>3. artifact' = IF done THEN [artifact EXCEPT ![a] = row] ELSE artifact
    BY <1>2 DEF CreateArtifact
  <2> HIDE DEF row
  <2>4. /\ artifact' \in [Artifacts -> Artifact]
        /\ \A b \in Artifacts : b # a => artifact'[b] = artifact[b]
        /\ artifact'[a] \in {artifact[a], row}
    BY <1>1, <2>1, <2>3
  <2>5. QED
    BY <1>2, <2>1, <2>2, <2>4, ArtifactsKeep DEF CreateArtifact
<1>3. ASSUME NEW status \in Status, NEW place \in Places, NEW done \in BOOLEAN,
             UpdateArtifact(a, status, place, done)
      PROVE  RecordsInv' /\ TakesItsRecord
  <2>1. artifact' = [artifact EXCEPT ![a].status = status, ![a].place = place]
    BY <1>3 DEF UpdateArtifact
  <2>2. /\ artifact' \in [Artifacts -> Artifact] /\ artifact'[a].linked = artifact[a].linked
        /\ \A b \in Artifacts : b # a => artifact'[b] = artifact[b]
    BY <1>1, <2>1 DEF Artifact
  <2>3. record' \in [Artifacts -> Status \cup {"none"}]
    BY <1>1, <1>3 DEF UpdateArtifact, SyncLinkedRecord
  <2>4. QED
    BY <1>3, <2>2, <2>3, ArtifactsKeep DEF UpdateArtifact
<1>4. ASSUME NEW done \in BOOLEAN, DeleteArtifact(a, done)
      PROVE  RecordsInv' /\ TakesItsRecord
  <2>1. /\ artifact' \in [Artifacts -> Artifact]
        /\ \A b \in Artifacts : b # a => artifact'[b] = artifact[b]
    BY <1>1, <1>4 DEF DeleteArtifact
  <2>2. /\ record' \in [Artifacts -> Status \cup {"none"}]
        /\ artifact[a].linked /\ ~PassesOver(a) => record'[a] = "none"
    BY <1>1, <1>4 DEF DeleteArtifact
  <2>3. QED
    BY <1>4, <2>1, <2>2, ArtifactsKeep DEF DeleteArtifact
<1>5. ASSUME (\E status \in Status : UpdateRecord(a, status)) \/ DeleteRecord(a)
      PROVE  RecordsInv' /\ TakesItsRecord
  <2>1. /\ record' \in [Artifacts -> Status \cup {"none"}]
        /\ UNCHANGED minutesVars /\ artifact' = artifact
    BY <1>1, <1>5 DEF UpdateRecord, DeleteRecord
  <2>2. QED
    BY <1>1, <2>1, ArtifactsKeep
<1>6. QED
  BY <1>2, <1>3, <1>4, <1>5

LEMMA RecordsStep ==
  RecordsInv /\ [RecordsNext]_recordVars => RecordsInv' /\ TakesItsRecord
<1>1. ASSUME RecordsInv, RecordsNext PROVE RecordsInv' /\ TakesItsRecord
  BY <1>1, MinutesStep, ArtifactStep DEF RecordsNext
<1>2. ASSUME RecordsInv, UNCHANGED recordVars PROVE RecordsInv' /\ TakesItsRecord
  BY <1>2 DEF recordVars, minutesVars, RecordsInv, RecordsTypeOK, SentMinutesWereMailed,
              TakesItsRecord
<1>3. QED
  BY <1>1, <1>2

LEMMA RecordsInvariant == RecordsSpec => []RecordsInv
<1>1. RecordsInit => RecordsInv
  <2>1. 0 \in 0 .. MaxDrafts /\ 0 \in 0 .. MaxRuns
    BY RecordsAssumption
  <2>2. NoArtifact \in Artifact
    BY DEF NoArtifact, Artifact, Status, Places
  <2>3. QED
    BY <2>1, <2>2 DEF RecordsInit, RecordsInv, RecordsTypeOK, SentMinutesWereMailed
<1>2. QED
  BY <1>1, RecordsStep, PTL DEF RecordsSpec

\* Every variable of a session's records has its type.
THEOREM RecordsTyped == RecordsSpec => []RecordsTypeOK
<1>1. RecordsInv => RecordsTypeOK
  BY DEF RecordsInv
<1>2. QED
  BY <1>1, RecordsInvariant, PTL

\* For any number of texts and generations under way: minutes marked sent were
\* mailed unless a PATCH wrote under that mark, and no artifact goes and leaves its
\* action item behind, or its risk where it names the initiative.
THEOREM RecordsTogether == RecordsSpec => RecordsStayTogether
<1>1. RecordsInv => SentMinutesWereMailed
  BY DEF RecordsInv
<1>2. RecordsInv /\ [RecordsNext]_recordVars =>
        [\A a \in Artifacts : artifact[a].linked /\ ~artifact'[a].linked =>
           record'[a] = "none" \/ PassesOver(a)]_recordVars
  BY RecordsStep DEF TakesItsRecord
<1>3. QED
  BY <1>1, <1>2, RecordsInvariant, PTL
     DEF RecordsSpec, RecordsStayTogether, DeletedArtifactTakesItsRecord

================================================================================
