---------------------------- MODULE SessionRecords ----------------------------
(* What a session records: its minutes, which are generated, edited and mailed,
   and its artifacts, each of which may own a risk or an action item
   (services/meeting.py).

   generate_minutes awaits the model between its read and its write, so that
   other requests run meanwhile; every other handler is synchronous. Each call
   to the database or the mail service may be the last (partial failure). *)
EXTENDS Naturals, FiniteSets

CONSTANTS
  Artifacts,    \* ids of artifacts
  MaxDrafts,    \* bound on the texts written
  MaxRuns       \* bound on the generations that run at once

ASSUME RecordsAssumption == MaxDrafts \in Nat /\ MaxRuns \in Nat

VARIABLES
  draft,        \* the version of minutes_markdown, 0: none
  sent,         \* minutes_status = 'sent'
  mailed,       \* history: the versions that were mailed
  patched,      \* history: the text or the mark of sent minutes came by a PATCH
  running,      \* generations between their read and their write
  written,      \* history: versions so far
  artifact,     \* the rows of meeting_artifacts
  record        \* the status of the record an artifact owns

minutesVars == <<draft, sent, mailed, patched, running, written>>
recordVars == <<minutesVars, artifact, record>>

Status == {"open", "completed"}
Kinds == {"note", "action", "risk"}

\* The initiative_id of an artifact: the one its record was made in, another, none.
Places == {"own", "other", "none"}

Artifact == [kind : Kinds \cup {"none"}, status : Status, linked : BOOLEAN,
             place : Places]
NoArtifact == [kind |-> "none", status |-> "open", linked |-> FALSE, place |-> "none"]

RecordsInit ==
  /\ draft = 0 /\ sent = FALSE /\ mailed = {} /\ patched = FALSE
  /\ running = 0 /\ written = 0
  /\ artifact = [a \in Artifacts |-> NoArtifact]
  /\ record = [a \in Artifacts |-> "none"]

-------------------------------------------------------------------------------
(* Minutes. *)

\* Notes and transcripts count as well; here the artifacts are the source.
HasMinutesSource == \E a \in Artifacts : artifact[a].kind # "none"

BeginMinutes ==
  /\ HasMinutesSource
  /\ running < MaxRuns
  /\ running' = running + 1
  /\ UNCHANGED <<draft, sent, mailed, patched, written, artifact, record>>

NewDraft == /\ written < MaxDrafts
            /\ written' = written + 1
            /\ draft' = written'

\* The answer is stored over the minutes as they are by then.
FinishMinutes ==
  /\ running > 0 /\ running' = running - 1
  /\ NewDraft
  /\ sent' = FALSE /\ patched' = FALSE
  /\ UNCHANGED <<mailed, artifact, record>>

AbandonMinutes ==
  /\ running > 0 /\ running' = running - 1
  /\ UNCHANGED <<draft, sent, mailed, patched, written, artifact, record>>

\* update_session: a PATCH takes a text, a status, both or neither, and looks at no
\* row. The session page sends a text with 'draft'; a text alone leaves 'sent' as it
\* is, and 'sent' may be given outright.
PatchMinutes(status) ==
  /\ \/ NewDraft
     \/ draft' \in {draft, 0} /\ UNCHANGED written
  /\ sent' = IF status = "unset" THEN sent ELSE status = "sent"
  /\ patched' = (sent' /\ (patched \/ draft' # draft \/ status = "sent"))
  /\ UNCHANGED <<mailed, running, artifact, record>>

\* The mail goes out before the row says so.
SendMinutes(delivered, stored) ==
  /\ draft # 0
  /\ mailed' = IF delivered THEN mailed \cup {draft} ELSE mailed
  /\ sent' = IF delivered /\ stored THEN TRUE ELSE sent
  /\ patched' = IF delivered /\ stored THEN FALSE ELSE patched
  /\ UNCHANGED <<draft, running, written, artifact, record>>

-------------------------------------------------------------------------------
(* Artifacts and the records they own. *)

\* A risk needs an initiative: without one nothing is linked.
HasRecord(kind, place) == kind = "action" \/ (kind = "risk" /\ place # "none")

CreateLinkedRecord(a, kind, place) ==
  record' = [record EXCEPT ![a] = IF HasRecord(kind, place) THEN "open" ELSE @]

CreateArtifact(a, kind, place, done) ==
  /\ artifact[a].kind = "none" /\ record[a] = "none"
  /\ CreateLinkedRecord(a, kind, place)
  /\ artifact' = IF done
                 THEN [artifact EXCEPT ![a] = [kind |-> kind, status |-> "open", place |-> place,
                                               linked |-> HasRecord(kind, place)]]
                 ELSE artifact
  /\ UNCHANGED minutesVars

\* A risk is looked for in the initiative of its artifact; an action item is not.
InReach(kind, place) == kind = "risk" => place = "own"

\* A missing action item is not noticed, a risk that is missing or that another
\* initiative holds ends the request in 404, after the artifact was written, and
\* without an initiative nothing is looked for: the record stays in all of them.
SyncLinkedRecord(a, status, place) ==
  record' = [record EXCEPT ![a] =
               IF artifact[a].linked /\ InReach(artifact[a].kind, place) /\ @ # "none"
               THEN status ELSE @]

\* A PUT may move the artifact to another initiative, or to none.
UpdateArtifact(a, status, place, done) ==
  /\ artifact[a].kind # "none"
  /\ artifact' = [artifact EXCEPT ![a].status = status, ![a].place = place]
  /\ IF done THEN SyncLinkedRecord(a, status, place) ELSE UNCHANGED record
  /\ UNCHANGED minutesVars

\* delete_risk raises 404 for a risk that is gone or in another initiative, and the
\* artifact stays; without an initiative the risk is passed over.
RefusesDelete(a) == /\ artifact[a].kind = "risk" /\ artifact[a].place # "none"
                    /\ record[a] = "none" \/ artifact[a].place = "other"

PassesOver(a) == artifact[a].kind = "risk" /\ artifact[a].place = "none"

BadDeleteArtifact(a, done) ==
  /\ artifact[a].kind # "none"
  /\ artifact' = [artifact EXCEPT ![a] = NoArtifact]
  /\ record' = IF artifact[a].linked /\ done THEN [record EXCEPT ![a] = "none"] ELSE record
  /\ UNCHANGED minutesVars

DeleteArtifact(a, done) ==
  /\ artifact[a].kind # "none"
  /\ ~(artifact[a].linked /\ RefusesDelete(a))
  /\ record' = IF artifact[a].linked /\ ~PassesOver(a)
               THEN [record EXCEPT ![a] = "none"] ELSE record
  /\ artifact' = IF done THEN [artifact EXCEPT ![a] = NoArtifact] ELSE artifact
  /\ UNCHANGED minutesVars

\* The same record through the pages of risks and of action items.
UpdateRecord(a, status) ==
  /\ record[a] # "none"
  /\ record' = [record EXCEPT ![a] = status]
  /\ UNCHANGED <<minutesVars, artifact>>

DeleteRecord(a) ==
  /\ record[a] # "none"
  /\ record' = [record EXCEPT ![a] = "none"]
  /\ UNCHANGED <<minutesVars, artifact>>

-------------------------------------------------------------------------------
RecordsNext ==
  \/ BeginMinutes \/ FinishMinutes \/ AbandonMinutes
  \/ \E status \in {"unset", "draft", "sent"} : PatchMinutes(status)
  \/ \E delivered, stored \in BOOLEAN : SendMinutes(delivered, stored)
  \/ \E a \in Artifacts :
       \/ \E kind \in Kinds, place \in {"own", "none"}, done \in BOOLEAN :
            CreateArtifact(a, kind, place, done)
       \/ \E status \in Status, place \in Places, done \in BOOLEAN :
            UpdateArtifact(a, status, place, done)
       \/ \E done \in BOOLEAN : DeleteArtifact(a, done)
       \/ \E status \in Status : UpdateRecord(a, status)
       \/ DeleteRecord(a)

RecordsSpec == RecordsInit /\ [][RecordsNext]_recordVars

RecordsTypeOK ==
  /\ draft \in 0..MaxDrafts /\ sent \in BOOLEAN /\ mailed \subseteq 1..MaxDrafts
  /\ patched \in BOOLEAN /\ running \in 0..MaxRuns /\ written \in 0..MaxDrafts
  /\ artifact \in [Artifacts -> Artifact]
  /\ record \in [Artifacts -> Status \cup {"none"}]

\* Minutes that are marked sent are the ones the attendees received, also when a
\* generation that began earlier was stored around the mail, unless a PATCH gave the
\* row their text under that mark, or the mark itself (generate_minutes,
\* send_minutes, update_session).
SentMinutesWereMailed == sent => draft \in mailed \/ patched

\* An artifact is never gone while the action item it owned remains, nor the risk of
\* one that still names its initiative, whichever call of its deletion was the last
\* (delete_artifact). The risk of an artifact moved to no initiative stays behind.
DeletedArtifactTakesItsRecord ==
  [][\A a \in Artifacts : artifact[a].linked /\ ~artifact'[a].linked =>
       record'[a] = "none" \/ PassesOver(a)]_recordVars

\* What a session sent and what it records elsewhere stay together with it.
RecordsStayTogether == []SentMinutesWereMailed /\ DeletedArtifactTakesItsRecord
===============================================================================
