----------------------------- MODULE MCMeetings ------------------------------
(* The three parts of a meeting share no variable: a behaviour of this instance
   is one of the series, of its Teams events or of a session's records. *)
EXTENDS MeetingSeries, TeamsEvents, SessionRecords
CONSTANTS i1, x, y, u1, acc1, acc2, a1, a2
MCWindows == {{1, 2}}

VARIABLE part
mcVars == <<part, vars, teamsVars, recordVars>>

MCInit == /\ part \in {"series", "teams", "records"}
          /\ Init /\ TeamsInit /\ RecordsInit

MCNext == /\ UNCHANGED part
          /\ \/ part = "series" /\ Next /\ UNCHANGED <<teamsVars, recordVars>>
             \/ part = "teams" /\ TeamsNext /\ UNCHANGED <<vars, recordVars>>
             \/ part = "records" /\ RecordsNext /\ UNCHANGED <<vars, teamsVars>>

MCSpec == MCInit /\ [][MCNext]_mcVars

\* The rows of meetings, their Teams events and their records have their types.
MeetingTypesOK == TypeOK /\ TeamsTypeOK /\ RecordsTypeOK
===============================================================================
