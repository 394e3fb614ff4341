---------------------------- MODULE EmailMigration ----------------------------
(* The command that moves the people of the fixture tenants to addresses of
   another domain (scripts/migrate_five_tenant_fixture_email_domains.py). An
   address is kept twice, by the identity provider and in users, and no
   transaction spans both: the command changes one after the other, keeps a
   journal of whom it got to, and undoes its changes when something goes wrong.

   Any call may fail, having taken effect or not: the provider is shared with
   other services, whose people may take an address or change an account
   meanwhile. The command may also be killed between two calls. A dry run is a
   preflight without the rest. *)
EXTENDS Naturals, Sequences, FiniteSets

CONSTANT People   \* the people of the fixture tenants

VARIABLES
  authEmail,   \* person -> the domain of the address at the provider
  rowEmail,    \* person -> the domain of the address in users
  command,     \* the run of the command
  journal      \* the file it writes, and whom that names

migrationVars == <<authEmail, rowEmail, command, journal>>

Domains == {"old", "new"}
Torn == {p \in People : authEmail[p] # rowEmail[p]}

MigrationInit ==
  /\ authEmail = [p \in People |-> "old"] /\ rowEmail = authEmail
  /\ command = [at |-> "stopped", plan |-> {}, changed |-> << >>, named |-> {}]
  /\ journal = [status |-> "none", completed |-> {}]

\* Those the command set out to change and has not undone, and the person it is at:
\* the last of them; "named" has the undone ones too.
Changed == {command.changed[i] : i \in DOMAIN command.changed}
Current == command.changed[Len(command.changed)]

\* A call on one address: whether it took effect and whether it was answered, the
\* address being read again afterwards.
Moves(email, p, domain) ==
  {[email |-> IF took THEN [email EXCEPT ![p] = domain] ELSE email, ok |-> ok]
     : took \in BOOLEAN, ok \in {FALSE}}
  \cup {[email |-> [email EXCEPT ![p] = domain], ok |-> TRUE]}

Write(status, names) == journal' = [status |-> status, completed |-> names]

\* Those who still have the old address: they stay listed while the run lasts, in
\* the order in which the database returned them.
Planned == {p \in People : rowEmail[p] = "old"}

\* Nobody may be split between the two; other reasons to refuse change nothing.
Preflight ==
  /\ command.at = "stopped" /\ Torn = {}
  /\ command' = [at |-> "account", plan |-> Planned, changed |-> << >>, named |-> {}]
  /\ UNCHANGED <<authEmail, rowEmail, journal>>

Todo == command.plan \ Changed

\* An exception: from here on the command undoes what it did.
GivesUp == command' = [command EXCEPT !.at = "undo row"]

\* The person, or the target address, is not as the plan has them.
FindsItChanged ==
  /\ command.at \in {"account", "journal", "postflight"}
  /\ GivesUp
  /\ UNCHANGED <<authEmail, rowEmail, journal>>

\* Mistake: a person is listed once the provider has answered.
BadAttempted(p, ok) == IF ok THEN Append(command.changed, p) ELSE command.changed

\* A person is listed as changed before the first call.
Attempted(p, ok) == Append(command.changed, p)

UpdateAuthEmail ==
  /\ command.at = "account"
  /\ \E p \in Todo : \E call \in Moves(authEmail, p, "new") :
       /\ authEmail' = call.email
       /\ command' = [command EXCEPT !.changed = Attempted(p, call.ok), !.named = @ \cup {p},
                                     !.at = IF call.ok THEN "row" ELSE "undo row"]
  /\ UNCHANGED <<rowEmail, journal>>

\* A compare-and-set on the old address.
SetPlatformEmail ==
  /\ command.at = "row"
  /\ \E call \in Moves(rowEmail, Current, "new") :
       /\ rowEmail' = call.email
       /\ command' = [command EXCEPT !.at = IF call.ok THEN "journal" ELSE "undo row"]
  /\ UNCHANGED <<authEmail, journal>>

WriteJournal ==
  /\ command.at = "journal"
  /\ Write("applying", Changed)
  /\ command' = [command EXCEPT !.at = "account"]
  /\ UNCHANGED <<authEmail, rowEmail>>

\* Everybody is done: the preflight again, in which nobody may be left.
Postflight ==
  /\ command.at = "account" /\ Todo = {}
  /\ command' = [command EXCEPT !.at = IF Torn = {} /\ Planned = {}
                                       THEN "postflight" ELSE "undo row"]
  /\ UNCHANGED <<authEmail, rowEmail, journal>>

Completes ==
  /\ command.at = "postflight"
  /\ Write("complete", People)
  /\ command' = [command EXCEPT !.at = "stopped"]
  /\ UNCHANGED <<authEmail, rowEmail>>

-------------------------------------------------------------------------------
(* The way back, the last one changed first, and of each person the row first. *)

UndoFails ==
  /\ command.at \in {"undo row", "undo account"}
  /\ Write("rollback_failed", command.named)
  /\ command' = [command EXCEPT !.at = "stopped"]

RollbackRow ==
  /\ command.at = "undo row" /\ command.changed # << >>
  /\ rowEmail' = [rowEmail EXCEPT ![Current] = "old"]
  /\ \/ command' = [command EXCEPT !.at = "undo account"] /\ UNCHANGED journal
     \/ UndoFails
  /\ UNCHANGED authEmail

RollbackAccount ==
  /\ command.at = "undo account"
  /\ authEmail' = [authEmail EXCEPT ![Current] = "old"]
  /\ \/ command' = [command EXCEPT !.at = "undo row", !.changed = SubSeq(@, 1, Len(@) - 1)] /\ UNCHANGED journal
     \/ UndoFails
  /\ UNCHANGED rowEmail

RollbackFails == UndoFails /\ UNCHANGED <<authEmail, rowEmail>>

RolledBack ==
  /\ command.at = "undo row" /\ command.changed = << >>
  /\ Write("rolled_back", {})
  /\ command' = [command EXCEPT !.at = "stopped"]
  /\ UNCHANGED <<authEmail, rowEmail>>

Killed ==
  /\ command.at # "stopped"
  /\ command' = [command EXCEPT !.at = "stopped"]
  /\ UNCHANGED <<authEmail, rowEmail, journal>>

\* Somebody settles by hand which of the two addresses holds.
Repair ==
  /\ command.at = "stopped" /\ Torn # {}
  /\ \/ authEmail' = rowEmail /\ UNCHANGED rowEmail
     \/ rowEmail' = authEmail /\ UNCHANGED authEmail
  /\ UNCHANGED <<command, journal>>

MigrationNext ==
  \/ Preflight \/ FindsItChanged \/ UpdateAuthEmail \/ SetPlatformEmail \/ WriteJournal
  \/ Postflight \/ Completes
  \/ RollbackRow \/ RollbackAccount \/ RollbackFails \/ RolledBack \/ Killed \/ Repair

MigrationSpec == MigrationInit /\ [][MigrationNext]_migrationVars

-------------------------------------------------------------------------------
(* Properties. *)

\* Every variable has its type.
MigrationTypeOK ==
  /\ authEmail \in [People -> Domains] /\ rowEmail \in [People -> Domains]
  /\ DOMAIN command = {"at", "plan", "changed", "named"}
  /\ command.at \in {"stopped", "account", "row", "journal", "postflight", "undo row", "undo account"}
  /\ command.plan \subseteq People /\ command.changed \in Seq(People) /\ command.named \subseteq People
  /\ journal \in [status : {"none", "applying", "complete", "rolled_back", "rollback_failed"},
                  completed : SUBSET People]

\* However often the command was killed, failed or failed to undo itself, one
\* person at most has two addresses, and it is the account that is ahead: one
\* repair by hand is all it takes (preflight, apply_migration, _rollback_identity).
OneSplitAtMost ==
  /\ Cardinality(Torn) <= 1
  /\ \A p \in Torn : authEmail[p] = "new"

\* A journal that says "complete" is right for good.
CompleteIsComplete ==
  journal.status = "complete" => \A p \in People : authEmail[p] = "new" /\ rowEmail[p] = "new"

\* A run that says it was rolled back left everybody as it found them, those whom
\* an earlier run had moved included.
RolledBackIsRestored ==
  [][RolledBack =>
       \A p \in People :
         /\ authEmail'[p] = rowEmail'[p]
         /\ rowEmail'[p] = "old" <=> p \in command.plan]_migrationVars

\* What the command says of the addresses is so.
MigrationIsTold == []OneSplitAtMost /\ []CompleteIsComplete /\ RolledBackIsRestored
===============================================================================
