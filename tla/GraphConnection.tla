--------------------------- MODULE GraphConnection ---------------------------
(* The Microsoft account a tenant has connected: the OAuth rounds that connect
   it, the calls to Microsoft Graph that refresh or clear its tokens, and its
   disconnection (services/meeting_integrations.py, services/meeting_providers.py
   and the database functions of 20260711000002).

   A round is consumed, completed and failed by separate calls, and a provider
   refreshes tokens at Microsoft between reading the row and writing it. Two
   processes may run at once, as they do while a deployment replaces one by the
   other; what keeps them apart is in the database. *)
EXTENDS Naturals

CONSTANTS
  Accounts,   \* Microsoft accounts
  Admins,     \* users who may hold the role that manages the tenant
  Procs,      \* calls of the provider that run at once
  Idle,       \* no call
  MaxRounds,  \* bound on the rounds started
  MaxTokens   \* bound on the credentials Microsoft issues

ASSUME BoundsAreNumbers == MaxRounds \in Nat /\ MaxTokens \in Nat

VARIABLES
  rounds,     \* integration_oauth_states, by oauth_generation
  started,    \* rounds so far: the sequence behind oauth_generation
  expired,    \* rounds whose ten minutes are over
  authorized, \* users that are active and hold the role
  conn,       \* the row of integration_connections
  session,    \* the row each call of the provider has read
  issued,     \* history: credentials so far
  barrier     \* history: rounds started before the last disconnection

vars == <<rounds, started, expired, authorized, conn, session, issued, barrier>>

Rounds == 1..MaxRounds
Credentials == 1..MaxTokens
Phases == {"none", "open", "consumed", "completed", "cancelled", "failed", "purged"}

\* A row is told from a later one of the same account by its id: the round that
\* inserted it.
Row == [id : Rounds, account : Accounts, og : Rounds, tg : Nat,
        live : BOOLEAN, cred : Credentials]
NoRow == [id |-> 0]
Connected == conn # NoRow

Init == /\ rounds = [r \in Rounds |-> [phase |-> "none", actor |-> Idle]]
        /\ started = 0 /\ expired = {} /\ authorized = Admins
        /\ conn = NoRow
        /\ session = [p \in Procs |-> Idle]
        /\ issued = 0 /\ barrier = 0

Unfinished == {r \in Rounds : rounds[r].phase \in {"open", "consumed"}}

\* Rounds in the set are given a terminal phase, the others are left alone.
Ended(set, phase) ==
  [r \in Rounds |-> IF r \in set THEN [rounds[r] EXCEPT !.phase = phase] ELSE rounds[r]]

connVars == <<conn, session, issued, barrier>>

-------------------------------------------------------------------------------
(* Rounds. *)

\* start_oauth removes rounds that expired a day ago, then inserts its own.
CreateOAuthState(a, old) ==
  /\ a \in authorized
  /\ started < MaxRounds
  /\ started' = started + 1
  /\ rounds' = [Ended(old, "purged") EXCEPT ![started + 1] = [phase |-> "open", actor |-> a]]
  /\ UNCHANGED <<expired, authorized, connVars>>

\* The answer of Microsoft, once: an update that only matches an open round.
ConsumeOAuthState(r, phase) ==
  /\ rounds[r].phase = "open" /\ r \notin expired
  /\ rounds' = Ended({r}, phase)
  /\ UNCHANGED <<started, expired, authorized, connVars>>

\* Any exception after that: the code, the identity, the actor or the completion.
FailOAuthState(r) ==
  /\ rounds[r].phase = "consumed"
  /\ rounds' = Ended({r}, "failed")
  /\ UNCHANGED <<started, expired, authorized, connVars>>

\* revalidate_actor asks before the code is exchanged, the function again after.
Completable(r) ==
  /\ rounds[r].phase = "consumed" /\ r \notin expired
  /\ rounds[r].actor \in authorized

\* A newer round of the account was completed, or another account is connected
\* (one row per tenant by a unique index): the function raises.
Superseded(r, account) == Connected /\ (conn.account # account \/ conn.og >= r)

NewCredentials == issued < MaxTokens /\ issued' = issued + 1

CompleteOAuth(r, account) ==
  /\ Completable(r)
  /\ ~Superseded(r, account)
  /\ NewCredentials
  /\ conn' = [id |-> IF Connected THEN conn.id ELSE r, account |-> account,
              og |-> r, tg |-> 0, live |-> TRUE, cred |-> issued']
  /\ rounds' = [Ended({q \in Unfinished : q < r}, "cancelled") EXCEPT ![r].phase = "completed"]
  /\ UNCHANGED <<started, expired, authorized, session, barrier>>

BadDisconnectedRounds == {r \in Unfinished : rounds[r].phase = "open"}

DisconnectedRounds == Unfinished

Disconnect(a) ==
  /\ Connected /\ a \in authorized
  /\ conn' = NoRow
  /\ rounds' = Ended(DisconnectedRounds, "cancelled")
  /\ barrier' = started
  /\ UNCHANGED <<started, expired, authorized, session, issued>>

\* Time, and changes of the role or status of an administrator.
Expire(r) ==
  /\ rounds[r].phase # "none" /\ r \notin expired
  /\ expired' = expired \cup {r}
  /\ UNCHANGED <<rounds, started, authorized, connVars>>

Demote(a) ==
  /\ a \in authorized
  /\ authorized' = authorized \ {a}
  /\ UNCHANGED <<rounds, started, expired, connVars>>

Promote(a) ==
  /\ a \notin authorized
  /\ authorized' = authorized \cup {a}
  /\ UNCHANGED <<rounds, started, expired, connVars>>

-------------------------------------------------------------------------------
(* Calls to Microsoft Graph. *)

stateVars == <<rounds, started, expired, authorized, barrier>>

\* A call works on the row it read, which must be connected.
ReadConnection(p) ==
  /\ session[p] = Idle
  /\ Connected /\ conn.live
  /\ session' = [session EXCEPT ![p] = conn]
  /\ UNCHANGED <<stateVars, conn, issued>>

BadMatches(read) == Connected /\ conn.id = read.id /\ conn.tg = read.tg

\* compare_and_swap_integration_connection_tokens updates this row or none.
Matches(read) ==
  Connected /\ conn.id = read.id /\ conn.og = read.og /\ conn.tg = read.tg

\* The update keeps the round and moves the token generation on.
Swapped(live, cred) ==
  [id |-> conn.id, account |-> conn.account, og |-> conn.og, tg |-> conn.tg + 1,
   live |-> live, cred |-> cred]

\* The loser takes the winner's row, if there is one, and goes on with its token.
Reload(p) ==
  session' = [session EXCEPT ![p] = IF Connected /\ conn.id = @.id /\ conn.live THEN conn ELSE Idle]

\* Microsoft has issued new tokens for the refresh token that was read.
StoreRefreshed(p) ==
  /\ session[p] # Idle
  /\ NewCredentials
  /\ IF Matches(session[p])
     THEN /\ conn' = Swapped(TRUE, issued')
          /\ session' = [session EXCEPT ![p] = conn']
     ELSE UNCHANGED conn /\ Reload(p)
  /\ UNCHANGED stateVars

\* The grant is gone, a scope is missing, the account is another one, or Graph
\* refused the token (401, 403): the credentials that were read are cleared.
ClearCredentials(p) ==
  /\ session[p] # Idle
  /\ IF Matches(session[p])
     THEN /\ conn' = Swapped(FALSE, conn.cred)
          /\ session' = [session EXCEPT ![p] = Idle]
     ELSE UNCHANGED conn /\ Reload(p)
  /\ UNCHANGED <<stateVars, issued>>

\* The call is over, or fails for the time being.
EndCall(p) ==
  /\ session[p] # Idle
  /\ session' = [session EXCEPT ![p] = Idle]
  /\ UNCHANGED <<stateVars, conn, issued>>

-------------------------------------------------------------------------------
Next ==
  \/ \E a \in Admins, old \in SUBSET expired : CreateOAuthState(a, old)
  \/ \E a \in Admins : Disconnect(a) \/ Demote(a) \/ Promote(a)
  \/ \E r \in Rounds :
       \/ \E phase \in {"consumed", "cancelled", "failed"} : ConsumeOAuthState(r, phase)
       \/ FailOAuthState(r)
       \/ \E account \in Accounts : CompleteOAuth(r, account)
       \/ Expire(r)
  \/ \E p \in Procs :
       ReadConnection(p) \/ StoreRefreshed(p) \/ ClearCredentials(p) \/ EndCall(p)

Spec == Init /\ [][Next]_vars

-------------------------------------------------------------------------------
(* Properties. *)

TypeOK ==
  /\ rounds \in [Rounds -> [phase : Phases, actor : Admins \cup {Idle}]]
  /\ started \in 0..MaxRounds /\ expired \subseteq Rounds /\ authorized \subseteq Admins
  /\ conn \in Row \cup {NoRow}
  /\ session \in [Procs -> Row \cup {Idle}]
  /\ issued \in 0..MaxTokens /\ barrier \in 0..MaxRounds

\* An account that was disconnected stays disconnected until an administrator
\* starts anew: no round begun before the disconnection connects it, wherever it
\* was then (disconnect_microsoft_graph_connection, complete_microsoft_graph_oauth).
DisconnectSticks == Connected => conn.og > barrier

\* Credentials are replaced by those of a newer round, or by a call that read
\* these very credentials, and are cleared only by such a call: a late refresh or
\* a late refusal never touches what came after it
\* (compare_and_swap_integration_connection_tokens).
LateAnswersAreLost ==
  [][Connected /\ conn' # NoRow /\ conn' # conn =>
       \/ conn'.og > conn.og
       \/ /\ conn'.og = conn.og /\ conn'.id = conn.id
          /\ \E p \in Procs : session[p] # Idle /\ session[p].cred = conn.cred]_vars
===============================================================================
