------------------------------- MODULE Identity -------------------------------
(* The people of one tenant, their invitations and their accounts at the
   identity provider (services/people.py, routers/auth.py), the administrator
   of the platform (bootstrap/platform_admin.py), and the command that brings
   the claims of the accounts back in line (cli/reconcile_auth_claims.py), which
   is a process of its own. A request makes its calls one after the other and
   may be cut off after any of them; none of these handlers awaits anything, and
   the API is one process (apps/api/Dockerfile.prod), so that no other request
   runs between two calls of one: what it checked still holds when it writes.

   An address stands for its account and for its row; passwords themselves,
   profiles and workstreams are left out. *)
EXTENDS Naturals, Sequences, FiniteSets

CONSTANTS
  Emails,
  Roles,
  AdminEmail,              \* the address the platform administrator is given
  MaxInvites, MaxLinks    \* bounds on invitations and on resending one

ASSUME IdentityAssumption == AdminEmail \in Emails /\ MaxLinks \in Nat \ {0}

VARIABLES
  account,       \* address -> its account at the provider, if any
  user,          \* address -> its row of users, if any
  invites,       \* rows of user_invites, oldest first
  run,           \* the reconciliation
  late,          \* history: links a password was chosen through when they were dead
  dead           \* links that a completed request replaced, revoked or consumed

identityVars == <<account, user, invites, run, late, dead>>

NoClaim == "none"
Statuses == {"pending", "active", "ghost", "deactivated"}
Inactive == {"ghost", "deactivated"}
\* The claim of this schema, and markers that apply to no schema in particular.
AuthUsers == [claim : Roles \cup {NoClaim}, markers : {"none", "tenant", "admin"}]
Rows == [role : Roles, status : Statuses, mustChange : BOOLEAN]
Invites == [email : Emails, role : Roles, purpose : {"invite", "password_setup"},
            status : {"pending", "accepted", "expired", "revoked"},
            token : 1 .. MaxLinks, due : BOOLEAN]

\* Accounts from before the claims had a schema, and of other services.
IdentityInit ==
  /\ user \in UNION {[S -> [role : Roles, status : {"active"}, mustChange : {FALSE}]]
                       : S \in SUBSET (Emails \ {AdminEmail})}
  /\ \E legacy \in SUBSET DOMAIN user :
       account = [e \in DOMAIN user |->
                    [claim |-> IF e \in legacy THEN NoClaim ELSE user[e].role,
                     markers |-> IF e \in legacy THEN "tenant" ELSE "none"]]
  /\ invites = <<>>
  /\ run = [phase |-> "idle", plan |-> <<>>, touched |-> {}, failed |-> FALSE]
  /\ late = {} /\ dead = {}

\* What is stored for e, new or in place of what was.
Put(f, e, v) == [x \in DOMAIN f \cup {e} |-> IF x = e THEN v ELSE f[x]]

\* build_auth_metadata_payload, with a schema: the claim replaces the markers.
Scoped(role) == [claim |-> role, markers |-> "none"]

\* assert_supabase_claims_match_user.
InSync(e) == e \in DOMAIN account /\ account[e] = Scoped(user[e].role)

Touch(e) ==
  run' = IF run.phase = "writing" THEN [run EXCEPT !.touched = @ \cup {e}] ELSE run

-------------------------------------------------------------------------------
(* Invitations and links. *)

Pending(e) == {i \in DOMAIN invites : invites[i].email = e /\ invites[i].status = "pending"}
Outstanding(e) == {<<i, invites[i].token>> : i \in Pending(e)}
Revoked(e) ==
  [i \in DOMAIN invites |-> IF i \in Pending(e) THEN [invites[i] EXCEPT !.status = "revoked"]
                            ELSE invites[i]]

NewInvite(e, role, purpose) ==
  [email |-> e, role |-> role, purpose |-> purpose, status |-> "pending", token |-> 1,
   due |-> FALSE]

InviteUser(e, role) ==
  /\ Len(invites) < MaxInvites
  /\ e \notin DOMAIN user /\ e \notin DOMAIN account /\ Pending(e) = {}
  /\ invites' = Append(invites, NewInvite(e, role, "invite"))
  /\ UNCHANGED <<account, user, run, late, dead>>

\* send_password_setup_link: it revokes, then inserts.
SendPasswordSetupLink(e) ==
  /\ Len(invites) < MaxInvites
  /\ e \in DOMAIN user /\ user[e].status \notin Inactive
  /\ \E calls \in 1 .. 2 :
       /\ invites' = IF calls = 2
                     THEN Append(Revoked(e), NewInvite(e, user[e].role, "password_setup"))
                     ELSE Revoked(e)
       /\ dead' = IF calls = 2 THEN dead \cup Outstanding(e) ELSE dead
  /\ UNCHANGED <<account, user, run, late>>

\* _expire_if_needed, one call by itself.
Expired(i) ==
  IF invites[i].status = "pending" /\ invites[i].due
  THEN [invites EXCEPT ![i].status = "expired"] ELSE invites

ListInvites ==
  /\ invites' = [i \in DOMAIN invites |-> Expired(i)[i]]
  /\ UNCHANGED <<account, user, run, late, dead>>

\* An invitation of a person who has another pending one is not renewed: the
\* index on pending invitations refuses.
ResendInvite(i) ==
  /\ invites[i].status \notin {"accepted", "revoked"}
  /\ invites[i].token < MaxLinks
  /\ IF Pending(invites[i].email) \ {i} = {}
     THEN /\ invites' = [invites EXCEPT ![i].token = @ + 1, ![i].status = "pending", ![i].due = FALSE]
          /\ dead' = dead \cup {<<i, invites[i].token>>}
     ELSE invites' = Expired(i) /\ UNCHANGED dead
  /\ UNCHANGED <<account, user, run, late>>

RevokeInvite(i) ==
  /\ invites[i].status # "accepted"
  /\ invites' = [invites EXCEPT ![i].status = "revoked"]
  /\ dead' = dead \cup {<<i, invites[i].token>>}
  /\ UNCHANGED <<account, user, run, late>>

\* Time passes.
InviteFallsDue(i) ==
  /\ invites[i].status = "pending" /\ ~invites[i].due
  /\ invites' = [invites EXCEPT ![i].due = TRUE]
  /\ UNCHANGED <<account, user, run, late, dead>>

-------------------------------------------------------------------------------
(* Following a link. *)

BadHolds(i, token) == invites[i].status \in {"pending", "accepted"} /\ token = invites[i].token

\* The hash of a token is stored, and made useless when the invitation is
\* revoked, accepted or expired (_get_pending_invite).
Holds(i, token) == invites[i].status = "pending" /\ token = invites[i].token

Accepted(i) == [invites EXCEPT ![i].status = "accepted"]

\* A password is chosen through the link.
Follow(i, token) == late' = late \cup ({<<i, token>>} \cap dead)

BadMarkAfter == 1

\* The calls of an acceptance after which it is marked: the third.
MarkAfter == 3

AcceptOverdue(i, token) ==
  /\ Holds(i, token) /\ invites[i].due
  /\ invites' = Expired(i)
  /\ UNCHANGED <<account, user, run, late, dead>>

\* Account, row, mark.
AcceptNewInvite(i, token) ==
  LET e == invites[i].email
  IN  /\ Holds(i, token) /\ ~invites[i].due /\ invites[i].purpose = "invite"
      /\ e \notin DOMAIN user /\ e \notin DOMAIN account
      /\ \E calls \in 1 .. 3 :
           /\ account' = Put(account, e, Scoped(invites[i].role))
           /\ user' = IF calls >= 2
                      THEN Put(user, e, [role |-> invites[i].role, status |-> "active",
                                         mustChange |-> FALSE])
                      ELSE user
           /\ invites' = IF calls >= MarkAfter THEN Accepted(i) ELSE invites
           /\ dead' = IF calls = 3 THEN dead \cup {<<i, token>>} ELSE dead
      /\ Follow(i, token)
      /\ Touch(e)

MaySetUp(e) == e \in DOMAIN user /\ user[e].status \notin Inactive

\* Password, row, mark.
AcceptPasswordSetup(i, token) ==
  LET e == invites[i].email
  IN  /\ Holds(i, token) /\ ~invites[i].due /\ invites[i].purpose = "password_setup"
      /\ MaySetUp(e)
      /\ \E calls \in 1 .. 3 :
           /\ account' = [account EXCEPT ![e] = Scoped(user[e].role)]
           /\ user' = IF calls >= 2
                      THEN [user EXCEPT ![e].status = "active", ![e].mustChange = FALSE]
                      ELSE user
           /\ invites' = IF calls >= MarkAfter THEN Accepted(i) ELSE invites
           /\ dead' = IF calls = 3 THEN dead \cup {<<i, token>>} ELSE dead
      /\ Follow(i, token)
      /\ Touch(e)

-------------------------------------------------------------------------------
(* People. *)

\* create_user: account, row.
CreateUser(e, role) ==
  /\ e \notin DOMAIN user /\ e \notin DOMAIN account
  /\ \E calls \in 1 .. 2 :
       /\ account' = Put(account, e, Scoped(role))
       /\ user' = IF calls = 2
                  THEN Put(user, e, [role |-> role, status |-> "pending", mustChange |-> TRUE])
                  ELSE user
  /\ Touch(e)
  /\ UNCHANGED <<invites, late, dead>>

\* update_profile: row, claims, and when the claims cannot be verified the row
\* again. The claims may have been written all the same.
UpdateProfile(e, role) ==
  /\ e \in DOMAIN user
  /\ \E row, claims \in BOOLEAN :
       /\ user' = IF row THEN [user EXCEPT ![e].role = role] ELSE user
       /\ account' = IF claims THEN [account EXCEPT ![e] = Scoped(role)] ELSE account
  /\ Touch(e)
  /\ UNCHANGED <<invites, late, dead>>

\* ghost_user and deactivate_user.
SetInactive(e, status) ==
  /\ e \in DOMAIN user
  /\ user' = [user EXCEPT ![e].status = status]
  /\ UNCHANGED <<account, invites, run, late, dead>>

\* set_temporary_password: password, links, row.
SetTemporaryPassword(e) ==
  /\ e \in DOMAIN user /\ user[e].status \notin Inactive
  /\ account' = [account EXCEPT ![e] = Scoped(user[e].role)]
  /\ \E calls \in 1 .. 3 :
       /\ invites' = IF calls >= 2 THEN Revoked(e) ELSE invites
       /\ user' = IF calls = 3
                  THEN [user EXCEPT ![e].status = "active", ![e].mustChange = TRUE] ELSE user
       /\ dead' = IF calls = 3 THEN dead \cup Outstanding(e) ELSE dead
  /\ Touch(e)
  /\ UNCHANGED late

\* change_password, by a person who is admitted; _current_user_from_user_row.
ChangePassword(e) ==
  /\ e \in DOMAIN user /\ user[e].status \notin Inactive /\ InSync(e)
  /\ user' = [user EXCEPT ![e].status = "active", ![e].mustChange = FALSE]
  /\ UNCHANGED <<account, invites, run, late, dead>>

\* ensure_platform_admin_on_startup.
StartUp ==
  /\ account' = Put(account, AdminEmail, [claim |-> NoClaim, markers |-> "admin"])
  /\ Touch(AdminEmail)
  /\ UNCHANGED <<user, invites, late, dead>>

-------------------------------------------------------------------------------
(* The reconciliation: it reads everything, then writes one account at a time. *)

Marked == {e \in DOMAIN account : e = AdminEmail /\ account[e].markers = "admin"}
Orphans == (DOMAIN account \ DOMAIN user) \ Marked

BadBlocked(strict) == strict /\ Orphans # {}

\* An administrator with a claim or a row, a row without an account and, to a
\* strict run, an account without a row.
Blocked(strict) ==
  \/ \E e \in Marked : account[e].claim # NoClaim \/ e \in DOMAIN user
  \/ DOMAIN user \ DOMAIN account # {}
  \/ strict /\ Orphans # {}

Drifted == {e \in (DOMAIN user \cap DOMAIN account) \ Marked : ~InSync(e)}

\* The status of a report without lines left to write.
Outcome(failed) == IF failed THEN "failed" ELSE "ok"

ReconcileStarts(strict) ==
  /\ run.phase # "writing"
  /\ run' = [phase |-> CASE Blocked(strict) -> "failed"
                         [] ~Blocked(strict) /\ Drifted = {} -> "ok"
                         [] OTHER -> "writing",
             plan |-> IF Blocked(strict) THEN <<>> ELSE [e \in Drifted |-> user[e].role],
             touched |-> {}, failed |-> Blocked(strict)]
  /\ UNCHANGED <<account, user, invites, late, dead>>

\* _apply_and_verify: the write or its verification may fail, others follow.
ReconcileOne(e) ==
  /\ run.phase = "writing" /\ e \in DOMAIN run.plan
  /\ \E written, verified \in BOOLEAN :
       LET failed == run.failed \/ ~(written /\ verified)
           rest == DOMAIN run.plan \ {e}
       IN  /\ account' = IF written THEN [account EXCEPT ![e] = Scoped(run.plan[e])] ELSE account
           /\ run' = [run EXCEPT !.plan = [x \in rest |-> run.plan[x]], !.failed = failed,
                                 !.phase = IF rest = {} THEN Outcome(failed) ELSE "writing"]
  /\ UNCHANGED <<user, invites, late, dead>>

IdentityNext ==
  \/ \E e \in Emails :
       \/ \E role \in Roles : InviteUser(e, role) \/ CreateUser(e, role) \/ UpdateProfile(e, role)
       \/ \E status \in Inactive : SetInactive(e, status)
       \/ SendPasswordSetupLink(e) \/ SetTemporaryPassword(e) \/ ChangePassword(e)
       \/ ReconcileOne(e)
  \/ \E i \in DOMAIN invites :
       \/ ResendInvite(i) \/ RevokeInvite(i) \/ InviteFallsDue(i)
       \/ \E token \in 1 .. MaxLinks :
            AcceptOverdue(i, token) \/ AcceptNewInvite(i, token) \/ AcceptPasswordSetup(i, token)
  \/ ListInvites \/ StartUp
  \/ \E strict \in BOOLEAN : ReconcileStarts(strict)

IdentitySpec == IdentityInit /\ [][IdentityNext]_identityVars

-------------------------------------------------------------------------------
(* Properties. *)

\* Every variable has its type.
IdentityTypeOK ==
  /\ account \in [DOMAIN account -> AuthUsers] /\ DOMAIN account \subseteq Emails
  /\ user \in [DOMAIN user -> Rows] /\ DOMAIN user \subseteq Emails
  /\ invites \in Seq(Invites)
  /\ DOMAIN run = {"phase", "plan", "touched", "failed"}
  /\ run.phase \in {"idle", "writing", "ok", "failed"} /\ run.failed \in BOOLEAN
  /\ run.plan \in [DOMAIN run.plan -> Roles] /\ DOMAIN run.plan \subseteq Emails
  /\ run.touched \subseteq Emails
  /\ late \cup dead \subseteq Nat \X Nat

\* Nobody who was deactivated becomes active again, whatever links were under
\* way or are sent again and whatever password is reset (_accept_password_setup,
\* set_temporary_password).
InactiveStayOut ==
  [][\A e \in DOMAIN user : user[e].status \in Inactive => user'[e].status \in Inactive]_identityVars

\* Through a link that a completed request replaced, revoked or consumed nobody
\* chooses a password, a second time or for the first: not when an invitation is
\* sent again after it expired, nor when a request before was cut off
\* (_get_pending_invite, _mark_invite_accepted, resend_invite).
DeadLinksStayDead == [][late' = {}]_identityVars

\* Whoever was put out stays out: by status, and by the links once handed out.
RevokedStayOut == InactiveStayOut /\ DeadLinksStayDead

\* An accepted invitation has its person: a request that is cut off spends
\* none (_accept_new_invite, _accept_password_setup).
AcceptedAreIn ==
  \A i \in DOMAIN invites : invites[i].status = "accepted" =>
    invites[i].email \in DOMAIN user \cap DOMAIN account

\* A reconciliation that reports ok leaves every person admitted whom nothing
\* else changed while it ran.
ReconciledAreInSync ==
  [][run.phase # "ok" /\ run'.phase = "ok" =>
       \A e \in DOMAIN user \ run.touched : InSync(e)']_identityVars

\* It leaves every person admitted: "Platform users rows are authoritative for
\* tenant and role."
OkLeavesAllInSync ==
  [][run.phase # "ok" /\ run'.phase = "ok" => \A e \in DOMAIN user : InSync(e)']_identityVars
===============================================================================
