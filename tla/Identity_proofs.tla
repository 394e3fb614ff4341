---------------------------- MODULE Identity_proofs ----------------------------
(* Proofs about the people of a tenant, for any number of addresses, invitations
   and links, about the migration of addresses, for any number of people, and about
   the Microsoft account that the tenant has connected. *)
EXTENDS Accounts, GraphConnection, FiniteSetTheorems, SequenceTheorems, TLAPS

\* A row is written for somebody who has an account: every path makes the account
\* first and nothing removes one.
RowsHaveAccounts == DOMAIN user \subseteq DOMAIN account

Decided == {"accepted", "revoked"}

\* A dead link is one of an invitation that was decided, or has a newer one.
Spent(link) ==
  /\ link[1] \in DOMAIN invites
  /\ invites[link[1]].status \in Decided \/ link[2] < invites[link[1]].token

DeadLinksAreSpent == \A link \in dead : Spent(link)

\* While a reconciliation that has not failed is writing, whoever was not touched
\* is in sync or still on its list, with the role of the row.
WritesAreListed ==
  (run.phase = "writing" /\ ~run.failed) =>
    \A e \in DOMAIN user \ run.touched :
      /\ InSync(e) \/ e \in DOMAIN run.plan
      /\ e \in DOMAIN run.plan => run.plan[e] = user[e].role

\* No password was chosen through a dead link.
NoneIsLate == late = {}

IdentityInv ==
  /\ IdentityTypeOK
  /\ RowsHaveAccounts
  /\ DeadLinksAreSpent
  /\ AcceptedAreIn
  /\ WritesAreListed
  /\ NoneIsLate

\* What a step may do.
PeopleStep ==
  /\ \A e \in DOMAIN user : user[e].status \in Inactive => user'[e].status \in Inactive
  /\ run.phase # "ok" /\ run'.phase = "ok" =>
       \A e \in DOMAIN user \ run.touched : InSync(e)'

-------------------------------------------------------------------------------
(* Maps and invitations. *)

LEMMA PutProperties ==
  ASSUME NEW f, NEW e, NEW v
  PROVE  /\ DOMAIN Put(f, e, v) = DOMAIN f \cup {e}
         /\ Put(f, e, v)[e] = v
         /\ \A x \in DOMAIN f : x # e => Put(f, e, v)[x] = f[x]
  BY DEF Put

LEMMA ScopedType ==
  /\ \A role \in Roles : Scoped(role) \in AuthUsers
  /\ [claim |-> NoClaim, markers |-> "admin"] \in AuthUsers
  BY DEF Scoped, AuthUsers

\* Invitations change: each keeps its address, a decided one stays decided, a
\* link is only replaced by a newer one, and those in fresh may be accepted.
InvitesKept(fresh) ==
  /\ invites' \in Seq(Invites)
  /\ DOMAIN invites \subseteq DOMAIN invites'
  /\ \A i \in DOMAIN invites :
       /\ invites'[i].email = invites[i].email
       /\ invites'[i].token >= invites[i].token
       /\ invites[i].status \in Decided => invites'[i].status \in Decided
       /\ invites'[i].status = "accepted" => invites[i].status = "accepted" \/ i \in fresh
  /\ \A i \in DOMAIN invites' \ DOMAIN invites : invites'[i].status = "pending"

\* The invitation i becomes v, a legal change.
LegalChange(i, v, fresh) ==
  /\ v \in Invites /\ v.email = invites[i].email /\ v.token >= invites[i].token
  /\ invites[i].status \in Decided => v.status \in Decided
  /\ v.status = "accepted" => invites[i].status = "accepted" \/ i \in fresh

LEMMA InviteType ==
  ASSUME IdentityInv, NEW i \in DOMAIN invites
  PROVE  /\ invites[i] \in Invites /\ i \in Nat \ {0} /\ invites[i].email \in Emails
         /\ invites[i].token \in 1 .. MaxLinks
<1>1. invites \in Seq(Invites)
    BY DEF IdentityInv, IdentityTypeOK
<1>2. Len(invites) \in Nat /\ DOMAIN invites = 1 .. Len(invites)
    BY <1>1
<1>3. invites[i] \in Invites
    BY <1>1, <1>2, ElementOfSeq
<1>4. QED
    BY <1>2, <1>3 DEF Invites

LEMMA InviteWritten ==
  ASSUME IdentityInv, NEW i \in DOMAIN invites, NEW v, NEW fresh, LegalChange(i, v, fresh),
         invites' = [invites EXCEPT ![i] = v]
  PROVE  InvitesKept(fresh) /\ invites'[i] = v /\ DOMAIN invites' = DOMAIN invites
<1>1. invites \in Seq(Invites) /\ Len(invites) \in Nat /\ DOMAIN invites = 1 .. Len(invites)
  BY DEF IdentityInv, IdentityTypeOK
<1>2. v \in Invites
  BY DEF LegalChange
<1>3. /\ invites' \in Seq(Invites) /\ DOMAIN invites' = DOMAIN invites /\ invites'[i] = v
      /\ \A j \in DOMAIN invites : j # i => invites'[j] = invites[j]
  BY <1>1, <1>2, ExceptSeq
<1>4. \A j \in DOMAIN invites : invites[j].token >= invites[j].token
  BY InviteType
<1>5. QED
  BY <1>3, <1>4 DEF InvitesKept, LegalChange

\* Every invitation changes, legally.
LEMMA InvitesRewritten ==
  ASSUME IdentityInv, NEW fresh, NEW new, DOMAIN new = DOMAIN invites,
         new = [j \in DOMAIN invites |-> new[j]],
         \A j \in DOMAIN invites : LegalChange(j, new[j], fresh),
         invites' = new
  PROVE  InvitesKept(fresh)
<1>1. Len(invites) \in Nat /\ DOMAIN invites = 1 .. Len(invites)
  BY DEF IdentityInv, IdentityTypeOK
<1>2. new \in [1 .. Len(invites) -> Invites]
  BY <1>1 DEF LegalChange
<1>3. new \in Seq(Invites)
  BY <1>1, <1>2, SeqDef
<1>4. QED
  BY <1>3 DEF InvitesKept, LegalChange

LEMMA InvitesSame ==
  ASSUME IdentityInv, invites' = invites, NEW fresh
  PROVE  InvitesKept(fresh)
<1>1. \A i \in DOMAIN invites : invites[i].token >= invites[i].token
  BY InviteType
<1>2. QED
  BY <1>1 DEF InvitesKept, IdentityInv, IdentityTypeOK

LEMMA StatusWritten ==
  ASSUME NEW v \in Invites, NEW status \in {"pending", "accepted", "expired", "revoked"},
         NEW w, w = [v EXCEPT !.status = status]
  PROVE  w \in Invites /\ w.email = v.email /\ w.token = v.token /\ w.status = status
  BY DEF Invites

\* A link that is dead stays so, and AcceptedAreIn holds on, whatever legal
\* changes come with it.
LEMMA LinksKept ==
  ASSUME IdentityInv, NEW fresh, InvitesKept(fresh),
         NEW D \in SUBSET (Nat \X Nat), dead' = dead \cup D, \A link \in D : Spent(link)',
         DOMAIN user \subseteq DOMAIN user', DOMAIN account \subseteq DOMAIN account',
         \A i \in fresh : invites[i].email \in DOMAIN user' \cap DOMAIN account'
  PROVE  DeadLinksAreSpent' /\ AcceptedAreIn'
<1>1. ASSUME NEW link \in dead PROVE Spent(link)'
  <2>1. /\ link \in Nat \X Nat /\ link[2] \in Nat /\ link[1] \in DOMAIN invites
        /\ invites[link[1]].status \in Decided \/ link[2] < invites[link[1]].token
    BY DEF IdentityInv, IdentityTypeOK, DeadLinksAreSpent, Spent
  <2>2. invites[link[1]].token \in Nat
    BY <2>1, InviteType, IdentityAssumption
  <2>3. invites' \in Seq(Invites) /\ link[1] \in DOMAIN invites'
    BY <2>1 DEF InvitesKept
  <2>4. invites'[link[1]].token \in Nat
    <3>1. invites'[link[1]] \in Invites
      BY <2>3, ElementOfSeq
    <3>2. QED
      BY <3>1, IdentityAssumption DEF Invites
  <2>5. QED
    BY <2>1, <2>2, <2>3, <2>4 DEF InvitesKept, Spent
<1>2. DeadLinksAreSpent'
  BY <1>1 DEF DeadLinksAreSpent
<1>3. AcceptedAreIn'
  <2> SUFFICES ASSUME NEW i \in DOMAIN invites', invites'[i].status = "accepted"
               PROVE  invites'[i].email \in DOMAIN user' \cap DOMAIN account'
    BY DEF AcceptedAreIn
  <2>1. i \in DOMAIN invites
    BY DEF InvitesKept
  <2>2. invites'[i].email = invites[i].email
    BY <2>1 DEF InvitesKept
  <2>3. invites[i].status = "accepted" \/ i \in fresh
    BY <2>1 DEF InvitesKept
  <2>4. QED
    BY <2>1, <2>2, <2>3 DEF IdentityInv, AcceptedAreIn
<1>4. QED
  BY <1>2, <1>3

-------------------------------------------------------------------------------
(* Accounts, rows and the reconciliation. *)

PeopleTyped ==
  /\ account \in [DOMAIN account -> AuthUsers] /\ DOMAIN account \subseteq Emails
  /\ user \in [DOMAIN user -> Rows] /\ DOMAIN user \subseteq Emails

RunTyped ==
  /\ DOMAIN run = {"phase", "plan", "touched", "failed"}
  /\ run.phase \in {"idle", "writing", "ok", "failed"} /\ run.failed \in BOOLEAN
  /\ run.plan \in [DOMAIN run.plan -> Roles] /\ DOMAIN run.plan \subseteq Emails
  /\ run.touched \subseteq Emails

\* One person's account and row change, and the run is told unless neither the
\* account nor the role does.
OneChanges(e) ==
  /\ PeopleTyped' /\ RowsHaveAccounts'
  /\ DOMAIN user \subseteq DOMAIN user' /\ DOMAIN account \subseteq DOMAIN account'
  /\ \A x \in DOMAIN user' : x # e => x \in DOMAIN user /\ user'[x] = user[x]
  /\ \A x \in DOMAIN account' : x # e => x \in DOMAIN account /\ account'[x] = account[x]
  /\ \/ Touch(e)
     \/ /\ run' = run /\ account' = account /\ DOMAIN user' = DOMAIN user
        /\ \A x \in DOMAIN user : user'[x].role = user[x].role
  /\ \A x \in DOMAIN user : user[x].status \in Inactive => user'[x].status \in Inactive

LEMMA RunGoesOn ==
  ASSUME IdentityInv, NEW e \in Emails, OneChanges(e)
  PROVE  /\ RunTyped' /\ WritesAreListed' /\ run'.phase = run.phase
<1>1. RunTyped
  BY DEF IdentityInv, IdentityTypeOK, RunTyped
<1>2. CASE Touch(e) /\ run.phase = "writing"
  <2>1. run' = [run EXCEPT !.touched = @ \cup {e}]
    BY <1>2 DEF Touch
  <2>2. /\ DOMAIN run' = DOMAIN run /\ run'.touched = run.touched \cup {e}
        /\ run'.phase = run.phase /\ run'.plan = run.plan /\ run'.failed = run.failed
    BY <1>1, <2>1 DEF RunTyped
  <2>3. RunTyped'
    BY <1>1, <2>2 DEF RunTyped
  <2>4. WritesAreListed'
    <3> SUFFICES ASSUME run.phase = "writing", ~run.failed,
                        NEW x \in DOMAIN user' \ run'.touched
                 PROVE  /\ InSync(x)' \/ x \in DOMAIN run.plan
                        /\ x \in DOMAIN run.plan => run.plan[x] = user'[x].role
      BY <2>2 DEF WritesAreListed
    <3>1. x # e /\ x \notin run.touched
      BY <2>2
    <3>2. x \in DOMAIN user /\ user'[x] = user[x]
      BY <3>1 DEF OneChanges
    <3>3. /\ InSync(x) \/ x \in DOMAIN run.plan
          /\ x \in DOMAIN run.plan => run.plan[x] = user[x].role
      BY <3>1, <3>2 DEF IdentityInv, WritesAreListed
    <3>4. InSync(x) => InSync(x)'
      BY <3>1, <3>2 DEF InSync, OneChanges
    <3>5. QED
      BY <3>2, <3>3, <3>4
  <2>5. QED
    BY <2>2, <2>3, <2>4
<1>3. CASE Touch(e) /\ run.phase # "writing"
  <2>1. run' = run
    BY <1>3 DEF Touch
  <2>2. QED
    BY <1>1, <1>3, <2>1 DEF RunTyped, WritesAreListed
<1>4. CASE ~Touch(e)
  <2>1. /\ run' = run /\ account' = account /\ DOMAIN user' = DOMAIN user
        /\ \A x \in DOMAIN user : user'[x].role = user[x].role
    BY <1>4 DEF OneChanges
  <2>2. \A x \in DOMAIN user : InSync(x) => InSync(x)'
    BY <2>1 DEF InSync
  <2>3. WritesAreListed'
    BY <2>1, <2>2 DEF IdentityInv, WritesAreListed
  <2>4. QED
    BY <1>1, <2>1, <2>3 DEF RunTyped
<1>5. QED
  BY <1>2, <1>3, <1>4

\* A request: it changes one person, invitations legally, and follows links that
\* are not dead.
LEMMA Requested ==
  ASSUME IdentityInv, NEW e \in Emails, OneChanges(e),
         NEW fresh, InvitesKept(fresh),
         \A i \in fresh : invites[i].email \in DOMAIN user' \cap DOMAIN account',
         NEW D \in SUBSET (Nat \X Nat), dead' = dead \cup D, \A link \in D : Spent(link)',
         NEW U \in SUBSET (Nat \X Nat), late' = late \cup (U \cap dead), \A link \in U : ~Spent(link)
  PROVE  IdentityInv' /\ PeopleStep
<1>1. DeadLinksAreSpent' /\ AcceptedAreIn'
  BY LinksKept DEF OneChanges
<1>2. RunTyped' /\ WritesAreListed' /\ run'.phase = run.phase
  BY RunGoesOn
<1>3. PeopleTyped' /\ RowsHaveAccounts'
  BY DEF OneChanges
<1>4. invites' \in Seq(Invites)
  BY DEF InvitesKept
<1>5. (late \cup dead)' \subseteq Nat \X Nat
  BY DEF IdentityInv, IdentityTypeOK
<1>6. IdentityTypeOK'
  BY <1>2, <1>3, <1>4, <1>5 DEF IdentityTypeOK, PeopleTyped, RunTyped
<1>7. NoneIsLate'
  BY DEF IdentityInv, DeadLinksAreSpent, NoneIsLate
<1>8. PeopleStep
  BY <1>2 DEF PeopleStep, OneChanges
<1>9. QED
  BY <1>1, <1>2, <1>3, <1>6, <1>7, <1>8 DEF IdentityInv

LEMMA ExceptIsPut ==
  ASSUME NEW T, NEW f, f \in [DOMAIN f -> T], NEW e \in DOMAIN f, NEW v
  PROVE  [f EXCEPT ![e] = v] = Put(f, e, v)
  BY DEF Put

LEMMA PersonType ==
  ASSUME IdentityInv, NEW e \in DOMAIN user
  PROVE  /\ user[e] \in Rows /\ e \in Emails /\ e \in DOMAIN account
         /\ Scoped(user[e].role) \in AuthUsers
<1>1. user[e] \in Rows /\ e \in Emails /\ e \in DOMAIN account
  BY DEF IdentityInv, IdentityTypeOK, RowsHaveAccounts
<1>2. user[e].role \in Roles
  BY <1>1 DEF Rows
<1>3. QED
  BY <1>1, <1>2, ScopedType

\* An account and a row are written, or one of them, or neither.
LEMMA PersonWritten ==
  ASSUME IdentityInv, NEW e \in Emails, NEW a \in AuthUsers, NEW u \in Rows,
         account' = account \/ account' = Put(account, e, a),
         user' = user \/ user' = Put(user, e, u),
         e \in DOMAIN user /\ user[e].status \in Inactive => u.status \in Inactive,
         e \in DOMAIN user' => e \in DOMAIN account',
         \/ Touch(e)
         \/ run' = run /\ account' = account /\ e \in DOMAIN user /\ u.role = user[e].role
  PROVE  OneChanges(e)
<1>1. /\ account \in [DOMAIN account -> AuthUsers] /\ DOMAIN account \subseteq Emails
      /\ user \in [DOMAIN user -> Rows] /\ DOMAIN user \subseteq Emails
      /\ DOMAIN user \subseteq DOMAIN account
  BY DEF IdentityInv, IdentityTypeOK, RowsHaveAccounts
<1>2. /\ account' \in [DOMAIN account' -> AuthUsers] /\ DOMAIN account' \subseteq Emails
      /\ DOMAIN account \subseteq DOMAIN account' /\ DOMAIN account' \subseteq DOMAIN account \cup {e}
      /\ \A x \in DOMAIN account : x # e => account'[x] = account[x]
  <2>1. CASE account' = account
    BY <1>1, <2>1
  <2>2. CASE account' = Put(account, e, a)
    BY <1>1, <2>2 DEF Put
  <2>3. QED
    BY <2>1, <2>2
<1>3. /\ user' \in [DOMAIN user' -> Rows] /\ DOMAIN user' \subseteq Emails
      /\ DOMAIN user \subseteq DOMAIN user' /\ DOMAIN user' \subseteq DOMAIN user \cup {e}
      /\ \A x \in DOMAIN user : x # e => user'[x] = user[x]
      /\ e \in DOMAIN user => user'[e] = user[e] \/ user'[e] = u
  <2>1. CASE user' = user
    BY <1>1, <2>1
  <2>2. CASE user' = Put(user, e, u)
    BY <1>1, <2>2 DEF Put
  <2>3. QED
    BY <2>1, <2>2
<1>4. PeopleTyped' /\ RowsHaveAccounts'
  BY <1>1, <1>2, <1>3 DEF PeopleTyped, RowsHaveAccounts
<1>5. /\ \A x \in DOMAIN user' : x # e => x \in DOMAIN user /\ user'[x] = user[x]
      /\ \A x \in DOMAIN account' : x # e => x \in DOMAIN account /\ account'[x] = account[x]
  BY <1>2, <1>3
<1>6. \/ Touch(e)
      \/ /\ run' = run /\ account' = account /\ DOMAIN user' = DOMAIN user
         /\ \A x \in DOMAIN user : user'[x].role = user[x].role
  BY <1>3
<1>7. \A x \in DOMAIN user : user[x].status \in Inactive => user'[x].status \in Inactive
  BY <1>3
<1>8. QED
  BY <1>2, <1>3, <1>4, <1>5, <1>6, <1>7 DEF OneChanges

\* Nobody's account or row changes.
LEMMA NobodyWritten ==
  ASSUME IdentityInv, UNCHANGED <<account, user, run>>, NEW e
  PROVE  OneChanges(e)
  BY DEF IdentityInv, IdentityTypeOK, RowsHaveAccounts, PeopleTyped, OneChanges

-------------------------------------------------------------------------------
(* The operations. *)

\* Operations on invitations alone.
LEMMA InvitesOnly ==
  ASSUME IdentityInv, UNCHANGED <<account, user, run, late>>, InvitesKept({}),
         NEW D \in SUBSET (Nat \X Nat), dead' = dead \cup D, \A link \in D : Spent(link)'
  PROVE  IdentityInv' /\ PeopleStep
<1>1. OneChanges(AdminEmail) /\ AdminEmail \in Emails
  BY NobodyWritten, IdentityAssumption
<1>2. late' = late \cup ({} \cap dead) /\ {} \in SUBSET (Nat \X Nat)
  OBVIOUS
<1>3. QED
  BY <1>1, <1>2, Requested

LEMMA InvitesAlone ==
  ASSUME IdentityInv, UNCHANGED <<account, user, run, late, dead>>, InvitesKept({})
  PROVE  IdentityInv' /\ PeopleStep
<1> DEFINE D == {link \in Nat \X Nat : FALSE}
<1>1. D \in SUBSET (Nat \X Nat) /\ dead' = dead \cup D /\ \A link \in D : Spent(link)'
  OBVIOUS
<1> HIDE DEF D
<1>2. QED
  BY <1>1, InvitesOnly

LEMMA Appended ==
  ASSUME IdentityInv, NEW e \in Emails, NEW role \in Roles,
         NEW purpose \in {"invite", "password_setup"}, NEW kept \in Seq(Invites),
         DOMAIN kept = DOMAIN invites,
         \A i \in DOMAIN invites : LegalChange(i, kept[i], {}),
         invites' = Append(kept, NewInvite(e, role, purpose))
  PROVE  /\ InvitesKept({})
         /\ \A i \in DOMAIN invites : i \in DOMAIN invites' /\ invites'[i] = kept[i]
<1> DEFINE new == NewInvite(e, role, purpose)
<1>1. new \in Invites /\ new.status = "pending"
  BY IdentityAssumption DEF NewInvite, Invites
<1> HIDE DEF new
<1>2. Len(kept) \in Nat /\ DOMAIN kept = 1 .. Len(kept)
  OBVIOUS
<1>3. /\ invites' \in Seq(Invites) /\ DOMAIN invites' = 1 .. Len(kept) + 1
      /\ \A i \in 1 .. Len(kept) : invites'[i] = kept[i]
      /\ invites'[Len(kept) + 1] = new
  BY <1>1, AppendProperties DEF new
<1>4. \A i \in DOMAIN invites : i \in DOMAIN invites' /\ invites'[i] = kept[i]
  BY <1>2, <1>3
<1>5. \A i \in DOMAIN invites' \ DOMAIN invites : invites'[i] = new
  BY <1>2, <1>3
<1>6. QED
  BY <1>1, <1>3, <1>4, <1>5 DEF InvitesKept, LegalChange

\* Revoking the pending invitations of a person.
LEMMA Revoking ==
  ASSUME IdentityInv, NEW e, NEW fresh
  PROVE  /\ Revoked(e) \in Seq(Invites) /\ DOMAIN Revoked(e) = DOMAIN invites
         /\ Revoked(e) = [j \in DOMAIN invites |-> Revoked(e)[j]]
         /\ \A i \in DOMAIN invites : LegalChange(i, Revoked(e)[i], fresh)
         /\ Outstanding(e) \in SUBSET (Nat \X Nat)
         /\ \A link \in Outstanding(e) :
              link[1] \in DOMAIN invites /\ Revoked(e)[link[1]].status \in Decided
<1>1. DOMAIN Revoked(e) = DOMAIN invites
      /\ Revoked(e) = [j \in DOMAIN invites |-> Revoked(e)[j]]
  BY DEF Revoked
<1>2. \A i \in DOMAIN invites : LegalChange(i, Revoked(e)[i], fresh)
  <2> SUFFICES ASSUME NEW i \in DOMAIN invites PROVE LegalChange(i, Revoked(e)[i], fresh)
    OBVIOUS
  <2>1. invites[i] \in Invites /\ invites[i].token \in Nat
    BY InviteType, IdentityAssumption
  <2>2. CASE i \in Pending(e)
    <3>1. Revoked(e)[i] = [invites[i] EXCEPT !.status = "revoked"]
      BY <2>2 DEF Revoked
    <3>2. /\ Revoked(e)[i] \in Invites /\ Revoked(e)[i].email = invites[i].email
          /\ Revoked(e)[i].token = invites[i].token /\ Revoked(e)[i].status = "revoked"
      BY <2>1, <3>1, StatusWritten
    <3>3. QED
      BY <2>1, <3>2 DEF LegalChange, Decided
  <2>3. CASE i \notin Pending(e)
    BY <2>1, <2>3 DEF LegalChange, Revoked
  <2>4. QED
    BY <2>2, <2>3
<1>3. Revoked(e) \in Seq(Invites)
  <2>1. Len(invites) \in Nat /\ DOMAIN invites = 1 .. Len(invites)
    BY DEF IdentityInv, IdentityTypeOK
  <2>2. Revoked(e) \in [1 .. Len(invites) -> Invites]
    BY <1>1, <1>2, <2>1 DEF LegalChange
  <2>3. QED
    BY <2>1, <2>2, SeqDef
<1>4. ASSUME NEW link \in Outstanding(e)
      PROVE  /\ link \in Nat \X Nat /\ link[1] \in DOMAIN invites
             /\ Revoked(e)[link[1]].status \in Decided
  <2>1. PICK i \in Pending(e) : link = <<i, invites[i].token>>
    BY DEF Outstanding
  <2>2. i \in DOMAIN invites /\ invites[i] \in Invites /\ i \in Nat /\ invites[i].token \in Nat
    BY InviteType, IdentityAssumption DEF Pending
  <2>3. Revoked(e)[i] = [invites[i] EXCEPT !.status = "revoked"]
    BY <2>2 DEF Revoked
  <2>4. QED
    BY <2>1, <2>2, <2>3, StatusWritten DEF Decided
<1>5. QED
  BY <1>1, <1>2, <1>3, <1>4

LEMMA Unchanging ==
  ASSUME IdentityInv, NEW i \in DOMAIN invites, NEW fresh
  PROVE  LegalChange(i, invites[i], fresh)
<1>1. invites[i] \in Invites /\ invites[i].token \in Nat
  BY InviteType, IdentityAssumption
<1>2. QED
  BY <1>1 DEF LegalChange

LEMMA InvitingKeeps ==
  ASSUME IdentityInv, NEW e \in Emails, NEW role \in Roles, InviteUser(e, role)
  PROVE  IdentityInv' /\ PeopleStep
<1>1. /\ invites' = Append(invites, NewInvite(e, role, "invite"))
      /\ UNCHANGED <<account, user, run, late, dead>>
  BY DEF InviteUser
<1>2. invites \in Seq(Invites) /\ \A i \in DOMAIN invites : LegalChange(i, invites[i], {})
  BY Unchanging DEF IdentityInv, IdentityTypeOK
<1>3. InvitesKept({})
  BY <1>1, <1>2, Appended
<1>4. QED
  BY <1>1, <1>3, InvitesAlone

LEMMA SetupLinkKeeps ==
  ASSUME IdentityInv, NEW e \in Emails, SendPasswordSetupLink(e)
  PROVE  IdentityInv' /\ PeopleStep
<1>1. e \in DOMAIN user /\ UNCHANGED <<account, user, run, late>>
  BY DEF SendPasswordSetupLink
<1>2. user[e].role \in Roles
  BY <1>1, PersonType DEF Rows
<1> DEFINE new == NewInvite(e, user[e].role, "password_setup")
<1>3. \/ invites' = Revoked(e) /\ dead' = dead
      \/ invites' = Append(Revoked(e), new) /\ dead' = dead \cup Outstanding(e)
  BY DEF SendPasswordSetupLink
<1>4. /\ Revoked(e) \in Seq(Invites) /\ DOMAIN Revoked(e) = DOMAIN invites
      /\ Revoked(e) = [j \in DOMAIN invites |-> Revoked(e)[j]]
      /\ \A i \in DOMAIN invites : LegalChange(i, Revoked(e)[i], {})
      /\ Outstanding(e) \in SUBSET (Nat \X Nat)
      /\ \A link \in Outstanding(e) :
           link[1] \in DOMAIN invites /\ Revoked(e)[link[1]].status \in Decided
  BY Revoking
<1>5. CASE invites' = Revoked(e) /\ dead' = dead
  <2>1. InvitesKept({})
    BY <1>4, <1>5, InvitesRewritten
  <2>2. QED
    BY <1>1, <1>5, <2>1, InvitesAlone
<1>6. CASE invites' = Append(Revoked(e), new) /\ dead' = dead \cup Outstanding(e)
  <2>1. /\ InvitesKept({})
        /\ \A i \in DOMAIN invites : i \in DOMAIN invites' /\ invites'[i] = Revoked(e)[i]
    BY <1>2, <1>4, <1>6, Appended
  <2>2. \A link \in Outstanding(e) : Spent(link)'
    BY <1>4, <2>1 DEF Spent
  <2>3. QED
    BY <1>1, <1>4, <1>6, <2>1, <2>2, InvitesOnly
<1>7. QED
  BY <1>3, <1>5, <1>6

\* An invitation that expires.
LEMMA Expiring ==
  ASSUME IdentityInv, NEW i \in DOMAIN invites, NEW fresh
  PROVE  /\ Expired(i) = [invites EXCEPT ![i] = Expired(i)[i]]
         /\ LegalChange(i, Expired(i)[i], fresh)
<1>1. /\ invites[i] \in Invites /\ invites[i].token \in Nat
      /\ invites \in Seq(Invites)
  BY InviteType, IdentityAssumption DEF IdentityInv, IdentityTypeOK
<1>2. CASE invites[i].status = "pending" /\ invites[i].due
  <2> DEFINE v == [invites[i] EXCEPT !.status = "expired"]
  <2>1. Expired(i) = [invites EXCEPT ![i] = v]
    BY <1>2 DEF Expired
  <2>2. v \in Invites /\ v.email = invites[i].email /\ v.token = invites[i].token
        /\ v.status = "expired"
    BY <1>1, StatusWritten
  <2> HIDE DEF v
  <2>3. Expired(i)[i] = v
    BY <2>1, <1>1
  <2>4. LegalChange(i, v, fresh)
    BY <1>1, <1>2, <2>2 DEF LegalChange, Decided
  <2>5. QED
    BY <2>1, <2>3, <2>4
<1>3. CASE ~(invites[i].status = "pending" /\ invites[i].due)
  <2>1. Expired(i) = invites
    BY <1>3 DEF Expired
  <2>2. invites = [invites EXCEPT ![i] = invites[i]]
    BY <1>1
  <2>3. QED
    BY <2>1, <2>2, Unchanging
<1>4. QED
  BY <1>2, <1>3

LEMMA ListingKeeps ==
  ASSUME IdentityInv, ListInvites
  PROVE  IdentityInv' /\ PeopleStep
<1> DEFINE new == [i \in DOMAIN invites |-> Expired(i)[i]]
<1>1. invites' = new /\ UNCHANGED <<account, user, run, late, dead>>
  BY DEF ListInvites
<1>2. /\ DOMAIN new = DOMAIN invites /\ new = [i \in DOMAIN invites |-> new[i]]
      /\ \A i \in DOMAIN invites : LegalChange(i, new[i], {})
  BY Expiring
<1> HIDE DEF new
<1>3. InvitesKept({})
  BY <1>1, <1>2, InvitesRewritten
<1>4. QED
  BY <1>1, <1>3, InvitesAlone

LEMMA OneInviteKeeps ==
  ASSUME IdentityInv, NEW i \in DOMAIN invites, NEW token \in 1 .. MaxLinks,
         ResendInvite(i) \/ RevokeInvite(i) \/ InviteFallsDue(i) \/ AcceptOverdue(i, token)
  PROVE  IdentityInv' /\ PeopleStep
<1>1. /\ invites[i] \in Invites /\ invites[i].token \in Nat /\ i \in Nat
      /\ UNCHANGED <<account, user, run, late>>
  BY InviteType, IdentityAssumption
     DEF ResendInvite, RevokeInvite, InviteFallsDue, AcceptOverdue
<1>2. SUFFICES ASSUME NEW v, LegalChange(i, v, {}), invites' = [invites EXCEPT ![i] = v],
                      \/ dead' = dead
                      \/ /\ dead' = dead \cup {<<i, invites[i].token>>}
                         /\ v.status \in Decided \/ v.token > invites[i].token
               PROVE  IdentityInv' /\ PeopleStep
  <2>1. CASE ResendInvite(i) /\ Pending(invites[i].email) \ {i} = {}
    <3> DEFINE v == [invites[i] EXCEPT !.token = @ + 1, !.status = "pending", !.due = FALSE]
    <3>1. /\ invites' = [invites EXCEPT ![i] = v]
          /\ dead' = dead \cup {<<i, invites[i].token>>}
          /\ invites[i].status \notin Decided /\ invites[i].token < MaxLinks
      BY <2>1, <1>1 DEF ResendInvite, Decided
    <3>a. invites[i].token + 1 \in 1 .. MaxLinks
      BY <1>1, <3>1, IdentityAssumption DEF Invites
    <3>2. v \in Invites /\ v.email = invites[i].email /\ v.token = invites[i].token + 1
          /\ v.status = "pending"
      BY <1>1, <3>a DEF Invites
    <3> HIDE DEF v
    <3>3. LegalChange(i, v, {})
      BY <1>1, <3>1, <3>2 DEF LegalChange
    <3>4. v.token > invites[i].token
      BY <1>1, <3>2
    <3>5. QED
      BY <1>2, <3>1, <3>3, <3>4
  <2>2. CASE (ResendInvite(i) /\ Pending(invites[i].email) \ {i} # {}) \/ AcceptOverdue(i, token)
    <3>1. invites' = Expired(i) /\ dead' = dead
      BY <2>2 DEF ResendInvite, AcceptOverdue
    <3>2. QED
      BY <1>2, <3>1, Expiring
  <2>3. CASE RevokeInvite(i)
    <3> DEFINE v == [invites[i] EXCEPT !.status = "revoked"]
    <3>1. /\ invites' = [invites EXCEPT ![i] = v]
          /\ dead' = dead \cup {<<i, invites[i].token>>}
      BY <2>3 DEF RevokeInvite
    <3>2. v \in Invites /\ v.email = invites[i].email /\ v.token = invites[i].token
          /\ v.status = "revoked"
      BY <1>1, StatusWritten
    <3> HIDE DEF v
    <3>3. LegalChange(i, v, {}) /\ v.status \in Decided
      BY <1>1, <3>2 DEF LegalChange, Decided
    <3>4. QED
      BY <1>2, <3>1, <3>3
  <2>4. CASE InviteFallsDue(i)
    <3> DEFINE v == [invites[i] EXCEPT !.due = TRUE]
    <3>1. invites' = [invites EXCEPT ![i] = v] /\ dead' = dead /\ invites[i].status = "pending"
      BY <2>4 DEF InviteFallsDue
    <3>2. v \in Invites /\ v.email = invites[i].email /\ v.token = invites[i].token
          /\ v.status = invites[i].status
      BY <1>1 DEF Invites
    <3> HIDE DEF v
    <3>3. LegalChange(i, v, {})
      BY <1>1, <3>1, <3>2 DEF LegalChange, Decided
    <3>4. QED
      BY <1>2, <3>1, <3>3
  <2>5. QED
    BY <2>1, <2>2, <2>3, <2>4
<1>3. InvitesKept({}) /\ invites'[i] = v /\ DOMAIN invites' = DOMAIN invites
  BY <1>2, InviteWritten
<1>4. CASE dead' = dead
  BY <1>1, <1>3, <1>4, InvitesAlone
<1>5. CASE /\ dead' = dead \cup {<<i, invites[i].token>>}
           /\ v.status \in Decided \/ v.token > invites[i].token
  <2> DEFINE D == {<<i, invites[i].token>>}
  <2>1. D \in SUBSET (Nat \X Nat) /\ dead' = dead \cup D
    BY <1>1, <1>5
  <2>2. v.token \in Nat
    BY <1>2, IdentityAssumption DEF LegalChange, Invites
  <2>3. \A link \in D : Spent(link)'
    BY <1>1, <1>3, <1>5, <2>2 DEF Spent
  <2> HIDE DEF D
  <2>4. QED
    BY <1>1, <1>3, <2>1, <2>3, InvitesOnly
<1>6. QED
  BY <1>2, <1>4, <1>5

\* The calls of an acceptance, cut off before the mark or not.
LEMMA Accepting ==
  ASSUME IdentityInv, NEW i \in DOMAIN invites, NEW token \in 1 .. MaxLinks, Holds(i, token),
         OneChanges(invites[i].email), Follow(i, token),
         \/ invites' = invites /\ dead' = dead
         \/ /\ invites' = Accepted(i) /\ dead' = dead \cup {<<i, token>>}
            /\ invites[i].email \in DOMAIN user'
  PROVE  IdentityInv' /\ PeopleStep
<1> DEFINE U == {<<i, token>>}
           None == {link \in Nat \X Nat : FALSE}
<1>1. /\ invites[i] \in Invites /\ invites[i].token \in Nat /\ i \in Nat
      /\ token \in Nat /\ invites[i].email \in Emails
  BY InviteType, IdentityAssumption
<1>2. U \in SUBSET (Nat \X Nat) /\ late' = late \cup (U \cap dead)
  BY <1>1 DEF Follow
<1>3. \A link \in U : ~Spent(link)
  BY <1>1 DEF Spent, Holds, Decided
<1>4. invites[i].email \in DOMAIN user' => invites[i].email \in DOMAIN account'
  BY DEF OneChanges, RowsHaveAccounts
<1>5. CASE invites' = invites /\ dead' = dead
  <2>1. InvitesKept({}) /\ \A j \in {} : invites[j].email \in DOMAIN user' \cap DOMAIN account'
    BY <1>5, InvitesSame
  <2>2. None \in SUBSET (Nat \X Nat) /\ dead' = dead \cup None
        /\ \A link \in None : Spent(link)'
    BY <1>5
  <2> HIDE DEF U, None
  <2>3. QED
    BY <1>1, <1>2, <1>3, <2>1, <2>2, Requested
<1>6. CASE /\ invites' = Accepted(i) /\ dead' = dead \cup {<<i, token>>}
           /\ invites[i].email \in DOMAIN user'
  <2> DEFINE v == [invites[i] EXCEPT !.status = "accepted"]
  <2>1. invites' = [invites EXCEPT ![i] = v]
    BY <1>6 DEF Accepted
  <2>2. v \in Invites /\ v.email = invites[i].email /\ v.token = invites[i].token
        /\ v.status = "accepted"
    BY <1>1, StatusWritten
  <2> HIDE DEF v
  <2>3. LegalChange(i, v, {i})
    BY <1>1, <2>2 DEF LegalChange, Decided
  <2>4. InvitesKept({i}) /\ invites'[i] = v /\ DOMAIN invites' = DOMAIN invites
    BY <2>1, <2>3, InviteWritten
  <2>5. \A j \in {i} : invites[j].email \in DOMAIN user' \cap DOMAIN account'
    BY <1>4, <1>6
  <2>6. U \in SUBSET (Nat \X Nat) /\ dead' = dead \cup U /\ \A link \in U : Spent(link)'
    BY <1>2, <1>6, <2>2, <2>4 DEF Spent, Decided
  <2> HIDE DEF U
  <2>7. QED
    BY <1>1, <1>2, <1>3, <2>4, <2>5, <2>6, Requested
<1>7. QED
  BY <1>5, <1>6

LEMMA NewInviteKeeps ==
  ASSUME IdentityInv, NEW i \in DOMAIN invites, NEW token \in 1 .. MaxLinks,
         AcceptNewInvite(i, token)
  PROVE  IdentityInv' /\ PeopleStep
<1> DEFINE e == invites[i].email
           a == Scoped(invites[i].role)
           u == [role |-> invites[i].role, status |-> "active", mustChange |-> FALSE]
<1>1. PICK calls \in 1 .. 3 :
        /\ account' = Put(account, e, a)
        /\ user' = IF calls >= 2 THEN Put(user, e, u) ELSE user
        /\ invites' = IF calls >= MarkAfter THEN Accepted(i) ELSE invites
        /\ dead' = IF calls = 3 THEN dead \cup {<<i, token>>} ELSE dead
  BY DEF AcceptNewInvite
<1>2. /\ Holds(i, token) /\ Follow(i, token) /\ Touch(e)
      /\ e \notin DOMAIN user
  BY DEF AcceptNewInvite
<1>3. invites[i] \in Invites /\ e \in Emails /\ invites[i].role \in Roles
  BY InviteType DEF Invites
<1>4. a \in AuthUsers
  BY <1>3, ScopedType
<1>5. u \in Rows
  BY <1>3 DEF Rows, Statuses
<1> HIDE DEF a, u
<1>6. e \in DOMAIN account'
  BY <1>1 DEF Put
<1>7. OneChanges(e)
  BY <1>1, <1>2, <1>3, <1>4, <1>5, <1>6, PersonWritten
<1>8. \/ invites' = invites /\ dead' = dead
      \/ /\ invites' = Accepted(i) /\ dead' = dead \cup {<<i, token>>}
         /\ e \in DOMAIN user'
  BY <1>1 DEF MarkAfter, Put
<1>9. QED
  BY <1>2, <1>7, <1>8, Accepting

LEMMA SetupKeeps ==
  ASSUME IdentityInv, NEW i \in DOMAIN invites, NEW token \in 1 .. MaxLinks,
         AcceptPasswordSetup(i, token)
  PROVE  IdentityInv' /\ PeopleStep
<1> DEFINE e == invites[i].email
           a == Scoped(user[e].role)
           u == [user[e] EXCEPT !.status = "active", !.mustChange = FALSE]
<1>1. PICK calls \in 1 .. 3 :
        /\ account' = [account EXCEPT ![e] = a]
        /\ user' = IF calls >= 2
                   THEN [user EXCEPT ![e].status = "active", ![e].mustChange = FALSE]
                   ELSE user
        /\ invites' = IF calls >= MarkAfter THEN Accepted(i) ELSE invites
        /\ dead' = IF calls = 3 THEN dead \cup {<<i, token>>} ELSE dead
  BY DEF AcceptPasswordSetup
<1>2. /\ Holds(i, token) /\ Follow(i, token) /\ Touch(e)
      /\ e \in DOMAIN user /\ user[e].status \notin Inactive
  BY DEF AcceptPasswordSetup, MaySetUp
<1>3. user[e] \in Rows /\ e \in Emails /\ e \in DOMAIN account /\ a \in AuthUsers
  BY <1>2, PersonType
<1>4. u \in Rows
  BY <1>3 DEF Rows, Statuses
<1>5. /\ user \in [DOMAIN user -> Rows] /\ account \in [DOMAIN account -> AuthUsers]
  BY DEF IdentityInv, IdentityTypeOK
<1>6. user' = user \/ user' = [user EXCEPT ![e] = u]
  BY <1>1, <1>2, <1>3, <1>5
<1> HIDE DEF a, u
<1>7. account' = Put(account, e, a)
  BY <1>1, <1>3, <1>5, ExceptIsPut
<1>8. user' = user \/ user' = Put(user, e, u)
  BY <1>2, <1>5, <1>6, ExceptIsPut
<1>9. e \in DOMAIN account' /\ e \in DOMAIN user'
  BY <1>2, <1>7, <1>8 DEF Put
<1>10. OneChanges(e)
  BY <1>2, <1>3, <1>4, <1>7, <1>8, <1>9, PersonWritten
<1>11. \/ invites' = invites /\ dead' = dead
       \/ invites' = Accepted(i) /\ dead' = dead \cup {<<i, token>>}
  BY <1>1 DEF MarkAfter
<1>12. QED
  BY <1>2, <1>9, <1>10, <1>11, Accepting

\* Operations on one person without invitations.
LEMMA PersonAlone ==
  ASSUME IdentityInv, NEW e \in Emails, OneChanges(e), UNCHANGED <<invites, late, dead>>
  PROVE  IdentityInv' /\ PeopleStep
<1> DEFINE D == {link \in Nat \X Nat : FALSE}
<1>1. InvitesKept({}) /\ \A j \in {} : invites[j].email \in DOMAIN user' \cap DOMAIN account'
  BY InvitesSame
<1>2. /\ D \in SUBSET (Nat \X Nat) /\ dead' = dead \cup D /\ late' = late \cup (D \cap dead)
      /\ \A link \in D : Spent(link)' /\ ~Spent(link)
  OBVIOUS
<1> HIDE DEF D
<1>3. QED
  BY <1>1, <1>2, Requested

LEMMA PersonKeeps ==
  ASSUME IdentityInv, NEW e \in Emails, NEW role \in Roles,
         CreateUser(e, role) \/ UpdateProfile(e, role) \/ ChangePassword(e)
  PROVE  IdentityInv' /\ PeopleStep
<1>1. CASE CreateUser(e, role)
  <2> DEFINE a == Scoped(role)
             u == [role |-> role, status |-> "pending", mustChange |-> TRUE]
  <2>1. /\ account' = Put(account, e, a)
        /\ user' = user \/ user' = Put(user, e, u)
        /\ Touch(e) /\ UNCHANGED <<invites, late, dead>> /\ e \notin DOMAIN user
    BY <1>1 DEF CreateUser
  <2>2. a \in AuthUsers /\ u \in Rows
    BY ScopedType DEF Rows, Statuses
  <2> HIDE DEF a, u
  <2>3. e \in DOMAIN account'
    BY <2>1 DEF Put
  <2>4. OneChanges(e)
    BY <2>1, <2>2, <2>3, PersonWritten
  <2>5. QED
    BY <2>1, <2>4, PersonAlone
<1>2. CASE UpdateProfile(e, role)
  <2> DEFINE a == Scoped(role)
             u == [user[e] EXCEPT !.role = role]
  <2>1. /\ account' = account \/ account' = [account EXCEPT ![e] = a]
        /\ user' = user \/ user' = [user EXCEPT ![e].role = role]
        /\ Touch(e) /\ UNCHANGED <<invites, late, dead>> /\ e \in DOMAIN user
    BY <1>2 DEF UpdateProfile
  <2>2. user[e] \in Rows /\ e \in DOMAIN account
    BY <2>1, PersonType
  <2>3. a \in AuthUsers /\ u \in Rows /\ u.status = user[e].status
    BY <2>2, ScopedType DEF Rows
  <2>4. /\ user \in [DOMAIN user -> Rows] /\ account \in [DOMAIN account -> AuthUsers]
    BY DEF IdentityInv, IdentityTypeOK
  <2>5. user' = user \/ user' = [user EXCEPT ![e] = u]
    BY <2>1
  <2> HIDE DEF a, u
  <2>6. account' = account \/ account' = Put(account, e, a)
    <3>1. [account EXCEPT ![e] = a] = Put(account, e, a)
      BY <2>2, <2>4, ExceptIsPut
    <3>2. QED
      BY <2>1, <3>1
  <2>7. user' = user \/ user' = Put(user, e, u)
    <3>1. [user EXCEPT ![e] = u] = Put(user, e, u)
      BY <2>1, <2>4 DEF Put
    <3>2. QED
      BY <2>5, <3>1
  <2>8. e \in DOMAIN account'
    BY <2>2, <2>6 DEF Put
  <2>9. OneChanges(e)
    BY <2>1, <2>3, <2>6, <2>7, <2>8, PersonWritten
  <2>10. QED
    BY <2>1, <2>9, PersonAlone
<1>3. CASE ChangePassword(e)
  <2> DEFINE u == [user[e] EXCEPT !.status = "active", !.mustChange = FALSE]
             a == Scoped(user[e].role)
  <2>1. /\ user' = [user EXCEPT ![e].status = "active", ![e].mustChange = FALSE]
        /\ UNCHANGED <<account, invites, run, late, dead>>
        /\ e \in DOMAIN user /\ user[e].status \notin Inactive
    BY <1>3 DEF ChangePassword
  <2>2. user[e] \in Rows /\ e \in DOMAIN account /\ a \in AuthUsers
    BY <2>1, PersonType
  <2>3. u \in Rows /\ u.role = user[e].role
    BY <2>2 DEF Rows, Statuses
  <2>4. user \in [DOMAIN user -> Rows]
    BY DEF IdentityInv, IdentityTypeOK
  <2>5. user' = [user EXCEPT ![e] = u]
    BY <2>1, <2>4
  <2> HIDE DEF a, u
  <2>6. user' = Put(user, e, u)
    BY <2>1, <2>4, <2>5, ExceptIsPut
  <2>7. OneChanges(e)
    BY <2>1, <2>2, <2>3, <2>6, PersonWritten
  <2>8. QED
    BY <2>1, <2>7, PersonAlone
<1>4. QED
  BY <1>1, <1>2, <1>3

LEMMA InactiveKeeps ==
  ASSUME IdentityInv, NEW e \in Emails, NEW status \in Inactive, SetInactive(e, status)
  PROVE  IdentityInv' /\ PeopleStep
<1> DEFINE u == [user[e] EXCEPT !.status = status]
           a == Scoped(user[e].role)
<1>1. /\ user' = [user EXCEPT ![e].status = status] /\ e \in DOMAIN user
      /\ UNCHANGED <<account, invites, run, late, dead>>
  BY DEF SetInactive
<1>2. user[e] \in Rows /\ e \in DOMAIN account /\ a \in AuthUsers
  BY <1>1, PersonType
<1>3. u \in Rows /\ u.role = user[e].role /\ u.status \in Inactive
  BY <1>2 DEF Rows, Statuses, Inactive
<1>4. user \in [DOMAIN user -> Rows]
  BY DEF IdentityInv, IdentityTypeOK
<1>5. user' = [user EXCEPT ![e] = u]
  BY <1>1
<1> HIDE DEF a, u
<1>6. user' = Put(user, e, u)
  BY <1>1, <1>4, <1>5, ExceptIsPut
<1>7. OneChanges(e)
  BY <1>1, <1>2, <1>3, <1>6, PersonWritten
<1>8. QED
  BY <1>1, <1>7, PersonAlone

LEMMA PasswordKeeps ==
  ASSUME IdentityInv, NEW e \in Emails, SetTemporaryPassword(e)
  PROVE  IdentityInv' /\ PeopleStep
<1> DEFINE u == [user[e] EXCEPT !.status = "active", !.mustChange = TRUE]
           a == Scoped(user[e].role)
           None == {link \in Nat \X Nat : FALSE}
<1>1. PICK calls \in 1 .. 3 :
        /\ invites' = IF calls >= 2 THEN Revoked(e) ELSE invites
        /\ user' = IF calls = 3
                   THEN [user EXCEPT ![e].status = "active", ![e].mustChange = TRUE] ELSE user
        /\ dead' = IF calls = 3 THEN dead \cup Outstanding(e) ELSE dead
  BY DEF SetTemporaryPassword
<1>2. /\ account' = [account EXCEPT ![e] = a] /\ Touch(e) /\ late' = late
      /\ e \in DOMAIN user /\ user[e].status \notin Inactive
  BY DEF SetTemporaryPassword
<1>3. user[e] \in Rows /\ e \in DOMAIN account /\ a \in AuthUsers
  BY <1>2, PersonType
<1>4. u \in Rows
  BY <1>3 DEF Rows, Statuses
<1>5. user \in [DOMAIN user -> Rows] /\ account \in [DOMAIN account -> AuthUsers]
  BY DEF IdentityInv, IdentityTypeOK
<1>6. user' = user \/ user' = [user EXCEPT ![e] = u]
  BY <1>1, <1>2, <1>3, <1>5
<1> HIDE DEF a, u
<1>7. account' = Put(account, e, a) /\ (user' = user \/ user' = Put(user, e, u))
  BY <1>2, <1>3, <1>5, <1>6, ExceptIsPut
<1>8. e \in DOMAIN account'
  BY <1>7 DEF Put
<1>9. OneChanges(e)
  BY <1>2, <1>3, <1>4, <1>7, <1>8, PersonWritten
<1>10. /\ Revoked(e) \in Seq(Invites) /\ DOMAIN Revoked(e) = DOMAIN invites
       /\ Revoked(e) = [j \in DOMAIN invites |-> Revoked(e)[j]]
       /\ \A i \in DOMAIN invites : LegalChange(i, Revoked(e)[i], {})
       /\ Outstanding(e) \in SUBSET (Nat \X Nat)
       /\ \A link \in Outstanding(e) :
            link[1] \in DOMAIN invites /\ Revoked(e)[link[1]].status \in Decided
  BY Revoking
<1>11. InvitesKept({}) /\ \A j \in {} : invites[j].email \in DOMAIN user' \cap DOMAIN account'
  <2>1. CASE invites' = invites
    BY <2>1, InvitesSame
  <2>2. CASE invites' = Revoked(e)
    BY <1>10, <2>2, InvitesRewritten
  <2>3. QED
    BY <1>1, <2>1, <2>2
<1>12. /\ None \in SUBSET (Nat \X Nat) /\ late' = late \cup (None \cap dead)
       /\ \A link \in None : Spent(link)' /\ ~Spent(link)
  BY <1>2
<1>13. CASE calls # 3
  <2>1. dead' = dead \cup None
    BY <1>1, <1>13
  <2> HIDE DEF None
  <2>2. QED
    BY <1>9, <1>11, <1>12, <2>1, Requested
<1>14. CASE calls = 3
  <2>1. dead' = dead \cup Outstanding(e) /\ invites' = Revoked(e)
    BY <1>1, <1>14
  <2>2. \A link \in Outstanding(e) : Spent(link)'
    BY <1>10, <2>1 DEF Spent
  <2> HIDE DEF None
  <2>3. QED
    BY <1>9, <1>10, <1>11, <1>12, <2>1, <2>2, Requested
<1>15. QED
  BY <1>13, <1>14

LEMMA StartUpKeeps ==
  ASSUME IdentityInv, StartUp
  PROVE  IdentityInv' /\ PeopleStep
<1> DEFINE a == [claim |-> NoClaim, markers |-> "admin"]
<1>1. /\ account' = Put(account, AdminEmail, a) /\ Touch(AdminEmail)
      /\ UNCHANGED <<user, invites, late, dead>>
  BY DEF StartUp
<1>2. a \in AuthUsers
  BY ScopedType
<1> HIDE DEF a
<1>3. /\ account \in [DOMAIN account -> AuthUsers] /\ DOMAIN account \subseteq Emails
      /\ user \in [DOMAIN user -> Rows] /\ DOMAIN user \subseteq Emails
      /\ DOMAIN user \subseteq DOMAIN account
  BY DEF IdentityInv, IdentityTypeOK, RowsHaveAccounts
<1>4. /\ account' \in [DOMAIN account' -> AuthUsers] /\ DOMAIN account' \subseteq Emails
      /\ DOMAIN account \subseteq DOMAIN account'
      /\ \A x \in DOMAIN account' : x # AdminEmail => x \in DOMAIN account /\ account'[x] = account[x]
  BY <1>1, <1>2, <1>3, IdentityAssumption DEF Put
<1>5. OneChanges(AdminEmail)
  BY <1>1, <1>3, <1>4 DEF OneChanges, PeopleTyped, RowsHaveAccounts
<1>6. QED
  BY <1>1, <1>5, IdentityAssumption, PersonAlone

-------------------------------------------------------------------------------
(* The reconciliation. *)

\* Neither step of it touches a row, a link or an account that is not on its list.
LEMMA RunStep ==
  ASSUME IdentityInv, UNCHANGED <<user, invites, late, dead>>,
         account' \in [DOMAIN account -> AuthUsers], RunTyped', WritesAreListed',
         run.phase # "ok" /\ run'.phase = "ok" =>
           \A e \in DOMAIN user \ run.touched : InSync(e)'
  PROVE  IdentityInv' /\ PeopleStep
<1>1. DOMAIN account' = DOMAIN account
  OBVIOUS
<1>2. IdentityTypeOK'
  BY <1>1 DEF IdentityInv, IdentityTypeOK, RunTyped
<1>3. RowsHaveAccounts' /\ AcceptedAreIn'
  BY <1>1 DEF IdentityInv, RowsHaveAccounts, AcceptedAreIn
<1>4. DeadLinksAreSpent'
  BY DEF IdentityInv, DeadLinksAreSpent, Spent
<1>5. PeopleStep
  BY DEF PeopleStep
<1>6. QED
  BY <1>2, <1>3, <1>4, <1>5 DEF IdentityInv, NoneIsLate

LEMMA StartingARun ==
  ASSUME IdentityInv, NEW strict \in BOOLEAN, ReconcileStarts(strict)
  PROVE  IdentityInv' /\ PeopleStep
<1> DEFINE blocked == Blocked(strict)
           plan == IF blocked THEN <<>> ELSE [e \in Drifted |-> user[e].role]
           phase == CASE blocked -> "failed"
                      [] ~blocked /\ Drifted = {} -> "ok"
                      [] OTHER -> "writing"
<1>1. /\ run' = [phase |-> phase, plan |-> plan, touched |-> {}, failed |-> blocked]
      /\ UNCHANGED <<account, user, invites, late, dead>> /\ run.phase # "writing"
  BY DEF ReconcileStarts
<1>2. /\ blocked \in BOOLEAN
      /\ phase \in {"ok", "writing", "failed"}
      /\ phase = "ok" => ~blocked /\ Drifted = {}
  BY DEF Blocked
<1>3. /\ plan \in [DOMAIN plan -> Roles] /\ DOMAIN plan \subseteq Emails
      /\ ~blocked => DOMAIN plan = Drifted /\ \A e \in Drifted : plan[e] = user[e].role
  <2>1. CASE blocked
    BY <2>1
  <2>2. CASE ~blocked
    <3>1. \A e \in Drifted : e \in Emails /\ user[e].role \in Roles
      BY DEF IdentityInv, IdentityTypeOK, Drifted, Rows
    <3>2. plan = [e \in Drifted |-> user[e].role]
      BY <2>2
    <3>3. QED
      BY <2>2, <3>1, <3>2
  <2>3. QED
    BY <2>1, <2>2
<1>4. ~blocked => \A e \in DOMAIN user : InSync(e) \/ e \in Drifted
  <2> SUFFICES ASSUME ~Blocked(strict), NEW e \in DOMAIN user, e \notin Drifted PROVE InSync(e)
    OBVIOUS
  <2>1. e \notin Marked /\ e \in DOMAIN account
    BY DEF Blocked, IdentityInv, RowsHaveAccounts
  <2>2. QED
    BY <2>1 DEF Drifted
<1> HIDE DEF blocked, plan, phase
<1>5. /\ DOMAIN run' = {"phase", "plan", "touched", "failed"}
      /\ run'.phase = phase /\ run'.plan = plan /\ run'.touched = {} /\ run'.failed = blocked
  BY <1>1
<1>6. RunTyped'
  BY <1>2, <1>3, <1>5 DEF RunTyped
<1>7. \A e \in DOMAIN user : InSync(e) => InSync(e)'
  BY <1>1 DEF InSync
<1>8. WritesAreListed'
  BY <1>1, <1>3, <1>4, <1>5, <1>7 DEF WritesAreListed
<1>9. run'.phase = "ok" => \A e \in DOMAIN user : InSync(e)'
  BY <1>2, <1>4, <1>5, <1>7
<1>10. account' \in [DOMAIN account -> AuthUsers]
  BY <1>1 DEF IdentityInv, IdentityTypeOK
<1>11. QED
  BY <1>1, <1>6, <1>8, <1>9, <1>10, RunStep

LEMMA WritingOne ==
  ASSUME IdentityInv, NEW e \in Emails, ReconcileOne(e)
  PROVE  IdentityInv' /\ PeopleStep
<1>1. PICK written \in BOOLEAN, verified \in BOOLEAN :
        LET failed == run.failed \/ ~(written /\ verified)
            rest == DOMAIN run.plan \ {e}
        IN  /\ account' = IF written THEN [account EXCEPT ![e] = Scoped(run.plan[e])] ELSE account
            /\ run' = [run EXCEPT !.plan = [x \in rest |-> run.plan[x]], !.failed = failed,
                                  !.phase = IF rest = {} THEN Outcome(failed) ELSE "writing"]
  BY DEF ReconcileOne
<1> DEFINE failed == run.failed \/ ~(written /\ verified)
           rest == DOMAIN run.plan \ {e}
           plan == [x \in rest |-> run.plan[x]]
<1>2. RunTyped /\ run.phase = "writing" /\ e \in DOMAIN run.plan
      /\ UNCHANGED <<user, invites, late, dead>>
  BY DEF ReconcileOne, IdentityInv, IdentityTypeOK, RunTyped
<1>3. /\ DOMAIN run' = {"phase", "plan", "touched", "failed"}
      /\ run'.plan = plan /\ run'.touched = run.touched /\ run'.failed = failed
      /\ run'.phase = IF rest = {} THEN Outcome(failed) ELSE "writing"
  BY <1>1, <1>2 DEF RunTyped
<1>4. /\ failed \in BOOLEAN /\ (~failed => ~run.failed /\ written)
      /\ Outcome(failed) \in {"ok", "failed"} /\ (Outcome(failed) = "ok" => ~failed)
  BY <1>2 DEF RunTyped, Outcome
<1>5. plan \in [rest -> Roles] /\ rest \subseteq Emails
  BY <1>2 DEF RunTyped
<1>6. Scoped(run.plan[e]) \in AuthUsers
  BY <1>2, ScopedType DEF RunTyped
<1>7. /\ account' \in [DOMAIN account -> AuthUsers]
      /\ \A x \in DOMAIN account : x # e => account'[x] = account[x]
      /\ written /\ e \in DOMAIN account => account'[e] = Scoped(run.plan[e])
  <2>1. account \in [DOMAIN account -> AuthUsers]
    BY DEF IdentityInv, IdentityTypeOK
  <2>2. account' = IF written THEN [account EXCEPT ![e] = Scoped(run.plan[e])] ELSE account
    BY <1>1
  <2>3. QED
    BY <1>6, <2>1, <2>2
<1> HIDE DEF failed
<1>8. RunTyped'
  BY <1>2, <1>3, <1>4, <1>5 DEF RunTyped
<1>9. ASSUME ~failed, NEW x \in DOMAIN user \ run.touched
      PROVE  /\ InSync(x)' \/ x \in rest
             /\ x \in rest => run.plan[x] = user[x].role
  <2>1. /\ InSync(x) \/ x \in DOMAIN run.plan
        /\ x \in DOMAIN run.plan => run.plan[x] = user[x].role
    BY <1>2, <1>4, <1>9 DEF IdentityInv, WritesAreListed
  <2>2. x \in DOMAIN account
    BY <1>9 DEF IdentityInv, RowsHaveAccounts
  <2>3. CASE x = e
    BY <1>2, <1>4, <1>7, <1>9, <2>1, <2>2, <2>3 DEF InSync
  <2>4. CASE x # e
    BY <1>2, <1>7, <2>1, <2>2, <2>4 DEF InSync
  <2>5. QED
    BY <2>3, <2>4
<1>10. WritesAreListed'
  <2> SUFFICES ASSUME ~failed, NEW x \in DOMAIN user \ run.touched
               PROVE  /\ InSync(x)' \/ x \in DOMAIN plan
                      /\ x \in DOMAIN plan => plan[x] = user[x].role
    BY <1>2, <1>3 DEF WritesAreListed
  <2>1. QED
    BY <1>9
<1>11. run'.phase = "ok" => \A x \in DOMAIN user \ run.touched : InSync(x)'
  BY <1>3, <1>4, <1>9
<1>12. QED
  BY <1>2, <1>7, <1>8, <1>10, <1>11, RunStep

-------------------------------------------------------------------------------
LEMMA IdentityStep == IdentityInv /\ [IdentityNext]_identityVars => IdentityInv' /\ PeopleStep
<1> SUFFICES ASSUME IdentityInv, [IdentityNext]_identityVars PROVE IdentityInv' /\ PeopleStep
  OBVIOUS
<1>1. ASSUME NEW e \in Emails, NEW role \in Roles,
             InviteUser(e, role) \/ CreateUser(e, role) \/ UpdateProfile(e, role)
      PROVE  IdentityInv' /\ PeopleStep
  BY <1>1, InvitingKeeps, PersonKeeps
<1>2. ASSUME NEW e \in Emails, NEW status \in Inactive, SetInactive(e, status)
      PROVE  IdentityInv' /\ PeopleStep
  BY <1>2, InactiveKeeps
<1>3. ASSUME NEW e \in Emails, \/ SendPasswordSetupLink(e) \/ SetTemporaryPassword(e)
                               \/ ChangePassword(e) \/ ReconcileOne(e)
      PROVE  IdentityInv' /\ PeopleStep
  <2>1. ASSUME ChangePassword(e) PROVE IdentityInv' /\ PeopleStep
    <3>1. user[e].role \in Roles
      BY <2>1, PersonType DEF ChangePassword, Rows
    <3>2. QED
      BY <2>1, <3>1, PersonKeeps
  <2>2. QED
    BY <1>3, <2>1, SetupLinkKeeps, PasswordKeeps, WritingOne
<1>4. ASSUME NEW i \in DOMAIN invites, NEW token \in 1 .. MaxLinks,
             \/ ResendInvite(i) \/ RevokeInvite(i) \/ InviteFallsDue(i)
             \/ AcceptOverdue(i, token) \/ AcceptNewInvite(i, token)
             \/ AcceptPasswordSetup(i, token)
      PROVE  IdentityInv' /\ PeopleStep
  BY <1>4, OneInviteKeeps, NewInviteKeeps, SetupKeeps
<1>5. CASE ListInvites \/ StartUp
  BY <1>5, ListingKeeps, StartUpKeeps
<1>6. ASSUME NEW strict \in BOOLEAN, ReconcileStarts(strict)
      PROVE  IdentityInv' /\ PeopleStep
  BY <1>6, StartingARun
<1>7. CASE UNCHANGED identityVars
  <2>1. OneChanges(AdminEmail) /\ UNCHANGED <<invites, late, dead>>
    BY <1>7, NobodyWritten DEF identityVars
  <2>2. QED
    BY <2>1, IdentityAssumption, PersonAlone
<1>8. 1 \in 1 .. MaxLinks
  BY IdentityAssumption
<1>9. QED
  BY <1>1, <1>2, <1>3, <1>4, <1>5, <1>6, <1>7, <1>8 DEF IdentityNext

LEMMA IdentityInitHolds == IdentityInit => IdentityInv
<1> SUFFICES ASSUME IdentityInit PROVE IdentityInv
  OBVIOUS
<1>1. PICK S \in SUBSET (Emails \ {AdminEmail}) :
        user \in [S -> [role : Roles, status : {"active"}, mustChange : {FALSE}]]
  BY DEF IdentityInit
<1>2. PICK legacy \in SUBSET DOMAIN user :
        account = [e \in DOMAIN user |->
                     [claim |-> IF e \in legacy THEN NoClaim ELSE user[e].role,
                      markers |-> IF e \in legacy THEN "tenant" ELSE "none"]]
  BY DEF IdentityInit
<1>3. /\ DOMAIN user = S /\ S \subseteq Emails
      /\ \A e \in S : user[e] \in Rows /\ user[e].role \in Roles
      /\ user \in [DOMAIN user -> Rows]
  BY <1>1 DEF Rows, Statuses
<1>4. \A e \in DOMAIN user :
        [claim |-> IF e \in legacy THEN NoClaim ELSE user[e].role,
         markers |-> IF e \in legacy THEN "tenant" ELSE "none"] \in AuthUsers
  BY <1>3 DEF AuthUsers
<1>5. account \in [DOMAIN account -> AuthUsers] /\ DOMAIN account = DOMAIN user
  BY <1>2, <1>4
<1>6. /\ invites = <<>> /\ late = {} /\ dead = {}
      /\ run = [phase |-> "idle", plan |-> <<>>, touched |-> {}, failed |-> FALSE]
  BY DEF IdentityInit
<1>7. /\ DOMAIN run = {"phase", "plan", "touched", "failed"} /\ run.phase = "idle"
      /\ run.plan = <<>> /\ run.touched = {} /\ run.failed = FALSE
  BY <1>6
<1>8. IdentityTypeOK
  BY <1>3, <1>5, <1>6, <1>7, EmptySeq DEF IdentityTypeOK
<1>9. QED
  BY <1>5, <1>6, <1>7, <1>8
     DEF IdentityInv, RowsHaveAccounts, DeadLinksAreSpent, AcceptedAreIn, WritesAreListed,
         NoneIsLate

LEMMA IdentityInvariant == IdentitySpec => []IdentityInv
<1> QED
  BY IdentityInitHolds, IdentityStep, PTL DEF IdentitySpec

\* Every variable of the people has its type.
THEOREM IdentityTyped == IdentitySpec => []IdentityTypeOK
<1>1. IdentityInv => IdentityTypeOK
  BY DEF IdentityInv
<1>2. QED
  BY <1>1, IdentityInvariant, PTL

\* An accepted invitation has its person, wherever an acceptance is cut off.
THEOREM AcceptedIn == IdentitySpec => []AcceptedAreIn
<1>1. IdentityInv => AcceptedAreIn
  BY DEF IdentityInv
<1>2. QED
  BY <1>1, IdentityInvariant, PTL

\* For any number of links: nobody put out comes back by status, and nobody chooses
\* a password through a link that was replaced, revoked or consumed.
THEOREM RevokedForGood == IdentitySpec => RevokedStayOut
<1>1. IdentityInv /\ [IdentityNext]_identityVars
        => [\A e \in DOMAIN user : user[e].status \in Inactive =>
              user'[e].status \in Inactive]_identityVars
  BY IdentityStep DEF PeopleStep
<1>2. IdentityInv' => [late' = {}]_identityVars
  BY DEF IdentityInv, NoneIsLate
<1>3. QED
  BY <1>1, <1>2, IdentityInvariant, PTL
     DEF IdentitySpec, RevokedStayOut, InactiveStayOut, DeadLinksStayDead

\* A reconciliation that says ok has left in sync everybody it was left alone with.
THEOREM OkIsInSync == IdentitySpec => ReconciledAreInSync
<1>1. IdentityInv /\ [IdentityNext]_identityVars
        => [run.phase # "ok" /\ run'.phase = "ok" =>
              \A e \in DOMAIN user \ run.touched : InSync(e)']_identityVars
  BY IdentityStep DEF PeopleStep
<1>2. QED
  BY <1>1, IdentityInvariant, PTL DEF IdentitySpec, ReconciledAreInSync

-------------------------------------------------------------------------------
(* The migration of addresses. *)

Old(p) == authEmail[p] = "old" /\ rowEmail[p] = "old"
New(p) == authEmail[p] = "new" /\ rowEmail[p] = "new"

\* The account is ahead of the row, of one person at most.
OneAhead ==
  /\ \A p \in People : rowEmail[p] = "new" => authEmail[p] = "new"
  /\ \A p, q \in Torn : p = q

\* Those a run did not plan to move were moved before, those it has yet to reach
\* were not, and of those it has changed only the last can be half-way.
RunIsOnCourse ==
  command.at # "stopped" =>
    /\ Changed \subseteq command.plan
    /\ \A i, j \in DOMAIN command.changed : command.changed[i] = command.changed[j] => i = j
    /\ \A p \in People \ command.plan : New(p)
    /\ \A p \in Todo : Old(p)
    /\ \A i \in DOMAIN command.changed : i # Len(command.changed) => New(command.changed[i])
    /\ command.at \in {"row", "journal", "undo account"} => command.changed # << >>
    /\ command.changed # << >> =>
         /\ command.at \in {"account", "journal", "postflight"} => New(Current)
         /\ command.at = "row" => authEmail[Current] = "new" /\ rowEmail[Current] = "old"
         /\ command.at = "undo account" => rowEmail[Current] = "old"

\* Nobody is left to move once a journal says so, or is about to.
NobodyIsLeft ==
  /\ command.at = "postflight" \/ journal.status = "complete" =>
       \A p \in People : rowEmail[p] = "new"
  /\ command.at # "stopped" /\ journal.status = "complete" => command.plan = {}

MigrationInv == MigrationTypeOK /\ OneAhead /\ RunIsOnCourse /\ NobodyIsLeft

LEMMA MigrationStarts == MigrationInit => MigrationInv
<1> SUFFICES ASSUME MigrationInit PROVE MigrationInv
  OBVIOUS
<1>1. /\ DOMAIN command = {"at", "plan", "changed", "named"}
      /\ command.at = "stopped" /\ command.plan = {} /\ command.changed = << >>
      /\ command.named = {}
      /\ DOMAIN journal = {"status", "completed"} /\ journal.status = "none" /\ journal.completed = {}
  BY DEF MigrationInit
<1>2. authEmail = [p \in People |-> "old"] /\ rowEmail = [p \in People |-> "old"]
  BY DEF MigrationInit
<1>3. MigrationTypeOK
  <2>1. journal = [status |-> "none", completed |-> {}]
    BY DEF MigrationInit
  <2>2. QED
    BY <1>1, <1>2, <2>1, EmptySeq DEF MigrationTypeOK, Domains
<1>4. QED
  BY <1>1, <1>2, <1>3 DEF MigrationInv, OneAhead, RunIsOnCourse, NobodyIsLeft, Torn

\* The types of what a step leaves of the run and of the journal.
LEMMA CommandType ==
  ASSUME MigrationTypeOK
  PROVE  /\ DOMAIN command = {"at", "plan", "changed", "named"}
         /\ command.plan \subseteq People /\ command.changed \in Seq(People)
         /\ command.named \subseteq People
         /\ Changed \subseteq People /\ Todo \subseteq People
         /\ command.changed # << >> =>
              Len(command.changed) \in DOMAIN command.changed /\ Current \in Changed
         /\ \A p \in People : authEmail[p] \in Domains /\ rowEmail[p] \in Domains
<1>1. command.changed \in Seq(People)
  BY DEF MigrationTypeOK
<1>2. \A i \in DOMAIN command.changed : command.changed[i] \in People
  BY <1>1, ElementOfSeq
<1>3. command.changed # << >> => Len(command.changed) \in DOMAIN command.changed
  BY <1>1
<1>4. QED
  BY <1>1, <1>2, <1>3 DEF MigrationTypeOK, Changed, Todo, Current

\* A call on an address leaves the other addresses alone.
LEMMA CallType ==
  ASSUME NEW email \in [People -> Domains], NEW p \in People, NEW domain \in Domains,
         NEW call \in Moves(email, p, domain)
  PROVE  /\ call.email \in [People -> Domains] /\ call.ok \in BOOLEAN
         /\ \A q \in People : q # p => call.email[q] = email[q]
         /\ call.email[p] \in {email[p], domain}
         /\ call.ok => call.email[p] = domain
<1>1. \/ \E took \in BOOLEAN, ok \in {FALSE} :
           call = [email |-> IF took THEN [email EXCEPT ![p] = domain] ELSE email, ok |-> ok]
      \/ call = [email |-> [email EXCEPT ![p] = domain], ok |-> TRUE]
  BY DEF Moves
<1>2. CASE \E took \in BOOLEAN, ok \in {FALSE} :
             call = [email |-> IF took THEN [email EXCEPT ![p] = domain] ELSE email, ok |-> ok]
  BY <1>2
<1>3. CASE call = [email |-> [email EXCEPT ![p] = domain], ok |-> TRUE]
  BY <1>3
<1>4. QED
  BY <1>1, <1>2, <1>3

\* The run goes on with the same people, the addresses as they are.
LEMMA MovingOn ==
  ASSUME MigrationInv, command.at # "stopped", UNCHANGED <<authEmail, rowEmail>>,
         NEW at \in {"stopped", "account", "postflight", "undo row"},
         command' = [command EXCEPT !.at = at],
         at \in {"account", "postflight"} => command.at \in {"account", "journal", "postflight"},
         journal' \in [status : {"none", "applying", "complete", "rolled_back", "rollback_failed"},
                       completed : SUBSET People],
         journal'.status = "complete" => at = "stopped" \/ journal.status = "complete",
         at = "postflight" \/ journal'.status = "complete" => \A p \in People : rowEmail[p] = "new"
  PROVE  MigrationInv'
<1>1. /\ DOMAIN command' = {"at", "plan", "changed", "named"}
      /\ command'.at = at /\ command'.plan = command.plan /\ command'.changed = command.changed
      /\ command'.named = command.named
  BY CommandType DEF MigrationInv
<1>2. Changed' = Changed /\ Todo' = Todo /\ Current' = Current
  BY <1>1 DEF Changed, Todo, Current
<1>3. MigrationTypeOK'
  BY <1>1 DEF MigrationInv, MigrationTypeOK
<1>4. OneAhead'
  BY DEF MigrationInv, OneAhead, Torn
<1>5. RunIsOnCourse'
  <2> SUFFICES ASSUME at # "stopped" PROVE RunIsOnCourse'
    BY <1>1 DEF RunIsOnCourse
  <2>1. QED
    BY <1>1, <1>2 DEF MigrationInv, RunIsOnCourse, New, Old
<1>6. NobodyIsLeft'
  BY <1>1 DEF MigrationInv, NobodyIsLeft
<1>7. QED
  BY <1>3, <1>4, <1>5, <1>6 DEF MigrationInv

\* What a run writes in its journal.
LEMMA Written ==
  ASSUME NEW status \in {"none", "applying", "complete", "rolled_back", "rollback_failed"},
         NEW names \in SUBSET People, Write(status, names)
  PROVE  /\ journal' \in [status : {"none", "applying", "complete", "rolled_back", "rollback_failed"},
                          completed : SUBSET People]
         /\ journal'.status = status
BY DEF Write

LEMMA PreflightKeeps == MigrationInv /\ Preflight => MigrationInv'
<1> SUFFICES ASSUME MigrationInv, Preflight PROVE MigrationInv'
  OBVIOUS
<1>1. /\ DOMAIN command' = {"at", "plan", "changed", "named"}
      /\ command'.at = "account" /\ command'.plan = Planned /\ command'.changed = << >>
      /\ command'.named = {}
      /\ command.at = "stopped" /\ Torn = {} /\ UNCHANGED <<authEmail, rowEmail, journal>>
  BY DEF Preflight
<1>2. /\ Planned \subseteq People /\ Changed' = {} /\ Todo' = Planned
  BY <1>1 DEF Planned, Changed, Todo
<1>3. MigrationTypeOK'
  BY <1>1, <1>2, EmptySeq DEF MigrationInv, MigrationTypeOK
<1>4. \A p \in People : (p \in Planned => Old(p)') /\ (p \notin Planned => New(p)')
  BY <1>1 DEF MigrationInv, MigrationTypeOK, Domains, Planned, Torn, Old, New
<1>5. RunIsOnCourse'
  BY <1>1, <1>2, <1>4 DEF RunIsOnCourse
<1>6. OneAhead' /\ NobodyIsLeft'
  BY <1>1 DEF MigrationInv, OneAhead, Torn, NobodyIsLeft, Planned
<1>7. QED
  BY <1>3, <1>5, <1>6 DEF MigrationInv

\* The steps that change no address.
LEMMA StayingPut ==
  MigrationInv /\ (FindsItChanged \/ WriteJournal \/ Postflight \/ Completes \/ RollbackFails
                   \/ RolledBack \/ Killed) => MigrationInv'
<1>1. ASSUME MigrationInv, FindsItChanged PROVE MigrationInv'
  <2>1. journal' = journal /\ MigrationTypeOK /\ NobodyIsLeft
    BY <1>1 DEF MigrationInv, FindsItChanged
  <2>2. QED
    BY <1>1, <2>1, MovingOn DEF FindsItChanged, GivesUp, MigrationTypeOK, NobodyIsLeft
<1>2. ASSUME MigrationInv, WriteJournal PROVE MigrationInv'
  <2>1. Changed \subseteq People
    BY <1>2, CommandType DEF MigrationInv
  <2>2. QED
    BY <1>2, <2>1, Written, MovingOn DEF WriteJournal
<1>3. ASSUME MigrationInv, Postflight PROVE MigrationInv'
  <2>1. journal' = journal /\ MigrationTypeOK /\ NobodyIsLeft
    BY <1>3 DEF MigrationInv, Postflight
  <2>2. Planned = {} => \A p \in People : rowEmail[p] = "new"
    BY <2>1 DEF MigrationTypeOK, Planned, Domains
  <2>3. QED
    BY <1>3, <2>1, <2>2, MovingOn DEF Postflight, MigrationTypeOK, NobodyIsLeft
<1>4. ASSUME MigrationInv, Completes PROVE MigrationInv'
  BY <1>4, Written, MovingOn DEF Completes, MigrationInv, NobodyIsLeft
<1>5. ASSUME MigrationInv, UndoFails, UNCHANGED <<authEmail, rowEmail>> PROVE MigrationInv'
  <2>1. command.named \subseteq People
    BY <1>5, CommandType DEF MigrationInv
  <2>2. QED
    BY <1>5, <2>1, Written, MovingOn DEF UndoFails
<1>6. ASSUME MigrationInv, RolledBack PROVE MigrationInv'
  BY <1>6, Written, MovingOn DEF RolledBack
<1>7. ASSUME MigrationInv, Killed PROVE MigrationInv'
  <2>1. journal' = journal /\ MigrationTypeOK /\ NobodyIsLeft
    BY <1>7 DEF MigrationInv, Killed
  <2>2. QED
    BY <1>7, <2>1, MovingOn DEF Killed, MigrationTypeOK, NobodyIsLeft
<1>8. QED
  BY <1>1, <1>2, <1>3, <1>4, <1>5, <1>6, <1>7 DEF RollbackFails

\* While a run is under way only the person it is at can be half-way.
LEMMA OnlyTheCurrent ==
  ASSUME MigrationTypeOK', RunIsOnCourse', command'.at # "stopped"
  PROVE  \A p, q \in Torn' : p = q
<1> SUFFICES ASSUME NEW p \in Torn' PROVE p = Current'
  OBVIOUS
<1>1. p \in People /\ ~(authEmail'[p] = "old" /\ rowEmail'[p] = "old")
                   /\ ~(authEmail'[p] = "new" /\ rowEmail'[p] = "new")
  BY DEF Torn
<1>2. p \in Changed'
  BY <1>1 DEF RunIsOnCourse, Todo, Old, New
<1>3. PICK i \in DOMAIN command'.changed : p = command'.changed[i]
  BY <1>2 DEF Changed
<1>4. i = Len(command'.changed)
  BY <1>1, <1>3 DEF RunIsOnCourse, New
<1>5. QED
  BY <1>3, <1>4 DEF Current

\* One more at the end of a list.
LEMMA OneMore ==
  ASSUME NEW s \in Seq(People), NEW p \in People, NEW t, t = Append(s, p)
  PROVE  /\ t \in Seq(People) /\ t # << >> /\ t[Len(t)] = p
         /\ \A i \in DOMAIN t : i # Len(t) => i \in DOMAIN s /\ t[i] = s[i]
         /\ {t[i] : i \in DOMAIN t} = {s[i] : i \in DOMAIN s} \cup {p}
<1>1. /\ t \in Seq(People) /\ Len(t) = Len(s) + 1 /\ Len(s) \in Nat
      /\ DOMAIN t = 1 .. Len(s) + 1 /\ DOMAIN s = 1 .. Len(s)
      /\ t[Len(s) + 1] = p
      /\ \A i \in DOMAIN s : t[i] = s[i]
  BY AppendProperties
<1>2. DOMAIN t = DOMAIN s \cup {Len(s) + 1} /\ Len(t) \in DOMAIN t
  BY <1>1
<1>3. t # << >>
  BY <1>2
<1>4. \A i \in DOMAIN t : i # Len(t) => i \in DOMAIN s /\ t[i] = s[i]
  BY <1>1, <1>2
<1>5. {t[i] : i \in DOMAIN t} = {s[i] : i \in DOMAIN s} \cup {p}
  <2>1. \A i \in DOMAIN t : t[i] \in {s[j] : j \in DOMAIN s} \cup {p}
    BY <1>1, <1>2
  <2>2. \A i \in DOMAIN s : s[i] \in {t[j] : j \in DOMAIN t}
    BY <1>1, <1>2
  <2>3. p \in {t[j] : j \in DOMAIN t}
    BY <1>1, <1>2
  <2>4. QED
    BY <2>1, <2>2, <2>3
<1>6. QED
  BY <1>1, <1>3, <1>4, <1>5

\* A list without its last one.
LEMMA OneLess ==
  ASSUME NEW s \in Seq(People), s # << >>, NEW t \in Seq(People), Len(t) = Len(s) - 1,
         \A i \in 1 .. Len(s) - 1 : t[i] = s[i]
  PROVE  /\ Len(s) \in DOMAIN s
         /\ DOMAIN t = DOMAIN s \ {Len(s)}
         /\ \A i \in DOMAIN t : t[i] = s[i]
         /\ {s[i] : i \in DOMAIN s} = {t[i] : i \in DOMAIN t} \cup {s[Len(s)]}
<1>1. Len(s) \in Nat \ {0} /\ DOMAIN s = 1 .. Len(s) /\ \A i \in DOMAIN s : s[i] \in People
  BY EmptySeq, ElementOfSeq
<1>2. /\ t \in Seq(People) /\ Len(t) = Len(s) - 1 /\ DOMAIN t = 1 .. Len(s) - 1
      /\ \A i \in DOMAIN t : t[i] = s[i]
  BY <1>1
<1>3. DOMAIN t = DOMAIN s \ {Len(s)} /\ Len(s) \in DOMAIN s
  BY <1>1, <1>2
<1>4. {s[i] : i \in DOMAIN s} = {t[i] : i \in DOMAIN t} \cup {s[Len(s)]}
  <2>1. \A i \in DOMAIN s : s[i] \in {t[j] : j \in DOMAIN t} \cup {s[Len(s)]}
    BY <1>2, <1>3
  <2>2. \A i \in DOMAIN t : t[i] \in {s[j] : j \in DOMAIN s}
    BY <1>2, <1>3
  <2>3. QED
    BY <1>3, <2>1, <2>2
<1>5. QED
  BY <1>2, <1>3, <1>4

\* The provider is asked for the new address of one more person.
LEMMA UpdateAuthKeeps == MigrationInv /\ UpdateAuthEmail => MigrationInv'
<1> SUFFICES ASSUME MigrationInv, UpdateAuthEmail PROVE MigrationInv'
  OBVIOUS
<1>0. PICK p \in Todo : \E call \in Moves(authEmail, p, "new") :
        /\ authEmail' = call.email
        /\ command' = [command EXCEPT !.changed = Attempted(p, call.ok), !.named = @ \cup {p},
                                      !.at = IF call.ok THEN "row" ELSE "undo row"]
  BY DEF UpdateAuthEmail
<1>1. PICK call \in Moves(authEmail, p, "new") :
        /\ authEmail' = call.email
        /\ command' = [command EXCEPT !.changed = Attempted(p, call.ok), !.named = @ \cup {p},
                                      !.at = IF call.ok THEN "row" ELSE "undo row"]
  BY <1>0
<1>2. p \in People /\ p \in command.plan /\ p \notin Changed /\ Old(p)
  BY <1>1, CommandType DEF MigrationInv, Todo, RunIsOnCourse, UpdateAuthEmail
<1>3. command.at = "account" /\ UNCHANGED <<rowEmail, journal>> /\ journal.status # "complete"
  BY <1>2 DEF UpdateAuthEmail, MigrationInv, NobodyIsLeft
<1>4. /\ authEmail' \in [People -> Domains]
      /\ \A q \in People : q # p => authEmail'[q] = authEmail[q]
      /\ authEmail'[p] \in Domains
      /\ call.ok => authEmail'[p] = "new"
  <2>1. authEmail \in [People -> Domains] /\ "new" \in Domains
    BY DEF MigrationInv, MigrationTypeOK, Domains
  <2>2. QED
    BY <1>1, <1>2, <2>1, CallType
<1> DEFINE s == command.changed
<1>5. /\ DOMAIN command' = {"at", "plan", "changed", "named"} /\ command'.plan = command.plan
      /\ command'.changed = Append(s, p) /\ command'.named = command.named \cup {p}
      /\ command'.at = IF call.ok THEN "row" ELSE "undo row"
  BY <1>1, CommandType DEF MigrationInv, Attempted
<1>6. /\ command'.changed \in Seq(People) /\ command'.changed # << >> /\ Current' = p
      /\ \A i \in DOMAIN command'.changed : i # Len(command'.changed) =>
           i \in DOMAIN s /\ command'.changed[i] = s[i]
      /\ Changed' = Changed \cup {p}
  <2>1. s \in Seq(People)
    BY CommandType DEF MigrationInv
  <2> DEFINE t == command'.changed
  <2>2. t = Append(s, p) /\ p \in People
    BY <1>2, <1>5
  <2>3. /\ Changed' = {t[i] : i \in DOMAIN t} /\ Changed = {s[i] : i \in DOMAIN s}
        /\ Current' = t[Len(t)]
    BY DEF Changed, Current
  <2> HIDE DEF s, t
  <2>4. /\ t \in Seq(People) /\ t # << >> /\ t[Len(t)] = p
        /\ \A i \in DOMAIN t : i # Len(t) => i \in DOMAIN s /\ t[i] = s[i]
        /\ {t[i] : i \in DOMAIN t} = {s[i] : i \in DOMAIN s} \cup {p}
    BY <2>1, <2>2, OneMore
  <2>5. /\ t \in Seq(People) /\ t # << >> /\ Current' = p
        /\ \A i \in DOMAIN t : i # Len(t) => i \in DOMAIN s /\ t[i] = s[i]
        /\ Changed' = Changed \cup {p}
    BY <2>3, <2>4
  <2>6. QED
    BY <2>5 DEF t
<1>7. Todo' = Todo \ {p}
  BY <1>5, <1>6 DEF Todo
<1>8. MigrationTypeOK'
  BY <1>2, <1>3, <1>4, <1>5, <1>6 DEF MigrationInv, MigrationTypeOK
<1>9. \A q \in People : q # p => (Old(q) => Old(q)') /\ (New(q) => New(q)')
  BY <1>3, <1>4 DEF Old, New
<1>10. \A i \in DOMAIN s : New(s[i]) /\ s[i] # p /\ s[i] \in People
  <2> SUFFICES ASSUME NEW i \in DOMAIN s PROVE New(s[i]) /\ s[i] # p /\ s[i] \in People
    OBVIOUS
  <2>1. s[i] \in Changed /\ s[i] \in People
    BY CommandType DEF Changed, MigrationInv
  <2>2. CASE i = Len(s)
    BY <1>3, <2>2, <2>1, <1>2 DEF MigrationInv, RunIsOnCourse, Current
  <2>3. CASE i # Len(s)
    BY <1>3, <2>3, <2>1, <1>2 DEF MigrationInv, RunIsOnCourse
  <2>4. QED
    BY <2>2, <2>3
<1>11. RunIsOnCourse'
  <2>1. Changed' \subseteq command'.plan
    BY <1>2, <1>3, <1>5, <1>6 DEF MigrationInv, RunIsOnCourse
  <2>2. \A i, j \in DOMAIN command'.changed : command'.changed[i] = command'.changed[j] => i = j
    <3>1. \A i, j \in DOMAIN s : s[i] = s[j] => i = j
      BY <1>3 DEF MigrationInv, RunIsOnCourse
    <3>2. \A i \in DOMAIN command'.changed :
            IF i = Len(command'.changed) THEN command'.changed[i] = p
            ELSE i \in DOMAIN s /\ command'.changed[i] = s[i] /\ s[i] # p
      BY <1>6, <1>10 DEF Current
    <3>3. QED
      BY <3>1, <3>2
  <2>3. (\A q \in People \ command'.plan : New(q)') /\ (\A q \in Todo' : Old(q)')
    BY <1>2, <1>3, <1>5, <1>7, <1>9, CommandType DEF MigrationInv, RunIsOnCourse
  <2>4. \A i \in DOMAIN command'.changed : i # Len(command'.changed) => New(command.changed[i])'
    <3>1. \A i \in DOMAIN s : authEmail'[s[i]] = "new" /\ rowEmail'[s[i]] = "new"
      BY <1>9, <1>10 DEF New
    <3>2. QED
      BY <1>6, <3>1 DEF New
  <2>5. command'.at = "row" => authEmail'[p] = "new" /\ rowEmail'[p] = "old"
    BY <1>2, <1>3, <1>4, <1>5 DEF Old
  <2>6. QED
    BY <1>5, <1>6, <2>1, <2>2, <2>3, <2>4, <2>5 DEF RunIsOnCourse, New
<1>12. OneAhead'
  <2>1. \A q \in People : rowEmail'[q] = "new" => authEmail'[q] = "new"
    BY <1>2, <1>3, <1>4 DEF MigrationInv, OneAhead, Old
  <2>2. \A q, r \in Torn' : q = r
    BY <1>5, <1>8, <1>11, OnlyTheCurrent
  <2>3. QED
    BY <2>1, <2>2 DEF OneAhead
<1>13. NobodyIsLeft'
  BY <1>3, <1>5 DEF NobodyIsLeft
<1>14. QED
  BY <1>8, <1>11, <1>12, <1>13 DEF MigrationInv

\* A step that keeps the list and the plan and changes at most the current person.
LEMMA AtTheCurrent ==
  ASSUME MigrationInv, command.at # "stopped", command.changed # << >>,
         authEmail' \in [People -> Domains], rowEmail' \in [People -> Domains],
         \A q \in People : q # Current => authEmail'[q] = authEmail[q] /\ rowEmail'[q] = rowEmail[q],
         rowEmail'[Current] = "new" => authEmail'[Current] = "new",
         NEW at \in {"stopped", "journal", "undo row", "undo account"},
         command' = [command EXCEPT !.at = at],
         at = "journal" => authEmail'[Current] = "new" /\ rowEmail'[Current] = "new",
         at = "undo account" => rowEmail'[Current] = "old",
         journal' \in [status : {"none", "applying", "complete", "rolled_back", "rollback_failed"},
                       completed : SUBSET People],
         journal'.status = "complete" => journal.status = "complete"
  PROVE  MigrationInv'
<1>1. /\ DOMAIN command' = {"at", "plan", "changed", "named"}
      /\ command'.at = at /\ command'.plan = command.plan /\ command'.changed = command.changed
      /\ command'.named = command.named
  BY CommandType DEF MigrationInv
<1>2. Changed' = Changed /\ Todo' = Todo /\ Current' = Current
  <2>1. Changed' = Changed
    BY <1>1 DEF Changed
  <2>2. Current' = Current
    BY <1>1 DEF Current
  <2>3. QED
    BY <1>1, <2>1, <2>2 DEF Todo
<1>3. MigrationTypeOK'
  BY <1>1 DEF MigrationInv, MigrationTypeOK
<1>4. Current \in Changed /\ Current \in People /\ Current \in command.plan
      /\ Len(command.changed) \in DOMAIN command.changed
  BY CommandType DEF MigrationInv, RunIsOnCourse
<1>5. \A q \in People : q # Current => (Old(q) => Old(q)') /\ (New(q) => New(q)')
  BY DEF Old, New
<1>6. Torn' \subseteq {Current} /\ OneAhead'
  <2>1. \A q \in People : q # Current => (Old(q) \/ New(q))
    <3> SUFFICES ASSUME NEW q \in People, q # Current PROVE Old(q) \/ New(q)
      OBVIOUS
    <3>1. CASE q \notin Changed
      BY <3>1 DEF MigrationInv, RunIsOnCourse, Todo
    <3>2. CASE q \in Changed
      BY <3>2 DEF MigrationInv, RunIsOnCourse, Changed, Current
    <3>3. QED
      BY <3>1, <3>2
  <2>2. Torn' \subseteq {Current}
    BY <1>5, <2>1 DEF Torn, Old, New
  <2>3. \A q \in People : rowEmail'[q] = "new" => authEmail'[q] = "new"
    BY DEF MigrationInv, OneAhead
  <2>4. QED
    BY <2>2, <2>3 DEF OneAhead
<1>7. RunIsOnCourse'
  <2> SUFFICES ASSUME at # "stopped" PROVE RunIsOnCourse'
    BY <1>1 DEF RunIsOnCourse
  <2>1. \A q \in People \ command.plan : New(q)'
    BY <1>4, <1>5 DEF MigrationInv, RunIsOnCourse
  <2>2. \A q \in Todo : Old(q)'
    BY <1>4, <1>5, CommandType DEF MigrationInv, RunIsOnCourse, Todo
  <2>3. \A i \in DOMAIN command.changed : i # Len(command.changed) =>
          authEmail'[command.changed[i]] = "new" /\ rowEmail'[command.changed[i]] = "new"
    <3> SUFFICES ASSUME NEW i \in DOMAIN command.changed, i # Len(command.changed)
                 PROVE  /\ authEmail'[command.changed[i]] = "new"
                        /\ rowEmail'[command.changed[i]] = "new"
      OBVIOUS
    <3>1. command.changed[i] # Current /\ command.changed[i] \in People /\ New(command.changed[i])
      BY <1>4, CommandType DEF MigrationInv, RunIsOnCourse, Current, Changed
    <3>2. QED
      BY <3>1 DEF New
  <2>4. Changed \subseteq command.plan /\ Todo = command.plan \ Changed
        /\ \A i, j \in DOMAIN command.changed : command.changed[i] = command.changed[j] => i = j
    BY DEF MigrationInv, RunIsOnCourse, Todo
  <2>5. QED
    BY <1>1, <1>2, <2>1, <2>2, <2>3, <2>4 DEF RunIsOnCourse, New
<1>8. NobodyIsLeft'
  <2>1. journal.status # "complete"
    BY <1>4 DEF MigrationInv, NobodyIsLeft
  <2>2. QED
    BY <1>1, <2>1 DEF NobodyIsLeft
<1>9. QED
  BY <1>3, <1>6, <1>7, <1>8 DEF MigrationInv

LEMMA SetPlatformKeeps == MigrationInv /\ SetPlatformEmail => MigrationInv'
<1> SUFFICES ASSUME MigrationInv, SetPlatformEmail PROVE MigrationInv'
  OBVIOUS
<1>1. PICK call \in Moves(rowEmail, Current, "new") :
        /\ rowEmail' = call.email
        /\ command' = [command EXCEPT !.at = IF call.ok THEN "journal" ELSE "undo row"]
  BY DEF SetPlatformEmail
<1>2. /\ command.at = "row" /\ command.changed # << >> /\ UNCHANGED <<authEmail, journal>>
      /\ authEmail[Current] = "new" /\ Current \in People
  BY CommandType DEF SetPlatformEmail, MigrationInv, RunIsOnCourse
<1>3. rowEmail \in [People -> Domains] /\ "new" \in Domains
  BY DEF MigrationInv, MigrationTypeOK, Domains
<1>4. /\ rowEmail' \in [People -> Domains]
      /\ \A q \in People : q # Current => rowEmail'[q] = rowEmail[q]
      /\ call.ok => rowEmail'[Current] = "new"
  <2> DEFINE p == Current
  <2>1. p \in People /\ call \in Moves(rowEmail, p, "new") /\ rowEmail' = call.email
    BY <1>1, <1>2
  <2> HIDE DEF p
  <2>2. /\ rowEmail' \in [People -> Domains]
        /\ \A q \in People : q # p => rowEmail'[q] = rowEmail[q]
        /\ call.ok => rowEmail'[p] = "new"
    BY <1>3, <2>1, CallType
  <2>3. QED
    BY <2>2 DEF p
<1>5. authEmail' \in [People -> Domains]
      /\ journal' \in [status : {"none", "applying", "complete", "rolled_back", "rollback_failed"},
                       completed : SUBSET People]
  BY <1>2 DEF MigrationInv, MigrationTypeOK
<1>6. CASE call.ok
  <2>1. command' = [command EXCEPT !.at = "journal"]
    BY <1>1, <1>6
  <2>2. QED
    BY <1>2, <1>4, <1>5, <1>6, <2>1, AtTheCurrent
<1>7. CASE ~call.ok
  <2>1. command' = [command EXCEPT !.at = "undo row"]
    BY <1>1, <1>7
  <2>2. QED
    BY <1>2, <1>4, <1>5, <1>7, <2>1, AtTheCurrent
<1>8. QED
  BY <1>6, <1>7

LEMMA RollbackRowKeeps == MigrationInv /\ RollbackRow => MigrationInv'
<1> SUFFICES ASSUME MigrationInv, RollbackRow PROVE MigrationInv'
  OBVIOUS
<1>1. /\ command.at = "undo row" /\ command.changed # << >> /\ authEmail' = authEmail
      /\ rowEmail' = [rowEmail EXCEPT ![Current] = "old"]
      /\ Current \in People /\ command.named \subseteq People
  BY CommandType DEF RollbackRow, MigrationInv
<1>2. /\ rowEmail' \in [People -> Domains] /\ authEmail' \in [People -> Domains]
      /\ \A q \in People : q # Current => authEmail'[q] = authEmail[q] /\ rowEmail'[q] = rowEmail[q]
      /\ rowEmail'[Current] = "old"
  BY <1>1 DEF MigrationInv, MigrationTypeOK, Domains
<1>3. CASE command' = [command EXCEPT !.at = "undo account"] /\ UNCHANGED journal
  <2>1. journal' \in [status : {"none", "applying", "complete", "rolled_back", "rollback_failed"},
                      completed : SUBSET People]
    BY <1>3 DEF MigrationInv, MigrationTypeOK
  <2>2. QED
    BY <1>1, <1>2, <1>3, <2>1, AtTheCurrent
<1>4. CASE UndoFails
  <2>1. /\ journal' \in [status : {"none", "applying", "complete", "rolled_back", "rollback_failed"},
                         completed : SUBSET People]
        /\ journal'.status = "rollback_failed"
    BY <1>1, <1>4, Written DEF UndoFails
  <2>2. QED
    BY <1>1, <1>2, <1>4, <2>1, AtTheCurrent DEF UndoFails
<1>5. QED
  BY <1>3, <1>4 DEF RollbackRow

\* The person is back, and the run goes on to the one it changed before.
LEMMA RollbackAccountKeeps == MigrationInv /\ RollbackAccount => MigrationInv'
<1> SUFFICES ASSUME MigrationInv, RollbackAccount PROVE MigrationInv'
  OBVIOUS
<1>1. /\ command.at = "undo account" /\ command.changed # << >> /\ rowEmail' = rowEmail
      /\ authEmail' = [authEmail EXCEPT ![Current] = "old"]
      /\ Current \in People /\ Current \in Changed /\ Changed \subseteq People
      /\ command.named \subseteq People
      /\ rowEmail[Current] = "old"
  BY CommandType DEF RollbackAccount, MigrationInv, RunIsOnCourse
<1>2. /\ rowEmail' \in [People -> Domains] /\ authEmail' \in [People -> Domains]
      /\ \A q \in People : q # Current => authEmail'[q] = authEmail[q] /\ rowEmail'[q] = rowEmail[q]
      /\ rowEmail'[Current] = "old" /\ authEmail'[Current] = "old"
  BY <1>1 DEF MigrationInv, MigrationTypeOK, Domains
<1>3. ASSUME UndoFails PROVE MigrationInv'
  <2>1. /\ journal' \in [status : {"none", "applying", "complete", "rolled_back", "rollback_failed"},
                         completed : SUBSET People]
        /\ journal'.status = "rollback_failed"
    BY <1>1, <1>3, Written DEF UndoFails
  <2>2. QED
    BY <1>1, <1>2, <1>3, <2>1, AtTheCurrent DEF UndoFails
<1>4. ASSUME command' = [command EXCEPT !.at = "undo row",
                                        !.changed = SubSeq(@, 1, Len(@) - 1)],
             UNCHANGED journal
      PROVE  MigrationInv'
  <2> DEFINE s == command.changed
             t == command'.changed
  <2>1. /\ DOMAIN command' = {"at", "plan", "changed", "named"} /\ command'.plan = command.plan
        /\ command'.named = command.named
        /\ t = SubSeq(s, 1, Len(s) - 1) /\ command'.at = "undo row"
    BY <1>4, CommandType DEF MigrationInv
  <2>2. s \in Seq(People) /\ s # << >>
    BY <1>1, CommandType DEF MigrationInv
  <2>3. /\ Changed' = {t[i] : i \in DOMAIN t} /\ Changed = {s[i] : i \in DOMAIN s}
        /\ Current = s[Len(s)]
    BY DEF Changed, Current
  <2>4. /\ Changed \subseteq command.plan
        /\ \A i, j \in DOMAIN s : s[i] = s[j] => i = j
        /\ \A i \in DOMAIN s : i # Len(s) => New(s[i])
        /\ \A p \in People \ command.plan : New(p)
        /\ \A p \in Todo : Old(p)
    BY <1>1 DEF MigrationInv, RunIsOnCourse
  <2> HIDE DEF s, t
  <2>5. /\ t \in Seq(People) /\ Len(s) \in DOMAIN s /\ DOMAIN t = DOMAIN s \ {Len(s)}
        /\ \A i \in DOMAIN t : t[i] = s[i]
        /\ {s[i] : i \in DOMAIN s} = {t[i] : i \in DOMAIN t} \cup {s[Len(s)]}
    <3>1. Len(s) \in Nat \ {0}
      BY <2>2, EmptySeq
    <3>2. /\ t \in Seq(People) /\ Len(t) = Len(s) - 1
          /\ \A i \in 1 .. Len(s) - 1 : t[i] = s[i]
      <4> DEFINE n == Len(s) - 1
      <4>1. n \in Nat /\ DOMAIN s = 1 .. n + 1 /\ \A i \in 1 .. n : s[i] \in People
        BY <2>2, <3>1, ElementOfSeq
      <4>2. t = SubSeq(s, 1, n)
        BY <2>1
      <4> HIDE DEF n
      <4>3. /\ SubSeq(s, 1, n) \in Seq(People) /\ Len(SubSeq(s, 1, n)) = n
            /\ \A i \in 1 .. n : SubSeq(s, 1, n)[i] = s[i]
        BY <4>1, SubSeqProperties
      <4>4. t \in Seq(People) /\ Len(t) = n /\ \A i \in 1 .. n : t[i] = s[i]
        BY <4>2, <4>3
      <4>5. QED
        BY <4>4 DEF n
    <3>3. QED
      BY <2>2, <3>2, OneLess
  <2>6. Changed = Changed' \cup {Current} /\ Todo' \subseteq Todo \cup {Current}
    <3>1. Changed = Changed' \cup {Current}
      BY <2>3, <2>5
    <3>2. QED
      BY <2>1, <3>1 DEF Todo
  <2>7. MigrationTypeOK'
    BY <1>2, <1>4, <2>1, <2>5 DEF MigrationInv, MigrationTypeOK, t
  <2>8. \A i \in DOMAIN t : t[i] # Current /\ t[i] \in People /\ New(t[i])
    BY <2>3, <2>4, <2>5, <1>1
  <2>9. \A q \in People : q # Current => (Old(q) => Old(q)') /\ (New(q) => New(q)')
    BY <1>2 DEF Old, New
  <2>10. RunIsOnCourse'
    <3>1. Changed' \subseteq command'.plan
      BY <2>1, <2>4, <2>6
    <3>2. \A i, j \in DOMAIN t : t[i] = t[j] => i = j
      BY <2>4, <2>5
    <3>3. \A q \in People \ command'.plan : New(q)'
      BY <1>1, <2>1, <2>4, <2>9
    <3>4. \A q \in Todo' : Old(q)'
      <4>1. \A q \in Todo' : q \in People /\ (q = Current \/ Old(q))
        BY <1>1, <2>4, <2>6, CommandType DEF MigrationInv
      <4>2. QED
        BY <1>2, <2>9, <4>1 DEF Old
    <3>5. \A i \in DOMAIN t : authEmail'[t[i]] = "new" /\ rowEmail'[t[i]] = "new"
      BY <1>2, <2>8 DEF New
    <3>6. QED
      BY <2>1, <3>1, <3>2, <3>3, <3>4, <3>5 DEF RunIsOnCourse, New, t
  <2>11. OneAhead'
    <3>1. \A q \in People : rowEmail'[q] = "new" => authEmail'[q] = "new"
      BY <1>2 DEF MigrationInv, OneAhead
    <3>2. \A q, r \in Torn' : q = r
      BY <2>1, <2>7, <2>10, OnlyTheCurrent
    <3>3. QED
      BY <3>1, <3>2 DEF OneAhead
  <2>12. NobodyIsLeft'
    BY <1>1, <1>4, <2>1, <2>4, <2>6 DEF MigrationInv, NobodyIsLeft
  <2>13. QED
    BY <2>7, <2>10, <2>11, <2>12 DEF MigrationInv
<1>5. QED
  BY <1>3, <1>4 DEF RollbackAccount

LEMMA RepairKeeps == MigrationInv /\ Repair => MigrationInv'
<1> SUFFICES ASSUME MigrationInv, Repair PROVE MigrationInv'
  OBVIOUS
<1>1. /\ command.at = "stopped" /\ UNCHANGED <<command, journal>>
      /\ \/ authEmail' = rowEmail /\ rowEmail' = rowEmail
         \/ authEmail' = authEmail /\ rowEmail' = authEmail
  BY DEF Repair
<1>2. MigrationTypeOK' /\ Torn' = {}
  BY <1>1 DEF MigrationInv, MigrationTypeOK, Torn
<1>3. \A p \in People : authEmail'[p] = rowEmail'[p] /\ (rowEmail[p] = "new" => rowEmail'[p] = "new")
  BY <1>1 DEF MigrationInv, OneAhead
<1>4. OneAhead' /\ RunIsOnCourse' /\ NobodyIsLeft'
  BY <1>1, <1>2, <1>3 DEF MigrationInv, OneAhead, RunIsOnCourse, NobodyIsLeft
<1>5. QED
  BY <1>2, <1>4 DEF MigrationInv

RestoredByUndo ==
  RolledBack => \A p \in People : /\ authEmail'[p] = rowEmail'[p]
                                  /\ rowEmail'[p] = "old" <=> p \in command.plan

LEMMA MigrationStep ==
  MigrationInv /\ [MigrationNext]_migrationVars => MigrationInv' /\ RestoredByUndo
<1>1. ASSUME MigrationInv, MigrationNext PROVE MigrationInv'
  BY <1>1, PreflightKeeps, StayingPut, UpdateAuthKeeps, SetPlatformKeeps, RollbackRowKeeps,
     RollbackAccountKeeps, RepairKeeps DEF MigrationNext
<1>2. ASSUME MigrationInv, UNCHANGED migrationVars PROVE MigrationInv'
  <2>1. UNCHANGED <<authEmail, rowEmail, command, journal>>
    BY <1>2 DEF migrationVars
  <2>2. UNCHANGED <<Torn, Changed, Current>> /\ Todo' = Todo
    BY <2>1 DEF Torn, Changed, Current, Todo
  <2>3. MigrationTypeOK' /\ OneAhead' /\ NobodyIsLeft'
    BY <1>2, <2>1, <2>2 DEF MigrationInv, MigrationTypeOK, OneAhead, NobodyIsLeft
  <2>4. RunIsOnCourse'
    BY <1>2, <2>1, <2>2 DEF MigrationInv, RunIsOnCourse, New, Old
  <2>5. QED
    BY <2>3, <2>4 DEF MigrationInv
<1>3. ASSUME MigrationInv, RolledBack, NEW p \in People
      PROVE  /\ authEmail'[p] = rowEmail'[p]
             /\ rowEmail'[p] = "old" <=> p \in command.plan
  <2>1. Changed = {} /\ Todo = command.plan /\ command.at # "stopped"
    <3>0. DOMAIN << >> = {}
      OBVIOUS
    <3>1. command.changed = << >> /\ DOMAIN command.changed = {} /\ command.at = "undo row"
      BY <1>3, <3>0 DEF RolledBack
    <3>2. Changed = {}
      BY <3>1 DEF Changed
    <3>3. QED
      BY <3>1, <3>2 DEF Todo
  <2>2. UNCHANGED <<authEmail, rowEmail>>
    BY <1>3 DEF RolledBack
  <2>3. QED
    BY <1>3, <2>1, <2>2 DEF MigrationInv, RunIsOnCourse, Old, New
<1>4. QED
  BY <1>1, <1>2, <1>3 DEF RestoredByUndo

LEMMA MigrationInvariant == MigrationSpec => []MigrationInv
<1> QED
  BY MigrationStarts, MigrationStep, PTL DEF MigrationSpec

\* Every variable of the migration has its type.
THEOREM MigrationTyped == MigrationSpec => []MigrationTypeOK
<1>1. MigrationInv => MigrationTypeOK
  BY DEF MigrationInv
<1>2. QED
  BY <1>1, MigrationInvariant, PTL

\* For any number of people, and wherever the command is killed or fails: one at
\* most has two addresses, a journal that says "complete" is right for good, and
\* one that says "rolled_back" has everybody back.
THEOREM MigrationTold == MigrationSpec => MigrationIsTold
<1>1. MigrationInv => OneSplitAtMost
  <2> SUFFICES ASSUME MigrationInv PROVE OneSplitAtMost
    OBVIOUS
  <2>1. \A p \in Torn : authEmail[p] = "new"
    <3>1. \A p \in People : authEmail[p] \in Domains /\ rowEmail[p] \in Domains
      BY DEF MigrationInv, MigrationTypeOK
    <3>2. QED
      BY <3>1 DEF MigrationInv, OneAhead, Torn, Domains
  <2>2. CASE Torn = {}
    BY <2>1, <2>2, FS_EmptySet DEF OneSplitAtMost
  <2>3. ASSUME NEW p \in Torn PROVE OneSplitAtMost
    <3>1. Torn = {p}
      BY <2>3 DEF MigrationInv, OneAhead
    <3>2. Cardinality(Torn) = 1
      BY <3>1, FS_Singleton
    <3>3. QED
      BY <2>1, <3>2 DEF OneSplitAtMost
  <2>4. QED
    BY <2>2, <2>3
<1>2. MigrationInv => CompleteIsComplete
  BY DEF MigrationInv, OneAhead, NobodyIsLeft, CompleteIsComplete
<1>3. MigrationInv /\ [MigrationNext]_migrationVars
        => [RolledBack => \A p \in People :
              /\ authEmail'[p] = rowEmail'[p]
              /\ rowEmail'[p] = "old" <=> p \in command.plan]_migrationVars
  BY MigrationStep DEF RestoredByUndo
<1>4. QED
  BY <1>1, <1>2, <1>3, MigrationInvariant, PTL
     DEF MigrationSpec, MigrationIsTold, RolledBackIsRestored

\* What the reconciliation, or the migration, reports as done is done.
THEOREM OkIsTrue == IdentitySpec /\ MigrationSpec => OkMeansInSync
BY OkIsInSync, MigrationTold DEF OkMeansInSync

-------------------------------------------------------------------------------
(* The connected account: DisconnectSticks and LateAnswersAreLost hold for every
   number of rounds, accounts, administrators and calls.

   A round completes once, so its number and the generation of its tokens name
   one set of credentials (Named); rounds that are still unfinished were begun
   after the last disconnection (Fresh). *)

Reading(p) == session[p] # Idle

\* Rounds are numbered as they start.
Numbered == /\ \A r \in Rounds : rounds[r].phase # "none" => r <= started
            /\ expired \subseteq 1..started
            /\ barrier <= started

\* What is unfinished, or connected, was begun after the last disconnection.
Fresh == /\ \A r \in Unfinished : r > barrier
         /\ Connected => conn.og > barrier

\* The rounds behind rows are over and do not complete again.
Over(row) == rounds[row.og].phase \in {"completed", "purged"}
Completed == /\ Connected => Over(conn)
             /\ \A p \in Procs : Reading(p) => Over(session[p])

\* Generations name credentials, and no call is ahead of the row.
Named == Connected =>
           \A p \in Procs : Reading(p) /\ session[p].og = conn.og =>
             /\ session[p].tg <= conn.tg
             /\ session[p].tg = conn.tg => session[p].cred = conn.cred

ConnectionInv == TypeOK /\ Numbered /\ Fresh /\ Completed /\ Named

LEMMA RowIsARow == ASSUME TypeOK PROVE /\ Connected => conn \in Row
                                       /\ \A p \in Procs : Reading(p) => session[p] \in Row
  BY DEF TypeOK, Connected, Reading

\* Initially nothing is started, connected or read.
LEMMA ConnectionStarts == Init => ConnectionInv
  BY BoundsAreNumbers DEF Init, ConnectionInv, TypeOK, Numbered, Fresh, Completed, Named, Rounds,
     Phases, Unfinished, Connected, Reading

\* A write by a call keeps the round of the row and moves its token generation on.
LEMMA Renewed ==
  ASSUME conn \in Row, NEW live \in BOOLEAN, NEW cred \in Credentials
  PROVE  /\ Swapped(live, cred) \in Row
         /\ Swapped(live, cred).og = conn.og
         /\ Swapped(live, cred).tg = conn.tg + 1
  BY DEF Row, Swapped

LEMMA ConnectionKept == ConnectionInv /\ [Next]_vars => ConnectionInv'
<1> SUFFICES ASSUME ConnectionInv, [Next]_vars PROVE ConnectionInv'
  OBVIOUS
<1> USE BoundsAreNumbers
<1>r. /\ Connected => conn \in Row
      /\ \A p \in Procs : Reading(p) => session[p] \in Row
  BY RowIsARow DEF ConnectionInv
<1>1. ASSUME NEW a \in Admins, NEW old \in SUBSET expired, CreateOAuthState(a, old) PROVE ConnectionInv'
  <2> USE <1>1
  <2>a. /\ Ended(old, "purged") \in [Rounds -> [phase : Phases, actor : Admins \cup {Idle}]]
        /\ \A r \in Rounds : Ended(old, "purged")[r].phase =
                             IF r \in old THEN "purged" ELSE rounds[r].phase
    BY DEF ConnectionInv, TypeOK, Ended, Phases
  <2>b. /\ rounds' = [Ended(old, "purged") EXCEPT ![started + 1] = [phase |-> "open", actor |-> a]]
        /\ [phase |-> "open", actor |-> a] \in [phase : Phases, actor : Admins \cup {Idle}]
        /\ started + 1 \in Rounds
    BY DEF ConnectionInv, TypeOK, CreateOAuthState, Phases, Rounds
  <2>1. TypeOK'
    <3>1. rounds' \in [Rounds -> [phase : Phases, actor : Admins \cup {Idle}]]
      BY <2>a, <2>b
    <3> QED BY <3>1, <2>b DEF ConnectionInv, TypeOK, CreateOAuthState, connVars, Rounds
  <2>2. \A r \in Rounds : rounds'[r].phase = IF r = started + 1 THEN "open"
                                             ELSE IF r \in old THEN "purged" ELSE rounds[r].phase
    BY <2>a, <2>b
  <2>3. Numbered'
    BY <2>2 DEF ConnectionInv, TypeOK, Numbered, CreateOAuthState, connVars, Rounds
  <2>4. Fresh'
    BY <2>2 DEF ConnectionInv, TypeOK, Numbered, Fresh, CreateOAuthState, connVars, Rounds, Unfinished, Connected
  <2>5. Completed'
    <3>1. ASSUME NEW row \in Row, Over(row) PROVE Over(row)'
      BY <2>2, <3>1 DEF ConnectionInv, TypeOK, Numbered, Over, Row, CreateOAuthState, Rounds
    <3> QED BY <1>r, <3>1 DEF ConnectionInv, Completed, CreateOAuthState, connVars, Connected, Reading, Over
  <2>6. Named'
    BY DEF ConnectionInv, Named, CreateOAuthState, connVars, Connected, Reading
  <2> QED BY <2>1, <2>3, <2>4, <2>5, <2>6 DEF ConnectionInv
<1>2. ASSUME NEW set \in SUBSET Unfinished, NEW phase \in {"consumed", "cancelled", "failed"},
             rounds' = Ended(set, phase), UNCHANGED <<started, expired, authorized, connVars>>
      PROVE ConnectionInv'
  <2> USE <1>2
  <2>1. \A r \in Rounds : rounds'[r] = IF r \in set THEN [rounds[r] EXCEPT !.phase = phase]
                                       ELSE rounds[r]
    BY DEF Ended
  <2>2. TypeOK'
    BY DEF ConnectionInv, TypeOK, Ended, connVars, Rounds, Phases
  <2>3. Numbered' /\ Fresh'
    BY <2>1 DEF ConnectionInv, TypeOK, Numbered, Fresh, connVars, Unfinished, Connected
  <2>4. ASSUME NEW row \in Row, Over(row) PROVE Over(row)'
    BY <2>1, <2>4 DEF Over, Row, Unfinished
  <2>5. Completed'
    BY <1>r, <2>4 DEF ConnectionInv, Completed, connVars, Connected, Reading, Over
  <2>6. Named'
    BY DEF ConnectionInv, Named, connVars, Connected, Reading
  <2> QED BY <2>2, <2>3, <2>5, <2>6 DEF ConnectionInv
<1>3. ASSUME NEW r \in Rounds, NEW a \in Accounts, CompleteOAuth(r, a) PROVE ConnectionInv'
  <2> USE <1>3
  <2> DEFINE older == {q \in Unfinished : q < r}
  <2>a. /\ Ended(older, "cancelled") \in [Rounds -> [phase : Phases, actor : Admins \cup {Idle}]]
        /\ \A q \in Rounds : Ended(older, "cancelled")[q].phase =
                             IF q \in older THEN "cancelled" ELSE rounds[q].phase
    BY DEF ConnectionInv, TypeOK, Ended, Phases
  <2>b. rounds' = [Ended(older, "cancelled") EXCEPT ![r].phase = "completed"]
    BY DEF CompleteOAuth
  <2>1. \A q \in Rounds :
          rounds'[q].phase = IF q = r THEN "completed"
                             ELSE IF q \in Unfinished /\ q < r THEN "cancelled"
                             ELSE rounds[q].phase
    BY <2>a, <2>b
  <2>2. /\ conn' \in Row /\ conn'.og = r /\ conn'.tg = 0 /\ issued' \in 0..MaxTokens
        /\ UNCHANGED <<started, expired, authorized, session, barrier>>
    BY <1>r DEF ConnectionInv, TypeOK, CompleteOAuth, NewCredentials, Row, Credentials, Rounds
  <2>3. TypeOK'
    <3>1. rounds' \in [Rounds -> [phase : Phases, actor : Admins \cup {Idle}]]
      <4> HIDE DEF older
      <4> QED BY <2>a, <2>b DEF Phases
    <3> QED BY <3>1, <2>2 DEF ConnectionInv, TypeOK
  <2>4. r > barrier /\ r <= started /\ rounds[r].phase = "consumed"
    BY DEF ConnectionInv, Numbered, Fresh, CompleteOAuth, Completable, Unfinished
  <2>5. Numbered' /\ Fresh'
    BY <2>1, <2>2, <2>4 DEF ConnectionInv, TypeOK, Numbered, Fresh, Unfinished, Connected
  <2>6. \A p \in Procs : Reading(p) => session[p].og # r
    BY <2>4 DEF ConnectionInv, Completed, Over
  <2>7. Completed'
    BY <1>r, <2>1, <2>2, <2>6 DEF ConnectionInv, TypeOK, Completed, Reading, Over, Row, Unfinished
  <2>8. Named'
    BY <2>2, <2>6 DEF Named, Reading
  <2> QED BY <2>3, <2>5, <2>7, <2>8 DEF ConnectionInv
<1>4. ASSUME NEW a \in Admins, Disconnect(a) PROVE ConnectionInv'
  <2> USE <1>4
  <2>1. \A r \in Rounds : rounds'[r] = IF r \in Unfinished
                                       THEN [rounds[r] EXCEPT !.phase = "cancelled"] ELSE rounds[r]
    BY DEF Disconnect, Ended, DisconnectedRounds
  <2>2. TypeOK'
    BY DEF ConnectionInv, TypeOK, Disconnect, Ended, Rounds, Phases
  <2>3. Unfinished' = {} /\ ~Connected'
    BY <2>1 DEF ConnectionInv, TypeOK, Unfinished, Disconnect, Connected
  <2>4. Numbered'
    <3>1. \A r \in Rounds : rounds'[r].phase # "none" => rounds[r].phase # "none"
      BY <2>1 DEF Unfinished
    <3> QED BY <3>1 DEF ConnectionInv, TypeOK, Numbered, Disconnect
  <2>f. Fresh'
    BY <2>3 DEF Fresh
  <2>5. ASSUME NEW row \in Row, Over(row) PROVE Over(row)'
    BY <2>1, <2>5 DEF Over, Row, Unfinished
  <2>6. Completed' /\ Named'
    BY <1>r, <2>3, <2>5 DEF ConnectionInv, Completed, Named, Disconnect, Reading, Over
  <2> QED BY <2>2, <2>4, <2>f, <2>6 DEF ConnectionInv
<1>5. ASSUME NEW r \in Rounds, Expire(r) PROVE ConnectionInv'
  BY <1>5 DEF ConnectionInv, TypeOK, Numbered, Fresh, Completed, Named, Expire, connVars, Rounds,
     Unfinished, Connected, Reading, Over
<1>6. ASSUME NEW a \in Admins, Demote(a) \/ Promote(a) PROVE ConnectionInv'
  BY <1>6 DEF ConnectionInv, TypeOK, Numbered, Fresh, Completed, Named, Demote, Promote, connVars,
     Unfinished, Connected, Reading, Over
<1>7. ASSUME NEW p \in Procs, \/ ReadConnection(p) \/ EndCall(p)
                              \/ UNCHANGED <<stateVars, conn, issued>> /\ Reload(p)
      PROVE ConnectionInv'
  <2>1. /\ UNCHANGED <<stateVars, conn, issued>>
        /\ \/ Connected /\ session' = [session EXCEPT ![p] = conn]
           \/ session' = [session EXCEPT ![p] = Idle]
    BY <1>7 DEF ReadConnection, EndCall, Reload
  <2>2. TypeOK' /\ Numbered' /\ Fresh'
    BY <1>r, <2>1 DEF ConnectionInv, TypeOK, Numbered, Fresh, stateVars, Unfinished, Connected
  <2>3. Completed'
    BY <2>1 DEF ConnectionInv, TypeOK, Completed, stateVars, Connected, Reading, Over
  <2>4. Named'
    BY <1>r, <2>1 DEF ConnectionInv, TypeOK, Named, stateVars, Connected, Reading, Row
  <2> QED BY <2>2, <2>3, <2>4 DEF ConnectionInv
<1>8. ASSUME NEW p \in Procs, session[p] # Idle, Matches(session[p]),
             UNCHANGED stateVars, issued' \in 0..MaxTokens,
             NEW live \in BOOLEAN, NEW cred \in Credentials,
             conn' = Swapped(live, cred),
             session' \in {[session EXCEPT ![p] = conn'], [session EXCEPT ![p] = Idle]}
      PROVE ConnectionInv'
  <2> USE <1>8
  <2>1. /\ conn \in Row /\ conn' \in Row
        /\ conn'.og = conn.og /\ conn'.tg = conn.tg + 1
    <3>1. conn \in Row
      BY <1>r DEF Matches
    <3> QED BY <3>1, Renewed
  <2>2. TypeOK' /\ Numbered'
    BY <2>1 DEF ConnectionInv, TypeOK, Numbered, stateVars
  <2>3. Fresh'
    BY <2>1 DEF ConnectionInv, TypeOK, Fresh, Matches, stateVars, Unfinished
  <2>4. Completed'
    BY <2>1 DEF ConnectionInv, TypeOK, Completed, stateVars, Matches, Reading, Over
  <2>5. ASSUME NEW q \in Procs, Reading(q)', session'[q].og = conn'.og
        PROVE session'[q] = conn' \/ session'[q].tg <= conn.tg
    BY <1>r, <2>1, <2>5 DEF ConnectionInv, TypeOK, Named, Matches, Reading
  <2>6. Named'
    <3>1. ASSUME NEW q \in Procs, Reading(q)', session'[q].og = conn'.og
          PROVE session'[q].tg <= conn'.tg /\ (session'[q].tg = conn'.tg => session'[q].cred = conn'.cred)
      <4>1. CASE session'[q] = conn'
        BY <4>1, <2>1 DEF Row
      <4>2. CASE session'[q] # conn' /\ session'[q].tg <= conn.tg
        <5>1. session'[q] \in Row
          BY <2>2, <3>1 DEF TypeOK, Reading
        <5> QED BY <4>2, <5>1, <2>1 DEF Row
      <4> QED BY <4>1, <4>2, <2>5, <3>1
    <3> QED BY <3>1 DEF Named
  <2> QED BY <2>2, <2>3, <2>4, <2>6 DEF ConnectionInv
<1>9. ASSUME NEW p \in Procs, StoreRefreshed(p) PROVE ConnectionInv'
  <2>1. issued' \in Credentials /\ issued' \in 0..MaxTokens
    BY <1>9 DEF ConnectionInv, TypeOK, StoreRefreshed, NewCredentials, Credentials
  <2>2. CASE Matches(session[p])
    BY <1>9, <1>8, <2>1, <2>2 DEF StoreRefreshed
  <2>3. CASE ~Matches(session[p])
    <3>2. /\ UNCHANGED <<stateVars, conn>>
          /\ \/ Connected /\ session' = [session EXCEPT ![p] = conn]
             \/ session' = [session EXCEPT ![p] = Idle]
      BY <1>9, <2>3 DEF StoreRefreshed, Reload
    <3>3. TypeOK' /\ Numbered' /\ Fresh'
      BY <1>r, <2>1, <3>2 DEF ConnectionInv, TypeOK, Numbered, Fresh, stateVars, Unfinished, Connected
    <3>4. Completed'
      BY <3>2 DEF ConnectionInv, TypeOK, Completed, stateVars, Connected, Reading, Over
    <3>5. Named'
      BY <1>r, <3>2 DEF ConnectionInv, TypeOK, Named, stateVars, Connected, Reading, Row
    <3> QED BY <3>3, <3>4, <3>5 DEF ConnectionInv
  <2> QED BY <2>2, <2>3
<1>10. ASSUME NEW p \in Procs, ClearCredentials(p) PROVE ConnectionInv'
  <2>1. CASE Matches(session[p])
    <3>1. conn \in Row
      BY <1>r, <2>1 DEF Matches
    <3>2. /\ conn.cred \in Credentials
          /\ conn' = Swapped(FALSE, conn.cred)
      BY <1>10, <2>1, <3>1 DEF ClearCredentials, Row
    <3> QED BY <1>10, <1>8, <2>1, <3>2 DEF ClearCredentials, ConnectionInv, TypeOK
  <2>2. CASE ~Matches(session[p])
    BY <1>10, <1>7, <2>2 DEF ClearCredentials
  <2> QED BY <2>1, <2>2
<1>11. ASSUME NEW r \in Rounds PROVE
         /\ \A phase \in {"consumed", "cancelled", "failed"} : ConsumeOAuthState(r, phase) => ConnectionInv'
         /\ FailOAuthState(r) => ConnectionInv'
  BY <1>2 DEF ConsumeOAuthState, FailOAuthState, Unfinished
<1>12. CASE UNCHANGED vars
  BY <1>12 DEF ConnectionInv, TypeOK, Numbered, Fresh, Completed, Named, vars, Unfinished, Connected,
     Reading, Over
<1> QED BY <1>1, <1>3, <1>4, <1>5, <1>6, <1>7, <1>9, <1>10, <1>11, <1>12 DEF Next

\* Every row of rounds, connection and calls has its type, in every instance.
THEOREM ConnectionTyped == Spec => []TypeOK
<1>1. ConnectionInv => TypeOK
  BY DEF ConnectionInv
<1> QED BY <1>1, ConnectionStarts, ConnectionKept, PTL DEF Spec

\* No round begun before a disconnection connects the tenant again.
THEOREM DisconnectedForGood == Spec => []DisconnectSticks
<1>1. ConnectionInv => DisconnectSticks
  BY DEF ConnectionInv, Fresh, DisconnectSticks
<1> QED BY <1>1, ConnectionStarts, ConnectionKept, PTL DEF Spec

\* Credentials are replaced by a newer round, or by a call that read them.
THEOREM LateAnswersLost == Spec => LateAnswersAreLost
<1> DEFINE Step == Connected /\ conn' # NoRow /\ conn' # conn =>
       \/ conn'.og > conn.og
       \/ /\ conn'.og = conn.og /\ conn'.id = conn.id
          /\ \E p \in Procs : session[p] # Idle /\ session[p].cred = conn.cred
<1>1. ASSUME ConnectionInv, Next, Connected, conn' # NoRow, conn' # conn PROVE Step
  <2> USE <1>1
  <2>r. conn \in Row /\ \A p \in Procs : Reading(p) => session[p] \in Row
    BY RowIsARow DEF ConnectionInv
  <2>1. ASSUME NEW r \in Rounds, NEW a \in Accounts, CompleteOAuth(r, a)
        PROVE conn'.og > conn.og
    BY <2>1, <2>r DEF CompleteOAuth, Superseded, Row, Rounds
  <2>2. ASSUME NEW p \in Procs, Matches(session[p]), session[p] # Idle,
               conn'.og = conn.og, conn'.id = conn.id
        PROVE Step
    BY <2>2, <2>r DEF ConnectionInv, Named, Matches, Reading
  <2>3. ASSUME NEW p \in Procs, StoreRefreshed(p) \/ ClearCredentials(p) PROVE Step
    BY <2>2, <2>3, <2>r DEF StoreRefreshed, ClearCredentials, Swapped
  <2>4. ASSUME NEW a \in Admins, Disconnect(a) PROVE FALSE
    BY <2>4 DEF Disconnect
  <2> QED BY <2>1, <2>3, <2>4 DEF Next, CreateOAuthState, ConsumeOAuthState, FailOAuthState,
       Expire, Demote, Promote, ReadConnection, EndCall, connVars
<1>2. ConnectionInv /\ [Next]_vars => [Step]_vars
  BY <1>1 DEF vars
<1> QED BY <1>2, ConnectionStarts, ConnectionKept, PTL DEF Spec, LateAnswersAreLost
===============================================================================
