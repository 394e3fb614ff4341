---------------------------- MODULE Billing_proofs ----------------------------
(***************************************************************************)
(* Proofs about Billing.tla, for every set of tenants and addresses, any   *)
(* number of signups, and handlers that may fail between two calls.        *)
(*                                                                         *)
(* The argument: an intent keeps its tenant and address, a finished        *)
(* session stays finished, and a users row, once written, keeps its        *)
(* tenant.  Whatever prefix of its calls a provisioning completed, each    *)
(* property therefore only depends on the order of the calls.              *)
(***************************************************************************)
EXTENDS Billing, SequenceTheorems, TLAPS

\* An event was sent for an intent there is, and says of it what still holds.
EventsAreTrue ==
  \A ev \in events :
     /\ ev.intent \in Intents
     /\ ev.says = "unpaid" => session[ev.intent] \in Finished
     /\ ev.says \in {"paid", "active"} => session[ev.intent] = "paid"

Bounded == Len(intents) <= MaxIntents

IInv ==
  /\ TypeOK /\ Bounded /\ EventsAreTrue
  /\ ClaimsMatchProfile /\ PasswordKeptForRetry /\ ProvisionedIsWhole
  /\ ActiveIsPaid /\ AdminBoughtTenant

-------------------------------------------------------------------------------
(* Rows and calls *)

LEMMA IntentAt ==
  ASSUME TypeOK, NEW k \in Intents
  PROVE  /\ intents[k] \in IntentRow
         /\ intents[k].tenant \in Tenants /\ intents[k].email \in Emails
         /\ intents[k].password \in BOOLEAN
         /\ k \in 1 .. Len(intents) /\ Len(intents) \in Nat /\ k \in Nat /\ k # 0
         /\ session[k] \in {"none", "open", "unpaid", "paid"}
         /\ k \in 1 .. Len(session) /\ k \in 1 .. Len(sold)
<1>1. intents[k] \in IntentRow /\ k \in 1 .. Len(intents) /\ Len(intents) \in Nat
  BY DEF TypeOK, Intents
<1>2. k \in 1 .. Len(session) /\ k \in 1 .. Len(sold)
  BY <1>1 DEF TypeOK
<1>3. session[k] \in {"none", "open", "unpaid", "paid"}
  BY <1>2 DEF TypeOK
<1>4. QED
  BY <1>1, <1>2, <1>3 DEF IntentRow

\* A handler that made a call of the provisioning made those before it.
LEMMA CallsInOrder ==
  ASSUME NEW done \in Prefixes(ProvisionCalls)
  PROVE  /\ "auth" \in done => "org" \in done
         /\ "user" \in done => "auth" \in done
         /\ "password" \in done => "user" \in done
         /\ "subscription" \in done => "password" \in done
         /\ "bootstrap" \in done => "subscription" \in done
         /\ "intent" \in done => "bootstrap" \in done
<1>1. PICK n \in 1 .. 7 : done = {ProvisionCalls[k] : k \in 1 .. n}
  BY DEF Prefixes, ProvisionCalls
<1>2. \A c : c \in done <=> \E k \in 1 .. n : c = ProvisionCalls[k]
  BY <1>1
<1>3. /\ "org" \in done <=> n >= 1
      /\ "auth" \in done <=> n >= 2
      /\ "user" \in done <=> n >= 3
      /\ "password" \in done <=> n >= 4
      /\ "subscription" \in done <=> n >= 5
      /\ "bootstrap" \in done <=> n >= 6
      /\ "intent" \in done <=> n >= 7
  BY <1>2 DEF ProvisionCalls
<1>4. QED
  BY <1>3

-------------------------------------------------------------------------------
(* What every step keeps *)

\* No step takes an intent back, gives it to somebody else, or undoes a checkout
\* that was finished; a users row keeps its tenant.
Kept ==
  /\ Intents \subseteq Intents'
  /\ \A k \in Intents : /\ intents'[k].tenant = intents[k].tenant
                        /\ intents'[k].email = intents[k].email
                        /\ session[k] \in Finished => session'[k] \in Finished
                        /\ session[k] = "paid" => session'[k] = "paid"
  /\ \A e \in Emails : profile[e] # None => profile'[e] = profile[e]

\* What an update of one intent leaves of the table.
LEMMA UpdateIntent ==
  ASSUME TypeOK, NEW k \in Intents, NEW row \in IntentRow,
         intents' = [intents EXCEPT ![k] = row]
  PROVE  /\ intents' \in Seq(IntentRow) /\ Len(intents') = Len(intents) /\ Intents' = Intents
         /\ intents'[k] = row
         /\ \A j \in Intents : j # k => intents'[j] = intents[j]
<1>1. intents \in Seq(IntentRow) /\ k \in 1 .. Len(intents)
  BY DEF TypeOK, Intents
<1>2. QED
  BY <1>1, ExceptSeq DEF Intents

\* Whoever finished a checkout is provisioned from any prefix of the calls.
LEMMA ProvisionStep ==
  ASSUME IInv, NEW k \in Intents, NEW paid \in BOOLEAN, NEW done \in Prefixes(ProvisionCalls),
         session[k] \in Finished, paid => session[k] = "paid",
         Provision(k, paid, done)
  PROVE  IInv' /\ Kept
<1> DEFINE t == intents[k].tenant
           e == intents[k].email
           ran == IF AdminAccepted(k) THEN done ELSE done \cap {"org"}
           row == [intents[k] EXCEPT !.password = @ /\ "password" \notin ran,
                                     !.status = IF "intent" \in ran THEN "provisioned" ELSE @]
<1> USE DEF IInv
<1>1. /\ intents[k] \in IntentRow /\ t \in Tenants /\ e \in Emails
      /\ k \in 1 .. Len(intents) /\ Len(intents) \in Nat /\ k \in Nat /\ k # 0
  BY IntentAt
<1>2. /\ "user" \in ran => "auth" \in ran
      /\ "password" \in ran => "user" \in ran
      /\ "subscription" \in ran => "password" \in ran
      /\ "bootstrap" \in ran => "subscription" \in ran
      /\ "intent" \in ran => "bootstrap" \in ran
      /\ \A c \in ran : c = "org" \/ AdminAccepted(k)
  BY CallsInOrder
<1>3. /\ billing' = [billing EXCEPT ![t] = IF "org" \in ran THEN SubscriptionStatus(paid) ELSE @]
      /\ auth'    = [auth EXCEPT ![e] = IF "auth" \in ran THEN t ELSE @]
      /\ profile' = [profile EXCEPT ![e] = IF "user" \in ran THEN t ELSE @]
      /\ active'  = IF "user" \in ran THEN active \cup {e} ELSE active
      /\ subscription' = [subscription EXCEPT ![t] =
                            IF "subscription" \in ran
                            THEN [intent |-> k, status |-> SubscriptionStatus(paid)] ELSE @]
      /\ bootstrapped' = IF "bootstrap" \in ran THEN bootstrapped \cup {t} ELSE bootstrapped
      /\ session' = session /\ sold' = sold /\ events' = events
  BY DEF Provision, stripe
<1>4. row \in IntentRow /\ row.tenant = t /\ row.email = e
  BY <1>1 DEF IntentRow, IntentStatuses
<1>5. intents' = [intents EXCEPT ![k] = row]
  BY <1>1 DEF Provision, TypeOK
<1>6. /\ intents' \in Seq(IntentRow) /\ Len(intents') = Len(intents) /\ Intents' = Intents
      /\ intents'[k] = row
      /\ \A j \in Intents : j # k => intents'[j] = intents[j]
  BY <1>4, <1>5, UpdateIntent
<1>7. \A j \in Intents : intents'[j].tenant = intents[j].tenant /\ intents'[j].email = intents[j].email
  BY <1>4, <1>6
<1>8. \A x \in Emails : profile[x] # None => profile'[x] = profile[x]
  BY <1>1, <1>2, <1>3 DEF TypeOK, AdminAccepted
<1>9. "user" \in ran => profile'[e] = t
  BY <1>1, <1>3 DEF TypeOK
<1>10. Kept
  BY <1>3, <1>6, <1>7, <1>8 DEF Kept
<1>11. TypeOK'
  <2>1. SubscriptionStatus(paid) \in {"pending_stripe_sync", "active"}
    BY DEF SubscriptionStatus
  <2>2. billing' \in [Tenants -> {"none", "pending_checkout", "pending_stripe_sync", "active"}]
    BY <1>1, <1>3, <2>1 DEF TypeOK
  <2>3. k \in 1 .. MaxIntents
    BY <1>1, BoundsAssumption DEF Bounded
  <2>4. subscription' \in [Tenants -> SubscriptionRow \cup {NoSubscription}]
    BY <1>1, <1>3, <2>1, <2>3 DEF TypeOK, SubscriptionRow
  <2>5. profile' \in [Emails -> Tenants \cup {None}] /\ auth' \in [Emails -> Tenants \cup {None}]
    BY <1>1, <1>3 DEF TypeOK
  <2>6. active' \subseteq {x \in Emails : profile'[x] # None}
    BY <1>1, <1>3, <1>8, <1>9, TenantsAssumption DEF TypeOK
  <2>7. bootstrapped' \subseteq Tenants
    BY <1>1, <1>3 DEF TypeOK
  <2>8. QED
    BY <1>3, <1>6, <2>2, <2>4, <2>5, <2>6, <2>7 DEF TypeOK
<1>12. Bounded' /\ EventsAreTrue'
  BY <1>3, <1>6 DEF Bounded, EventsAreTrue
<1>13. ClaimsMatchProfile'
  BY <1>1, <1>2, <1>3 DEF ClaimsMatchProfile, TypeOK, AdminAccepted
<1>14. PasswordKeptForRetry'
  <2> SUFFICES ASSUME NEW j \in Intents, ~ intents'[j].password
               PROVE  profile'[intents[j].email] = intents[j].tenant
    BY <1>6, <1>7 DEF PasswordKeptForRetry
  <2>1. CASE ~ intents[j].password
    <3>1. profile[intents[j].email] = intents[j].tenant /\ intents[j].tenant # None
      BY <2>1, IntentAt, TenantsAssumption DEF PasswordKeptForRetry
    <3>2. QED
      BY <3>1, <1>8, IntentAt
  <2>2. CASE intents[j].password
    <3>1. j = k /\ "password" \in ran
      BY <2>2, <1>1, <1>6 DEF IntentRow
    <3>2. QED
      BY <3>1, <1>2, <1>9
  <2>3. QED
    BY <2>1, <2>2
<1>15. ProvisionedIsWhole'
  <2> SUFFICES ASSUME NEW j \in Intents, intents'[j].status = "provisioned"
               PROVE  /\ profile'[intents[j].email] = intents[j].tenant
                      /\ subscription'[intents[j].tenant] # NoSubscription
                      /\ intents[j].tenant \in bootstrapped'
    BY <1>6, <1>7 DEF ProvisionedIsWhole, Provisioned
  <2>0. [intent |-> k, status |-> SubscriptionStatus(paid)] # NoSubscription
    BY <1>1 DEF NoSubscription
  <2>1. CASE intents[j].status = "provisioned"
    <3>1. /\ profile[intents[j].email] = intents[j].tenant /\ intents[j].tenant # None
          /\ subscription[intents[j].tenant] # NoSubscription /\ intents[j].tenant \in bootstrapped
          /\ intents[j].email \in Emails /\ intents[j].tenant \in Tenants
      BY <2>1, IntentAt, TenantsAssumption DEF ProvisionedIsWhole, Provisioned
    <3>2. QED
      BY <3>1, <2>0, <1>1, <1>3, <1>8 DEF TypeOK
  <2>2. CASE intents[j].status # "provisioned"
    <3>1. j = k /\ "intent" \in ran
      BY <2>2, <1>1, <1>6 DEF IntentRow
    <3>2. QED
      BY <3>1, <2>0, <1>1, <1>2, <1>3, <1>9 DEF TypeOK
  <2>3. QED
    BY <2>1, <2>2
<1>16. ActiveIsPaid'
  <2> SUFFICES ASSUME NEW x \in Tenants, subscription'[x].intent # 0
               PROVE  LET j == subscription'[x].intent
                      IN  /\ j \in Intents /\ intents[j].tenant = x
                          /\ session[j] \in Finished
                          /\ subscription'[x].status = "active" => session[j] = "paid"
    BY <1>3, <1>6, <1>7 DEF ActiveIsPaid
  <2>1. CASE subscription'[x] = subscription[x]
    BY <2>1 DEF ActiveIsPaid
  <2>2. CASE subscription'[x] # subscription[x]
    <3>1. x = t /\ subscription'[x] = [intent |-> k, status |-> SubscriptionStatus(paid)]
      BY <2>2, <1>1, <1>3 DEF TypeOK
    <3>2. QED
      BY <3>1, <1>1 DEF SubscriptionStatus
  <2>3. QED
    BY <2>1, <2>2
<1>17. AdminBoughtTenant'
  <2> SUFFICES ASSUME NEW x \in Emails, profile'[x] # None
               PROVE  \E j \in Intents : /\ intents[j].email = x /\ intents[j].tenant = profile'[x]
                                         /\ session[j] \in Finished
    BY <1>3, <1>6, <1>7 DEF AdminBoughtTenant
  <2>1. CASE profile'[x] = profile[x]
    BY <2>1 DEF AdminBoughtTenant
  <2>2. CASE profile'[x] # profile[x]
    <3>1. x = e /\ profile'[x] = t
      BY <2>2, <1>1, <1>3 DEF TypeOK
    <3>2. QED
      BY <3>1, <1>1
  <2>3. QED
    BY <2>1, <2>2
<1>18. QED
  BY <1>10, <1>11, <1>12, <1>13, <1>14, <1>15, <1>16, <1>17

\* A signup adds an intent nobody has a session of, for a tenant without users.
LEMMA SignupStep ==
  ASSUME IInv, NEW t \in Tenants, NEW e \in Emails, NEW done \in Prefixes(<<"org", "intent">>),
         CreateSignupIntent(t, e, done)
  PROVE  /\ IInv' /\ Kept
         /\ \A k \in Intents' \ Intents :
               \A x \in Emails : profile[x] # intents'[k].tenant
<1> DEFINE row == [tenant |-> t, email |-> e, status |-> "pending_checkout", password |-> TRUE]
           n == Len(intents)
<1> USE DEF IInv
<1>1. /\ billing' = [billing EXCEPT ![t] = "pending_checkout"]
      /\ subscription' = subscription /\ profile' = profile /\ active' = active
      /\ auth' = auth /\ bootstrapped' = bootstrapped /\ events' = events
      /\ n < MaxIntents /\ \A x \in Emails : profile[x] # t
  BY DEF CreateSignupIntent, SlugAvailable
<1>2. billing' \in [Tenants -> {"none", "pending_checkout", "pending_stripe_sync", "active"}]
  BY <1>1 DEF TypeOK
<1>3. intents \in Seq(IntentRow) /\ n \in Nat /\ Intents = 1 .. n
      /\ session \in Seq({"none", "open", "unpaid", "paid"}) /\ Len(session) = n
      /\ sold \in Seq({"none", "incomplete", "active", "canceled"}) /\ Len(sold) = n
  BY DEF TypeOK, Intents
<1>4. CASE "intent" \notin done
  <2>1. intents' = intents /\ session' = session /\ sold' = sold /\ Intents' = Intents
    BY <1>4 DEF CreateSignupIntent, Intents
  <2>2. TypeOK'
    BY <1>1, <1>2, <2>1 DEF TypeOK
  <2>3. QED
    BY <1>1, <2>1, <2>2 DEF Kept, Bounded, EventsAreTrue, ClaimsMatchProfile,
       PasswordKeptForRetry, ProvisionedIsWhole, Provisioned, ActiveIsPaid, AdminBoughtTenant
<1>5. CASE "intent" \in done
  <2>1. /\ intents' = Append(intents, row) /\ row \in IntentRow
        /\ session' = Append(session, "none") /\ sold' = Append(sold, "none")
    BY <1>5 DEF CreateSignupIntent, IntentRow, IntentStatuses
  <2>2. /\ intents' \in Seq(IntentRow) /\ Len(intents') = n + 1 /\ Intents' = 1 .. n + 1
        /\ \A k \in 1 .. n : intents'[k] = intents[k] /\ session'[k] = session[k]
        /\ intents'[n + 1] = row /\ session'[n + 1] = "none"
        /\ session' \in Seq({"none", "open", "unpaid", "paid"}) /\ Len(session') = n + 1
        /\ sold' \in Seq({"none", "incomplete", "active", "canceled"}) /\ Len(sold') = n + 1
    BY <1>3, <2>1, AppendProperties DEF Intents
  <2>3. TypeOK' /\ Bounded'
    BY <1>1, <1>2, <2>2, BoundsAssumption, <1>3 DEF TypeOK, Bounded
  <2>4. Kept
    <3>1. Intents \subseteq Intents'
      BY <1>3, <2>2
    <3>2. QED
      BY <1>1, <1>3, <2>2, <3>1 DEF Kept
  <2>5. EventsAreTrue' /\ ClaimsMatchProfile' /\ ActiveIsPaid' /\ AdminBoughtTenant'
    <3>1. 1 .. n \subseteq 1 .. n + 1
      BY <1>3
    <3>2. EventsAreTrue' /\ ClaimsMatchProfile'
      BY <1>1, <1>3, <2>2, <3>1 DEF EventsAreTrue, ClaimsMatchProfile
    <3>3. ActiveIsPaid'
      BY <1>1, <1>3, <2>2, <3>1 DEF ActiveIsPaid
    <3>4. AdminBoughtTenant'
      BY <1>1, <1>3, <2>2, <3>1 DEF AdminBoughtTenant
    <3>5. QED
      BY <3>2, <3>3, <3>4
  <2>6. PasswordKeptForRetry' /\ ProvisionedIsWhole'
    <3>1. row.password /\ row.status # "provisioned"
      OBVIOUS
    <3>2. \A k \in Intents' : (k \in Intents /\ intents'[k] = intents[k]) \/ intents'[k] = row
      BY <1>3, <2>2
    <3>3. QED
      BY <1>1, <3>1, <3>2 DEF PasswordKeptForRetry, ProvisionedIsWhole, Provisioned
  <2>7. \A k \in Intents' \ Intents : k = n + 1 /\ intents'[k].tenant = t
    BY <1>3, <2>2
  <2>8. QED
    BY <1>1, <2>3, <2>4, <2>5, <2>6, <2>7
<1>6. QED
  BY <1>4, <1>5

LEMMA CheckoutStep ==
  ASSUME IInv, NEW k \in Intents, CreateCheckout(k)
  PROVE  IInv' /\ Kept /\ Intents' = Intents
<1> DEFINE row == [intents[k] EXCEPT !.status = "checkout_created"]
<1> USE DEF IInv
<1>1. /\ session[k] = "none" /\ session' = [session EXCEPT ![k] = "open"]
      /\ billing' = billing /\ subscription' = subscription /\ profile' = profile
      /\ active' = active /\ auth' = auth /\ bootstrapped' = bootstrapped
      /\ sold' = sold /\ events' = events
      /\ intents' = [intents EXCEPT ![k] = row]
  BY DEF CreateCheckout
<1>2. row \in IntentRow /\ row.tenant = intents[k].tenant /\ row.email = intents[k].email
      /\ row.password = intents[k].password /\ row.status = "checkout_created"
  BY IntentAt DEF IntentRow, IntentStatuses
<1>3. /\ intents' \in Seq(IntentRow) /\ Len(intents') = Len(intents) /\ Intents' = Intents
      /\ intents'[k] = row
      /\ \A j \in Intents : j # k => intents'[j] = intents[j]
  BY <1>1, <1>2, UpdateIntent
<1>4. \A j \in Intents : /\ intents'[j].tenant = intents[j].tenant
                         /\ intents'[j].email = intents[j].email
                         /\ intents'[j].password = intents[j].password
                         /\ intents'[j].status = "provisioned" => intents[j].status = "provisioned"
  BY <1>2, <1>3
<1>5. /\ session' \in Seq({"none", "open", "unpaid", "paid"}) /\ Len(session') = Len(session)
      /\ \A j \in Intents : session[j] \in Finished => session'[j] = session[j]
  <2>1. session \in Seq({"none", "open", "unpaid", "paid"}) /\ k \in 1 .. Len(session)
    BY IntentAt DEF TypeOK
  <2>2. Intents = 1 .. Len(session)
    BY DEF TypeOK, Intents
  <2>3. QED
    BY <1>1, <2>1, <2>2, ExceptSeq DEF Finished
<1>6. TypeOK' /\ Bounded' /\ Kept
  BY <1>1, <1>3, <1>4, <1>5 DEF TypeOK, Bounded, Kept, Finished
<1>7. EventsAreTrue' /\ ClaimsMatchProfile' /\ PasswordKeptForRetry' /\ ProvisionedIsWhole'
  BY <1>1, <1>3, <1>4, <1>5 DEF EventsAreTrue, Finished, ClaimsMatchProfile,
     PasswordKeptForRetry, ProvisionedIsWhole, Provisioned
<1>8. ActiveIsPaid' /\ AdminBoughtTenant'
  BY <1>1, <1>3, <1>4, <1>5 DEF ActiveIsPaid, AdminBoughtTenant, Finished
<1>9. QED
  BY <1>3, <1>6, <1>7, <1>8

\* A step that touches sessions, sales and events alone, and undoes no checkout.
LEMMA StripeStep ==
  ASSUME IInv, UNCHANGED tables, TypeOK', EventsAreTrue',
         \A k \in Intents : /\ session[k] \in Finished => session'[k] \in Finished
                            /\ session[k] = "paid" => session'[k] = "paid"
  PROVE  IInv' /\ Kept /\ Intents' = Intents
<1> USE DEF IInv, tables
<1>1. Intents' = Intents
  BY DEF Intents
<1>2. Kept /\ Bounded'
  BY <1>1 DEF Kept, Bounded, Finished
<1>3. ClaimsMatchProfile' /\ PasswordKeptForRetry' /\ ProvisionedIsWhole'
  BY <1>1 DEF ClaimsMatchProfile, PasswordKeptForRetry, ProvisionedIsWhole, Provisioned
<1>4. ActiveIsPaid' /\ AdminBoughtTenant'
  BY <1>1 DEF ActiveIsPaid, AdminBoughtTenant
<1>5. QED
  BY <1>1, <1>2, <1>3, <1>4

\* The customer finishes a checkout, or a delayed payment clears.
LEMMA PaymentStep ==
  ASSUME IInv, NEW k \in Intents, NEW to \in Finished, NEW sale \in {"incomplete", "active"},
         NEW type \in {"completed", "subscription"}, NEW says \in {"unpaid", "paid", "active"},
         session[k] # "paid", says \in {"paid", "active"} => to = "paid",
         session' = [session EXCEPT ![k] = to], sold' = [sold EXCEPT ![k] = sale],
         Send(type, k, says), UNCHANGED tables
  PROVE  IInv' /\ Kept /\ Intents' = Intents
<1> USE DEF IInv
<1>1. k \in 1 .. Len(session) /\ k \in 1 .. Len(sold) /\ k \in 1 .. MaxIntents
      /\ Intents = 1 .. Len(session)
  BY IntentAt, BoundsAssumption DEF TypeOK, Intents, Bounded
<1>2. /\ session' \in Seq({"none", "open", "unpaid", "paid"}) /\ Len(session') = Len(session)
      /\ \A j \in Intents : session'[j] = IF j = k THEN to ELSE session[j]
  BY <1>1, ExceptSeq DEF TypeOK, Finished
<1>3. sold' \in Seq({"none", "incomplete", "active", "canceled"}) /\ Len(sold') = Len(sold)
  BY <1>1, ExceptSeq DEF TypeOK
<1>4. events' = events \cup {[type |-> type, intent |-> k, says |-> says]}
  BY DEF Send
<1>5. TypeOK'
  BY <1>1, <1>2, <1>3, <1>4 DEF TypeOK, tables, Event
<1>6. \A j \in Intents : /\ session[j] \in Finished => session'[j] \in Finished
                         /\ session[j] = "paid" => session'[j] = "paid"
  BY <1>2
<1>7. EventsAreTrue'
  BY <1>2, <1>4, <1>6 DEF EventsAreTrue, tables, Intents
<1>8. QED
  BY <1>5, <1>6, <1>7, StripeStep

LEMMA CancelStep ==
  ASSUME IInv, NEW k \in Intents, CancelSubscription(k)
  PROVE  IInv' /\ Kept /\ Intents' = Intents
<1> USE DEF IInv
<1>1. k \in 1 .. Len(sold) /\ k \in 1 .. MaxIntents
  BY IntentAt, BoundsAssumption DEF Bounded
<1>2. sold' \in Seq({"none", "incomplete", "active", "canceled"}) /\ Len(sold') = Len(sold)
  BY <1>1, ExceptSeq DEF TypeOK, CancelSubscription
<1>3. /\ events' = events \cup {[type |-> "subscription", intent |-> k, says |-> "canceled"]}
      /\ session' = session /\ UNCHANGED tables
  BY DEF CancelSubscription, Send
<1>4. TypeOK'
  BY <1>1, <1>2, <1>3 DEF TypeOK, tables, Event
<1>5. EventsAreTrue'
  BY <1>3 DEF EventsAreTrue, tables, Intents
<1>6. QED
  BY <1>3, <1>4, <1>5, StripeStep

\* An event of the subscription finds the row that names its intent, if any does.
LEMMA SyncStep ==
  ASSUME IInv, NEW k \in Intents, NEW status \in {"active", "canceled"},
         SyncSubscription(k, status)
  PROVE  IInv' /\ Kept /\ Intents' = Intents
<1> USE DEF IInv
<1>1. PICK t \in Tenants : /\ subscription[t].intent = k
                           /\ subscription' = [subscription EXCEPT ![t].status = status]
  BY DEF SyncSubscription
<1>2. /\ intents' = intents /\ billing' = billing /\ profile' = profile /\ active' = active
      /\ auth' = auth /\ bootstrapped' = bootstrapped
      /\ session' = session /\ sold' = sold /\ events' = events /\ Intents' = Intents
  BY DEF SyncSubscription, stripe, Intents
<1>3. subscription[t] \in SubscriptionRow
  BY <1>1, IntentAt DEF TypeOK, NoSubscription
<1>4. /\ subscription'[t].intent = k /\ subscription'[t].status = status
      /\ subscription'[t] \in SubscriptionRow
      /\ \A x \in Tenants : x # t => subscription'[x] = subscription[x]
  BY <1>1, <1>3 DEF TypeOK, SubscriptionRow
<1>5. subscription' \in [Tenants -> SubscriptionRow \cup {NoSubscription}]
  BY <1>1, <1>4 DEF TypeOK
<1>6. subscription'[t] # NoSubscription
  BY <1>4, IntentAt DEF NoSubscription
<1>7. TypeOK' /\ Bounded' /\ Kept
  BY <1>2, <1>5 DEF TypeOK, Bounded, Kept
<1>8. EventsAreTrue' /\ ClaimsMatchProfile' /\ PasswordKeptForRetry' /\ AdminBoughtTenant'
  BY <1>2 DEF EventsAreTrue, ClaimsMatchProfile, PasswordKeptForRetry, AdminBoughtTenant
<1>9. ProvisionedIsWhole'
  BY <1>2, <1>4, <1>6, IntentAt DEF ProvisionedIsWhole, Provisioned
<1>10. status = "active" => session[k] = "paid"
  BY DEF SyncSubscription, EventsAreTrue
<1>11. ActiveIsPaid'
  <2> SUFFICES ASSUME NEW x \in Tenants, subscription'[x].intent # 0
               PROVE  LET j == subscription'[x].intent
                      IN  /\ j \in Intents /\ intents[j].tenant = x
                          /\ session[j] \in Finished
                          /\ subscription'[x].status = "active" => session[j] = "paid"
    BY <1>2 DEF ActiveIsPaid
  <2>1. CASE x = t
    BY <2>1, <1>1, <1>4, <1>10, IntentAt DEF ActiveIsPaid
  <2>2. CASE x # t
    BY <2>2, <1>4 DEF ActiveIsPaid
  <2>3. QED
    BY <2>1, <2>2
<1>12. QED
  BY <1>2, <1>7, <1>8, <1>9, <1>11

\* A refused completion marks nothing, and says the organization is active.
LEMMA RefusedStep ==
  ASSUME IInv, NEW k \in Intents, MarkCheckoutFailed(k)
  PROVE  IInv' /\ Kept /\ Intents' = Intents
<1> USE DEF IInv
<1>1. /\ intents' = intents /\ billing' = [billing EXCEPT ![intents[k].tenant] = "active"]
      /\ subscription' = subscription /\ profile' = profile /\ active' = active
      /\ auth' = auth /\ bootstrapped' = bootstrapped
      /\ session' = session /\ sold' = sold /\ events' = events /\ Intents' = Intents
  BY DEF MarkCheckoutFailed, IntentStatuses, stripe, Intents
<1>2. TypeOK' /\ Bounded' /\ Kept
  BY <1>1, IntentAt DEF TypeOK, Bounded, Kept
<1>3. EventsAreTrue' /\ ClaimsMatchProfile' /\ PasswordKeptForRetry' /\ AdminBoughtTenant'
  BY <1>1 DEF EventsAreTrue, ClaimsMatchProfile, PasswordKeptForRetry, AdminBoughtTenant
<1>4. ProvisionedIsWhole' /\ ActiveIsPaid'
  BY <1>1 DEF ProvisionedIsWhole, Provisioned, ActiveIsPaid
<1>5. QED
  BY <1>1, <1>2, <1>3, <1>4

\* Deactivating somebody touches nothing else; a stuttering step nothing at all.
LEMMA QuietStep ==
  ASSUME IInv, active' \subseteq active,
         UNCHANGED <<intents, billing, subscription, profile, auth, bootstrapped, stripe>>
  PROVE  IInv' /\ Kept /\ Intents' = Intents
<1> USE DEF IInv, stripe
<1>1. Intents' = Intents
  BY DEF Intents
<1>2. TypeOK' /\ Bounded' /\ Kept
  BY <1>1 DEF TypeOK, Bounded, Kept
<1>3. EventsAreTrue' /\ ClaimsMatchProfile' /\ PasswordKeptForRetry' /\ AdminBoughtTenant'
  BY <1>1 DEF EventsAreTrue, ClaimsMatchProfile, PasswordKeptForRetry, AdminBoughtTenant
<1>4. ProvisionedIsWhole' /\ ActiveIsPaid'
  BY <1>1 DEF ProvisionedIsWhole, Provisioned, ActiveIsPaid
<1>5. QED
  BY <1>1, <1>2, <1>3, <1>4

-------------------------------------------------------------------------------
(* Every step, and the theorems *)

LEMMA InitHolds == Init => IInv
<1> SUFFICES ASSUME Init PROVE IInv
  OBVIOUS
<1>1. Intents = {} /\ Len(intents) = 0
  BY DEF Init, Intents
<1>2. TypeOK
  BY DEF Init, TypeOK, NoSubscription
<1>3. ActiveIsPaid
  BY DEF Init, ActiveIsPaid, NoSubscription
<1>4. Bounded
  BY <1>1, BoundsAssumption DEF Bounded
<1>5. EventsAreTrue /\ ClaimsMatchProfile /\ PasswordKeptForRetry /\ ProvisionedIsWhole
      /\ AdminBoughtTenant
  BY <1>1 DEF Init, EventsAreTrue, ClaimsMatchProfile, PasswordKeptForRetry,
     ProvisionedIsWhole, AdminBoughtTenant
<1>6. QED
  BY <1>2, <1>3, <1>4, <1>5 DEF IInv

\* The new intents of a step are for tenants without users.
NewAreFree ==
  \A k \in Intents' \ Intents : \A e \in Emails : profile[e] # intents'[k].tenant

LEMMA EveryStep == IInv /\ [Next]_vars => IInv' /\ Kept /\ NewAreFree
<1> SUFFICES ASSUME IInv, [Next]_vars
             PROVE  IInv' /\ Kept /\ (Intents' = Intents \/ NewAreFree)
  BY DEF NewAreFree
<1>1. ASSUME NEW t \in Tenants, NEW e \in Emails, NEW done \in Prefixes(<<"org", "intent">>),
             CreateSignupIntent(t, e, done)
      PROVE  IInv' /\ Kept /\ NewAreFree
  BY <1>1, SignupStep DEF NewAreFree
<1>2. ASSUME NEW k \in Intents, CreateCheckout(k)
      PROVE  IInv' /\ Kept /\ Intents' = Intents
  BY <1>2, CheckoutStep
<1>3. ASSUME NEW k \in Intents, NEW paid \in BOOLEAN, NEW done \in Prefixes(ProvisionCalls),
             DeliverCompleted(k, paid, done)
      PROVE  IInv' /\ Kept /\ NewAreFree
  <2>1. session[k] \in Finished /\ (paid => session[k] = "paid")
    BY <1>3 DEF DeliverCompleted, IInv, EventsAreTrue, Finished
  <2>2. Intents' = Intents
    BY <1>3, IntentAt DEF DeliverCompleted, Provision, Intents, IInv, TypeOK
  <2>3. QED
    BY <1>3, <2>1, <2>2, ProvisionStep DEF DeliverCompleted, NewAreFree
<1>4. ASSUME NEW k \in Intents, NEW done \in Prefixes(ProvisionCalls), CompleteCheckout(k, done)
      PROVE  IInv' /\ Kept /\ NewAreFree
  <2>1. CASE AdminAccepted(k)
    <3>1. Provision(k, TRUE, done) /\ session[k] = "paid"
      BY <1>4, <2>1 DEF CompleteCheckout, Verified
    <3>2. Intents' = Intents
      BY <3>1 DEF Provision, Intents, IInv, TypeOK
    <3>3. QED
      BY <3>1, <3>2, ProvisionStep DEF Finished, NewAreFree
  <2>2. CASE ~ AdminAccepted(k)
    BY <1>4, <2>2, RefusedStep DEF CompleteCheckout, NewAreFree
  <2>3. QED
    BY <2>1, <2>2
<1>5. ASSUME NEW k \in Intents, NEW status \in {"active", "canceled"}, SyncSubscription(k, status)
      PROVE  IInv' /\ Kept /\ Intents' = Intents
  BY <1>5, SyncStep
<1>6. ASSUME NEW k \in Intents, NEW paid \in BOOLEAN, FinishCheckout(k, paid)
      PROVE  IInv' /\ Kept /\ Intents' = Intents
  <2>1. CASE paid
    BY <1>6, <2>1, PaymentStep DEF FinishCheckout, Finished
  <2>2. CASE ~ paid
    BY <1>6, <2>2, PaymentStep DEF FinishCheckout, Finished
  <2>3. QED
    BY <2>1, <2>2
<1>7. ASSUME NEW k \in Intents, PaymentClears(k)
      PROVE  IInv' /\ Kept /\ Intents' = Intents
  BY <1>7, PaymentStep DEF PaymentClears, Finished
<1>8. ASSUME NEW k \in Intents, CancelSubscription(k)
      PROVE  IInv' /\ Kept /\ Intents' = Intents
  BY <1>8, CancelStep
<1>9. ASSUME NEW e \in Emails, DeactivateUser(e)
      PROVE  IInv' /\ Kept /\ Intents' = Intents
  BY <1>9, QuietStep DEF DeactivateUser
<1>10. CASE UNCHANGED vars
  BY <1>10, QuietStep DEF vars, tables
<1>11. QED
  BY <1>1, <1>2, <1>3, <1>4, <1>5, <1>6, <1>7, <1>8, <1>9, <1>10 DEF Next

LEMMA Invariant == Spec => []IInv
<1>1. Init => IInv
  BY InitHolds
<1>2. IInv /\ [Next]_vars => IInv'
  BY EveryStep
<1>3. QED
  BY <1>1, <1>2, PTL DEF Spec

\* Rows of billing and of Stripe have their types, however many signups there are.
THEOREM BillingTyped == Spec => []TypeOK
<1>1. IInv => TypeOK
  BY DEF IInv
<1>2. QED
  BY <1>1, Invariant, PTL

\* The claims of an account and its users row name one tenant, wherever a
\* provisioning was cut off and however many meet at one address
\* (_ensure_initial_admin).
THEOREM ClaimsAgree == Spec => []ClaimsMatchProfile
<1>1. IInv => ClaimsMatchProfile
  BY DEF IInv
<1>2. QED
  BY <1>1, Invariant, PTL

\* While an intent has no administrator it has the password for one, so that a
\* retry can finish what a failure interrupted (provision_checkout_session).
THEOREM RetriesHaveThePassword == Spec => []PasswordKeptForRetry
<1>1. IInv => PasswordKeptForRetry
  BY DEF IInv
<1>2. QED
  BY <1>1, Invariant, PTL

\* "provisioned" is said last, and stays true (provision_checkout_session).
THEOREM ProvisionedWhole == Spec => []ProvisionedIsWhole
<1>1. IInv => ProvisionedIsWhole
  BY DEF IInv
<1>2. QED
  BY <1>1, Invariant, PTL

\* No order of events makes a subscription active that was not paid
\* (stripe_webhook, sync_subscription_event).
THEOREM ActivePaid == Spec => []ActiveIsPaid
<1>1. IInv => ActiveIsPaid
  BY DEF IInv
<1>2. QED
  BY <1>1, Invariant, PTL

\* A tenant is its buyers', and no later signup takes it (create_signup_intent,
\* _ensure_pending_organization).
THEOREM TenantsOwned == Spec => TenantsAreOwned
<1>1. IInv => AdminBoughtTenant
  BY DEF IInv
<1>2. IInv /\ [Next]_vars
        => [\A k \in Intents' \ Intents : \A e \in Emails : profile[e] # intents'[k].tenant]_vars
  BY EveryStep DEF NewAreFree
<1>3. QED
  BY <1>1, <1>2, Invariant, PTL DEF Spec, TenantsAreOwned, NoSignupTakesOver

\* What was bought stays bought: intents keep their tenant and address, finished
\* checkouts stay finished, and a users row never moves to another tenant.
THEOREM PurchasesStand == Spec => [][Kept]_vars
<1>1. IInv /\ [Next]_vars => [Kept]_vars
  BY EveryStep
<1>2. QED
  BY <1>1, Invariant, PTL DEF Spec
===============================================================================
