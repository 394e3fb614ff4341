------------------------------- MODULE Billing -------------------------------
(***************************************************************************)
(* Signup, checkout and provisioning of tenants.                           *)
(*                                                                         *)
(* A signup reserves an organization and stores an intent; Stripe sells a  *)
(* subscription in a checkout session of that intent; the webhook, and the *)
(* page the browser returns to, then provision the tenant.  Stripe         *)
(* delivers every event at least once, in any order and for days, and      *)
(* delivers it again after an error.                                       *)
(*                                                                         *)
(* A tenant is named by its slug (organizations.slug is unique), and a     *)
(* checkout session, its customer and its subscription by the intent they  *)
(* belong to: every session makes a customer of its own.  A handler is one *)
(* action, with the set of database calls it completed as a parameter.     *)
(***************************************************************************)
EXTENDS Integers, Sequences

CONSTANTS
  Tenants,      \* slugs
  Emails,       \* addresses of initial administrators
  None,         \* no tenant
  MayFail,      \* whether a handler may fail between two calls
  MaxIntents    \* bound: signup intents

ASSUME TenantsAssumption == None \notin Tenants

ASSUME BoundsAssumption == MaxIntents \in Nat /\ MayFail \in BOOLEAN

VARIABLES
  intents,       \* rows of signup_intents, in order of creation
  billing,       \* billing[t]: subscription_status in the settings of organization t
  subscription,  \* subscription[t]: the row of t in tenant_subscriptions, intent 0 for none
  profile,       \* profile[e]: the tenant of the users row of e
  active,        \* addresses whose users row is active
  auth,          \* auth[e]: the tenant in the claims of the authentication account of e
  bootstrapped,  \* tenants with the starter configuration
  session,       \* Stripe: the checkout session of each intent
  sold,          \* Stripe: the subscription of each intent
  events         \* Stripe: the webhook events sent so far

tables == <<intents, billing, subscription, profile, active, auth, bootstrapped>>
stripe == <<session, sold, events>>
vars   == <<tables, stripe>>

\* CHECK constraint of signup_intents.status
IntentStatuses == {"pending_checkout", "checkout_created", "paid", "provisioned", "failed", "abandoned"}

IntentRow == [tenant : Tenants, email : Emails, status : IntentStatuses,
              password : BOOLEAN]   \* whether metadata holds initial_password

NoSubscription == [intent |-> 0, status |-> "none"]

SubscriptionRow ==
  [intent : 1 .. MaxIntents, status : {"pending_stripe_sync", "active", "canceled"}]

Event == [type : {"completed", "subscription"}, intent : 1 .. MaxIntents,
          says : {"unpaid", "paid", "active", "canceled"}]

Intents == DOMAIN intents

Finished == {"unpaid", "paid"}   \* sessions whose checkout is complete

Prefixes(calls) ==
  LET upTo(n) == {calls[k] : k \in 1 .. n}
  IN  {upTo(n) : n \in IF MayFail THEN DOMAIN calls ELSE {Len(calls)}}

-------------------------------------------------------------------------------
(* Signup *)

EmailAvailable(e) == profile[e] = None /\ auth[e] = None

\* Mistake: an organization is taken only once it has a subscription.
BadSlugAvailable(t) == subscription[t] = NoSubscription

\* _ensure_pending_organization: the slug is new, or its organization has
\* neither users nor a subscription.
SlugAvailable(t) ==
  (\A e \in Emails : profile[e] # t) /\ subscription[t] = NoSubscription

\* create_signup_intent
CreateSignupIntent(t, e, done) ==
  /\ Len(intents) < MaxIntents
  /\ EmailAvailable(e)
  /\ SlugAvailable(t)
  /\ billing' = [billing EXCEPT ![t] = "pending_checkout"]
  /\ IF "intent" \in done
     THEN /\ intents' = Append(intents, [tenant |-> t, email |-> e,
                                         status |-> "pending_checkout", password |-> TRUE])
          /\ session' = Append(session, "none")
          /\ sold' = Append(sold, "none")
     ELSE UNCHANGED <<intents, session, sold>>
  /\ UNCHANGED <<subscription, profile, active, auth, bootstrapped, events>>

\* create_checkout_session after the call to Stripe; before mark_checkout_created
\* returns, nobody has the address of the session.
CreateCheckout(k) ==
  /\ session[k] = "none"
  /\ session' = [session EXCEPT ![k] = "open"]
  /\ intents' = [intents EXCEPT ![k].status = "checkout_created"]
  /\ UNCHANGED <<billing, subscription, profile, active, auth, bootstrapped, sold, events>>

-------------------------------------------------------------------------------
(* Provisioning *)

\* Mistakes: the password goes before the administrator it is for; the intent is
\* settled before the subscription.
BadCallsPassword ==
  <<"org", "password", "auth", "user", "subscription", "bootstrap", "intent">>
BadCallsIntent ==
  <<"org", "auth", "user", "password", "intent", "subscription", "bootstrap">>

ProvisionCalls ==
  <<"org", "auth", "user", "password", "subscription", "bootstrap", "intent">>

\* Mistake: any account of that address will do.
BadAdminAccepted(k) ==
  \/ profile[intents[k].email] = intents[k].tenant
  \/ intents[k].password

\* _ensure_initial_admin goes through: the administrator exists in the tenant, or
\* the address belongs to nobody and the intent still holds a password.
AdminAccepted(k) ==
  \/ profile[intents[k].email] = intents[k].tenant
  \/ profile[intents[k].email] = None /\ intents[k].password

\* Mistake: a subscription makes a session paid.
BadSubscriptionStatus(paid) == "active"

\* _subscription_status
SubscriptionStatus(paid) == IF paid THEN "active" ELSE "pending_stripe_sync"

\* provision_checkout_session.  An administrator who is not accepted, or whose
\* account cannot be synchronized, ends it after "org"; a repeated synchronization
\* rewrites the claims it finds, so that its place among the calls does not show.
Provision(k, paid, done) ==
  LET t   == intents[k].tenant
      e   == intents[k].email
      ran == IF AdminAccepted(k) THEN done ELSE done \cap {"org"}
  IN  /\ billing' = [billing EXCEPT ![t] = IF "org" \in ran THEN SubscriptionStatus(paid) ELSE @]
      /\ auth'    = [auth EXCEPT ![e] = IF "auth" \in ran THEN t ELSE @]
      /\ profile' = [profile EXCEPT ![e] = IF "user" \in ran THEN t ELSE @]
      /\ active'  = IF "user" \in ran THEN active \cup {e} ELSE active
      /\ subscription' = [subscription EXCEPT ![t] =
                            IF "subscription" \in ran
                            THEN [intent |-> k, status |-> SubscriptionStatus(paid)] ELSE @]
      /\ bootstrapped' = IF "bootstrap" \in ran THEN bootstrapped \cup {t} ELSE bootstrapped
      /\ intents' = [intents EXCEPT ![k].password = @ /\ "password" \notin ran,
                                    ![k].status = IF "intent" \in ran THEN "provisioned" ELSE @]
      /\ UNCHANGED stripe

\* stripe_webhook, checkout.session.completed: whether or not it was paid.
DeliverCompleted(k, paid, done) ==
  /\ [type |-> "completed", intent |-> k, says |-> IF paid THEN "paid" ELSE "unpaid"] \in events
  /\ Provision(k, paid, done)

\* complete_checkout_session, for a session that Stripe reports complete and paid
Verified(k) == session[k] = "paid"

\* mark_checkout_failed: the status it writes is none the constraint admits, so
\* that the update is refused and the request ends in an error.
MarkCheckoutFailed(k) ==
  /\ intents' = IF "provisioning_failed" \in IntentStatuses
                THEN [intents EXCEPT ![k].status = "provisioning_failed"]
                ELSE intents
  /\ billing' = [billing EXCEPT ![intents[k].tenant] = "active"]
  /\ UNCHANGED <<subscription, profile, active, auth, bootstrapped, stripe>>

\* complete_checkout_session
CompleteCheckout(k, done) ==
  /\ Verified(k)
  /\ IF AdminAccepted(k) THEN Provision(k, TRUE, done) ELSE MarkCheckoutFailed(k)

\* sync_subscription_event: the row of this subscription or customer takes the
\* status of the event; an event that matches no row is answered 200.
SyncSubscription(k, status) ==
  /\ [type |-> "subscription", intent |-> k, says |-> status] \in events
  /\ \E t \in Tenants :
        /\ subscription[t].intent = k
        /\ subscription' = [subscription EXCEPT ![t].status = status]
  /\ UNCHANGED <<intents, billing, profile, active, auth, bootstrapped, stripe>>

-------------------------------------------------------------------------------
(* Stripe, and the administration of users *)

Send(type, k, says) == events' = events \cup {[type |-> type, intent |-> k, says |-> says]}

\* The customer finishes the checkout; a delayed payment method pays later.
FinishCheckout(k, paid) ==
  /\ session[k] = "open"
  /\ session' = [session EXCEPT ![k] = IF paid THEN "paid" ELSE "unpaid"]
  /\ sold' = [sold EXCEPT ![k] = IF paid THEN "active" ELSE "incomplete"]
  /\ Send("completed", k, IF paid THEN "paid" ELSE "unpaid")
  /\ UNCHANGED tables

PaymentClears(k) ==
  /\ session[k] = "unpaid"
  /\ session' = [session EXCEPT ![k] = "paid"]
  /\ sold' = [sold EXCEPT ![k] = "active"]
  /\ Send("subscription", k, "active")
  /\ UNCHANGED tables

CancelSubscription(k) ==
  /\ sold[k] = "active"
  /\ sold' = [sold EXCEPT ![k] = "canceled"]
  /\ Send("subscription", k, "canceled")
  /\ UNCHANGED <<tables, session>>

\* deactivate_user
DeactivateUser(e) ==
  /\ e \in active
  /\ active' = active \ {e}
  /\ UNCHANGED <<intents, billing, subscription, profile, auth, bootstrapped, stripe>>

-------------------------------------------------------------------------------
Init ==
  /\ intents = << >> /\ session = << >> /\ sold = << >>
  /\ billing = [t \in Tenants |-> "none"]
  /\ subscription = [t \in Tenants |-> NoSubscription]
  /\ profile = [e \in Emails |-> None]
  /\ auth = [e \in Emails |-> None]
  /\ active = {} /\ bootstrapped = {} /\ events = {}

Next ==
  \/ \E t \in Tenants, e \in Emails, done \in Prefixes(<<"org", "intent">>) :
        CreateSignupIntent(t, e, done)
  \/ \E k \in Intents : CreateCheckout(k)
  \/ \E k \in Intents, paid \in BOOLEAN, done \in Prefixes(ProvisionCalls) :
        DeliverCompleted(k, paid, done)
  \/ \E k \in Intents, done \in Prefixes(ProvisionCalls) : CompleteCheckout(k, done)
  \/ \E k \in Intents, status \in {"active", "canceled"} : SyncSubscription(k, status)
  \/ \E k \in Intents, paid \in BOOLEAN : FinishCheckout(k, paid)
  \/ \E k \in Intents : PaymentClears(k)
  \/ \E k \in Intents : CancelSubscription(k)
  \/ \E e \in Emails : DeactivateUser(e)

Provisioned(k) == k \in Intents /\ intents[k].status = "provisioned"

\* Stripe repeats an event until it is answered with success, and the handler
\* does not fail between two calls for ever.
AnswerCompleted(k) ==
  /\ k \in Intents /\ ~ Provisioned(k)
  /\ \E paid \in BOOLEAN : DeliverCompleted(k, paid, {ProvisionCalls[n] : n \in DOMAIN ProvisionCalls})

Spec == Init /\ [][Next]_vars

FairSpec == Spec /\ \A k \in 1 .. MaxIntents : WF_vars(AnswerCompleted(k))

-------------------------------------------------------------------------------
(* Properties *)

\* Every table holds rows of its type, and Stripe's records go with the intents.
TypeOK ==
  /\ intents \in Seq(IntentRow)
  /\ billing \in [Tenants -> {"none", "pending_checkout", "pending_stripe_sync", "active"}]
  /\ subscription \in [Tenants -> SubscriptionRow \cup {NoSubscription}]
  /\ profile \in [Emails -> Tenants \cup {None}]
  /\ auth \in [Emails -> Tenants \cup {None}]
  /\ active \subseteq {e \in Emails : profile[e] # None}
  /\ bootstrapped \subseteq Tenants
  /\ session \in Seq({"none", "open", "unpaid", "paid"})
  /\ sold \in Seq({"none", "incomplete", "active", "canceled"})
  /\ Len(session) = Len(intents) /\ Len(sold) = Len(intents)
  /\ events \subseteq Event

\* The claims of an account name the tenant of its users row, although the
\* account is synchronized by one call and the row written by another, and
\* although provisionings of several tenants may meet at one address.
ClaimsMatchProfile == \A e \in Emails : profile[e] # None => auth[e] = profile[e]

\* An intent loses its password only once its administrator exists, so that the
\* delivery that follows a failure never ends in "restart checkout".
PasswordKeptForRetry ==
  \A k \in Intents : ~ intents[k].password => profile[intents[k].email] = intents[k].tenant

\* An intent that says "provisioned" has a whole tenant behind it: administrator,
\* subscription and starter configuration.
ProvisionedIsWhole ==
  \A k \in Intents :
     Provisioned(k)
       => LET t == intents[k].tenant
          IN  /\ profile[intents[k].email] = t
              /\ subscription[t] # NoSubscription
              /\ t \in bootstrapped

\* A tenant's subscription names a finished checkout of that tenant, and it says
\* "active" only if that checkout has been paid, in whatever order the events of
\* a delayed payment arrive.
ActiveIsPaid ==
  \A t \in Tenants :
     LET k == subscription[t].intent
     IN  k # 0 => /\ k \in Intents /\ intents[k].tenant = t
                  /\ session[k] \in Finished
                  /\ subscription[t].status = "active" => session[k] = "paid"

\* Nobody becomes administrator of a tenant, and no tenant gets a workspace,
\* without a checkout of that tenant and address that somebody finished.
AdminBoughtTenant ==
  \A e \in Emails :
     profile[e] # None
       => \E k \in Intents : /\ intents[k].email = e /\ intents[k].tenant = profile[e]
                             /\ session[k] \in Finished

\* A signup never takes over the organization of a tenant that has users or a
\* subscription: the intents of later signups are all for other slugs.
NoSignupTakesOver ==
  [][\A k \in Intents' \ Intents : \A e \in Emails : profile[e] # intents'[k].tenant]_vars

\* A tenant belongs to those who bought it, whatever signups come later.
TenantsAreOwned == []AdminBoughtTenant /\ NoSignupTakesOver

Paid(k) == k \in Intents /\ session[k] = "paid"

Rival(k) ==
  \E j \in Intents : intents[j].email = intents[k].email /\ intents[j].tenant # intents[k].tenant

\* A finished checkout is provisioned sooner or later, wherever deliveries fail,
\* unless its address also signed up for another tenant.
PaidIsProvisioned ==
  \A k \in 1 .. MaxIntents :
     (k \in Intents /\ session[k] \in Finished) ~> (Provisioned(k) \/ (k \in Intents /\ Rival(k)))

\* "On webhook success, provision the initial admin and tenant subscription":
\* for every paid checkout.
EveryPaidIsProvisioned ==
  \A k \in 1 .. MaxIntents : Paid(k) ~> Provisioned(k)

Replays ==
  \E k \in Intents, done \in Prefixes(ProvisionCalls) :
     /\ Provisioned(k)
     /\ CompleteCheckout(k, done) \/ \E paid \in BOOLEAN : DeliverCompleted(k, paid, done)

\* "Make tenant provisioning idempotent by signup intent and Stripe session ID":
\* a checkout that has been provisioned changes nothing when its completion comes
\* again, be it a subscription canceled or an administrator deactivated since.
ReplayIsIdempotent == [][Replays => UNCHANGED <<subscription, profile, active>>]_vars

\* A completion that is refused is recorded on its intent.
RefusalIsRecorded ==
  [][\A k \in Intents :
       (~ AdminAccepted(k) /\ \E done \in Prefixes(ProvisionCalls) : CompleteCheckout(k, done))
         => intents'[k].status = "provisioning_failed"]_vars
===============================================================================
