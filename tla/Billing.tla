------------------------------- MODULE Billing -------------------------------
(***************************************************************************)
(* Subscriptions in App API (services/app-api: billing.ts, the webhook     *)
(* handlers of app.ts, upsertSubscription of db.ts).  Stripe holds the     *)
(* truth; its webhook events are mirrored into the table subscriptions     *)
(* and the column orgs.plan, two statements that commit one by one.        *)
(* Stripe sends an event again until it is answered with 2xx; it does not  *)
(* promise any order.                                                      *)
(***************************************************************************)
EXTENDS Naturals, Sequences

CONSTANTS
  Orgs,
  Subs,        \* subscription ids of Stripe
  MaxChanges,  \* changes of one subscription at Stripe (a bound)
  None

BillingAssumption ==
  /\ MaxChanges \in Nat
  /\ None \notin Orgs \cup Subs

VARIABLES
  stripe,         \* external: the subscriptions as Stripe holds them
  events,         \* external: webhook events of a subscription not yet answered
  subscriptions,  \* table subscriptions, by organization
  plan,           \* column orgs.plan
  outOfOrder      \* history: subscriptions an event of which came before an older one was
                  \* answered

vars == <<stripe, events, subscriptions, plan, outOfOrder>>

Plans    == {"free", "team"}
Statuses == {"active", "past_due", "canceled"}
Kinds    == {"checkout", "updated", "payment_failed", "deleted"}

NotSold == [org |-> None, status |-> "none", changes |-> 0]

\* getSubscription of an organization without a row.
NoRow == [stripeSubId |-> None, plan |-> "free", status |-> "active"]

(***************************************************************************)
(* Stripe                                                                  *)
(***************************************************************************)
Emits(s, kinds) ==
  events' = [events EXCEPT ![s] = @ \o kinds]

Change(s, status) ==
  /\ stripe[s].changes < MaxChanges
  /\ stripe' = [stripe EXCEPT ![s].status = status, ![s].changes = @ + 1]

Event(kind, status) == [kind |-> kind, status |-> status]

\* An admin opens a checkout session, which carries the organization, and the
\* customer pays.  Nothing keeps an organization from buying twice.
Checkout(o, s) ==
  /\ stripe[s] = NotSold
  /\ stripe' = [stripe EXCEPT ![s] = [org |-> o, status |-> "active", changes |-> 0]]
  /\ Emits(s, <<Event("checkout", "active")>>)
  /\ UNCHANGED <<subscriptions, plan, outOfOrder>>

PaymentFails(s) ==
  /\ stripe[s].status = "active"
  /\ Change(s, "past_due")
  /\ Emits(s, <<Event("payment_failed", "past_due"), Event("updated", "past_due")>>)
  /\ UNCHANGED <<subscriptions, plan, outOfOrder>>

PaymentRecovers(s) ==
  /\ stripe[s].status = "past_due"
  /\ Change(s, "active")
  /\ Emits(s, <<Event("updated", "active")>>)
  /\ UNCHANGED <<subscriptions, plan, outOfOrder>>

\* In the customer portal, or by Stripe when payments keep failing.
Cancel(s) ==
  /\ stripe[s].status \in {"active", "past_due"}
  /\ Change(s, "canceled")
  /\ Emits(s, <<Event("deleted", "canceled")>>)
  /\ UNCHANGED <<subscriptions, plan, outOfOrder>>

(***************************************************************************)
(* applyWebhookEvent                                                       *)
(***************************************************************************)
\* Faulty: deletion leaves the plan as it is.
MirroredKeepingPlan(row, s, e) ==
  [stripeSubId |-> s,
   plan   |-> IF e.kind \in {"checkout", "updated"} THEN "team" ELSE row.plan,
   status |-> e.status]

\* The row an event leads to; `updated` always means the Team plan.
Mirrored(row, s, e) ==
  [stripeSubId |-> s,
   plan   |-> CASE e.kind \in {"checkout", "updated"} -> "team"
                [] e.kind = "payment_failed"          -> row.plan
                [] e.kind = "deleted"                 -> "free",
   status |-> e.status]

\* The organization an event is about: checkout names it, the others are
\* looked up by subscription, and without a row they are ignored.
Concerned(s, e) ==
  IF e.kind = "checkout" THEN {stripe[s].org}
                         ELSE {o \in Orgs : subscriptions[o].stripeSubId = s}

\* Any of the events may come next.
Delivered(s, i) ==
  /\ i \in DOMAIN events[s]
  /\ outOfOrder' = IF i = 1 THEN outOfOrder ELSE outOfOrder \cup {s}

Without(seq, i) == SubSeq(seq, 1, i - 1) \o SubSeq(seq, i + 1, Len(seq))

\* 200, which Stripe receives or not.
Answer(s, i) ==
  events' \in {events, [events EXCEPT ![s] = Without(@, i)]}

ApplyWebhookEvent(s) ==
  \E i \in DOMAIN events[s] :
    LET e == events[s][i] IN
    \E o \in Concerned(s, e) :
      LET row == Mirrored(subscriptions[o], s, e) IN
      /\ Delivered(s, i)
      /\ subscriptions' = [subscriptions EXCEPT ![o] = row]
      /\ plan' = [plan EXCEPT ![o] = row.plan]
      /\ Answer(s, i)
      /\ UNCHANGED stripe

IgnoreWebhookEvent(s) ==
  \E i \in DOMAIN events[s] :
    /\ Delivered(s, i)
    /\ Concerned(s, events[s][i]) = {}
    /\ Answer(s, i)
    /\ UNCHANGED <<stripe, subscriptions, plan>>

\* Faulty: the event is answered before the plan is written.
KilledAfterAnswer(s) ==
  \E i \in DOMAIN events[s] :
    LET e == events[s][i] IN
    \E o \in Concerned(s, e) :
      /\ Delivered(s, i)
      /\ subscriptions' = [subscriptions EXCEPT ![o] = Mirrored(@, s, e)]
      /\ Answer(s, i)
      /\ UNCHANGED <<stripe, plan>>

\* The service is killed between the two statements of upsertSubscription.
KilledBetweenWrites(s) ==
  \E i \in DOMAIN events[s] :
    LET e == events[s][i] IN
    \E o \in Concerned(s, e) :
      /\ Delivered(s, i)
      /\ subscriptions' = [subscriptions EXCEPT ![o] = Mirrored(@, s, e)]
      /\ UNCHANGED <<stripe, events, plan>>

Init ==
  /\ stripe = [s \in Subs |-> NotSold]
  /\ events = [s \in Subs |-> << >>]
  /\ subscriptions = [o \in Orgs |-> NoRow]
  /\ plan = [o \in Orgs |-> "free"]
  /\ outOfOrder = {}

Next ==
  \/ \E o \in Orgs, s \in Subs : Checkout(o, s)
  \/ \E s \in Subs : \/ PaymentFails(s) \/ PaymentRecovers(s) \/ Cancel(s)
                     \/ ApplyWebhookEvent(s)
                     \/ IgnoreWebhookEvent(s)
                     \/ KilledBetweenWrites(s)

Spec == Init /\ [][Next]_vars

\* An event that Stripe keeps sending is handled and answered at last; the
\* customer need not do anything.
Handled(s) ==
  (ApplyWebhookEvent(s) \/ IgnoreWebhookEvent(s)) /\ events' # events

FairSpec == Spec /\ \A s \in Subs : WF_vars(Handled(s))

(***************************************************************************)
(* Properties                                                              *)
(***************************************************************************)
\* Shape of the tables; orgs with a row have the subscription of a checkout
\* that named them.
TypeOK ==
  /\ stripe \in [Subs -> [org : Orgs \cup {None}, status : Statuses \cup {"none"},
                          changes : 0 .. MaxChanges]]
  /\ \A s \in Subs : events[s] \in Seq([kind : Kinds, status : Statuses])
  /\ subscriptions \in [Orgs -> [stripeSubId : Subs \cup {None}, plan : Plans,
                                 status : Statuses]]
  /\ plan \in [Orgs -> Plans]
  /\ outOfOrder \subseteq Subs
  /\ \A o \in Orgs :
       subscriptions[o].stripeSubId # None => stripe[subscriptions[o].stripeSubId].org = o

\* db.ts:605-637: the two places the plan is stored in differ only as long as
\* an event of the subscription is still to be sent again.
PlanMatchesRow ==
  \A o \in Orgs :
    plan[o] # subscriptions[o].plan => events[subscriptions[o].stripeSubId] # << >>

\* A row mirrors its subscription at Stripe.
Mirrors(o) ==
  LET row == subscriptions[o] IN
  row.stripeSubId # None =>
    /\ row.status = stripe[row.stripeSubId].status
    /\ row.plan = IF row.status = "canceled" THEN "free" ELSE "team"

\* app.ts:557-558: with every event of its subscription answered, the row is
\* what Stripe holds, unless an event of it overtook another: the disorder of one
\* subscription never reaches the row of another, of the same organization or not.
MirrorsStripe ==
  \A o \in Orgs :
    LET s == subscriptions[o].stripeSubId
    IN  s # None /\ s \notin outOfOrder /\ events[s] = << >> => Mirrors(o)

\* The same in any order; the README says how this fails (Disagreements).
MirrorsInAnyOrder ==
  \A o \in Orgs :
    LET s == subscriptions[o].stripeSubId
    IN  s # None /\ events[s] = << >> => Mirrors(o)

\* Whatever is lost, sent again or cut short, the row ends up as Stripe holds it, if no
\* event of its subscription overtook another, and the plan, in any order, as the row.
EventuallyMirrored ==
  <>[](\A o \in Orgs :
         /\ subscriptions[o].stripeSubId \notin outOfOrder => Mirrors(o)
         /\ plan[o] = subscriptions[o].plan)

\* With nothing left to send, an organization that pays is not on the free
\* plan.
PayingOrgServed ==
  (\A s \in Subs : events[s] = << >>) =>
    \A s \in Subs : stripe[s].status = "active" => plan[stripe[s].org] # "free"

=============================================================================
