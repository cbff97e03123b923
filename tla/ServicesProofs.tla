--------------------------- MODULE ServicesProofs ---------------------------
(***************************************************************************)
(* Theorems about the four components of MCServices, each about the        *)
(* component by itself, for every value of its constants, and then about   *)
(* the whole.                                                              *)
(***************************************************************************)
EXTENDS MCServices, FiniteSetTheorems, WellFoundedInduction, TLAPS

\* Each part behaves as if it were alone.
LEMMA PartsAlone ==
  Spec => Billing!Spec /\ Audit!Spec /\ Feed!Spec /\ Limiter!Spec
<1>1. Init => Billing!Init /\ Audit!Init /\ Feed!Init /\ Limiter!Init
  BY DEF Init
<1>2. [Next]_vars => [Billing!Next]_(Billing!vars) /\ [Audit!Next]_(Audit!vars)
                     /\ [Feed!Next]_(Feed!vars) /\ [Limiter!Next]_(Limiter!vars)
  BY DEF Next, vars, OnlyBilling, OnlyAudit, OnlyFeed, OnlyLimiter, billingVars, auditVars,
         feedVars, limiterVars, Billing!vars, Audit!vars, Feed!vars, Limiter!vars
<1>3. Spec => Init /\ [][Next]_vars
  BY PTL DEF Spec
<1>4. QED
  BY <1>1, <1>2, <1>3, PTL DEF Billing!Spec, Audit!Spec, Feed!Spec, Limiter!Spec

\* The parts count with the same Cardinality.
LEMMA SameCardinality ==
  \A S : /\ Limiter!Cardinality(S) = Cardinality(S)
         /\ Feed!Cardinality(S) = Cardinality(S)
         /\ Audit!Cardinality(S) = Cardinality(S)
BY DEF Limiter!Cardinality, Feed!Cardinality, Audit!Cardinality, Cardinality,
       Limiter!IsFiniteSet, Feed!IsFiniteSet, Audit!IsFiniteSet, IsFiniteSet

LEMMA SmallestOfNaturals ==
  ASSUME NEW S \in SUBSET Nat, S # {}
  PROVE  \E m \in S : \A n \in S : m <= n
<1> DEFINE R == {p \in Nat \X Nat : p[1] < p[2]}
<1>1. IsWellFoundedOn(R, Nat)
  BY NatLessThanWellFounded DEF OpToRel
<1>2. PICK m \in S : \A n \in S : ~(<<n, m>> \in R)
  BY <1>1, WFMin
<1>3. ASSUME NEW n \in S
      PROVE  m <= n
  <2>1. m \in Nat /\ n \in Nat
    OBVIOUS
  <2>2. ~(n < m)
    BY <1>2, <2>1
  <2>3. QED
    BY <2>1, <2>2
<1>4. QED
  BY <1>3

(***************************************************************************)
(* Billing.  The events of a subscription that are still to be answered    *)
(* end with the state Stripe holds; a checkout can only be the first of    *)
(* them and a deletion the last.  None of this is claimed of subscriptions *)
(* whose events overtook each other: they keep to the rows of their own    *)
(* organizations, and no row has two subscriptions.                        *)
(***************************************************************************)
WebhookEvent == [kind : Billing!Kinds, status : Billing!Statuses]
Subscription == [org : Orgs \cup {None}, status : Billing!Statuses \cup {"none"},
                 changes : 0 .. MaxChanges]
TableRow == [stripeSubId : Subs \cup {None}, plan : Billing!Plans, status : Billing!Statuses]

\* What Stripe sends: the status that goes with a kind, and where a kind can stand.
Sendable(e) ==
  /\ e.kind = "checkout" => e.status = "active"
  /\ e.kind = "updated" => e.status \in {"active", "past_due"}
  /\ e.kind = "payment_failed" => e.status = "past_due"
  /\ e.kind = "deleted" <=> e.status = "canceled"

Queued(s) ==
  /\ \A i \in 1 .. Len(events[s]) :
       /\ Sendable(events[s][i])
       /\ events[s][i].kind = "checkout" => i = 1
       /\ events[s][i].kind = "deleted" => stripe[s].status = "canceled" /\ i = Len(events[s])
  /\ events[s] # << >> => events[s][Len(events[s])].status = stripe[s].status

InLine(s) ==
  /\ stripe[s].org = None => stripe[s].status = "none" /\ events[s] = << >>
  /\ s \notin outOfOrder => Queued(s)

Kept(o) ==
  LET row == subscriptions[o]
      s   == row.stripeSubId
  IN  /\ row.plan = IF row.status = "canceled" THEN "free" ELSE "team"
      /\ row.status = "canceled" =>
           /\ stripe[s].status = "canceled"
           /\ \A i \in 1 .. Len(events[s]) : events[s][i].kind = "deleted"
      /\ events[s] = << >> => row.status = stripe[s].status

Rowed(o) ==
  LET s == subscriptions[o].stripeSubId
  IN  s # None => stripe[s].org = o /\ (s \notin outOfOrder => Kept(o))

BillingTypes ==
  /\ stripe \in [Subs -> Subscription]
  /\ events \in [Subs -> Seq(WebhookEvent)]
  /\ subscriptions \in [Orgs -> TableRow]
  /\ plan \in [Orgs -> Billing!Plans]
  /\ outOfOrder \subseteq Subs

BillingInv ==
  BillingTypes /\ (\A s \in Subs : InLine(s)) /\ (\A o \in Orgs : Rowed(o))

LEMMA BillingFacts ==
  ASSUME BillingTypes
  PROVE  /\ \A s \in Subs : /\ stripe[s] \in Subscription /\ events[s] \in Seq(WebhookEvent)
                            /\ Len(events[s]) \in Nat /\ DOMAIN events[s] = 1 .. Len(events[s])
                            /\ events[s] = << >> <=> Len(events[s]) = 0
         /\ \A o \in Orgs : subscriptions[o] \in TableRow
BY DEF BillingTypes

LEMMA EventFacts ==
  ASSUME BillingTypes, NEW s \in Subs, NEW i \in 1 .. Len(events[s])
  PROVE  events[s][i] \in WebhookEvent
BY BillingFacts

\* Stripe appends to the queue of one subscription.
LEMMA StripeMoves ==
  ASSUME Billing!BillingAssumption, BillingInv, NEW s \in Subs,
         NEW sub \in Subscription, NEW more \in Seq(WebhookEvent), more # << >>,
         stripe' = [stripe EXCEPT ![s] = sub],
         events' = [events EXCEPT ![s] = @ \o more], UNCHANGED <<subscriptions, plan, outOfOrder>>,
         sub.org \in Orgs, stripe[s].org \in {None, sub.org},
         stripe[s].status # "canceled",
         more[Len(more)].status = sub.status,
         \A i \in 1 .. Len(more) :
           /\ Sendable(more[i])
           /\ more[i].kind = "checkout" => i = 1 /\ stripe[s].org = None
           /\ more[i].kind = "deleted" => sub.status = "canceled" /\ i = Len(more)
  PROVE  BillingInv'
<1>1. /\ stripe' \in [Subs -> Subscription] /\ stripe'[s] = sub
      /\ \A q \in Subs : q # s => stripe'[q] = stripe[q] /\ events'[q] = events[q]
      /\ events'[s] = events[s] \o more
  BY DEF BillingInv, BillingTypes
<1>2. events[s] \in Seq(WebhookEvent) /\ Len(events[s]) \in Nat /\ Len(more) \in Nat \ {0}
  BY BillingFacts DEF BillingInv
<1>3. /\ events'[s] \in Seq(WebhookEvent) /\ Len(events'[s]) = Len(events[s]) + Len(more)
      /\ \A i \in 1 .. Len(events[s]) : events'[s][i] = events[s][i]
      /\ \A i \in 1 .. Len(events'[s]) : i \in 1 .. Len(events[s])
           \/ (i - Len(events[s]) \in 1 .. Len(more) /\ events'[s][i] = more[i - Len(events[s])])
      /\ events'[s] # << >>
  BY <1>1, <1>2
<1>4. BillingTypes'
  BY <1>1, <1>3 DEF BillingInv, BillingTypes
<1>5. InLine(s)'
  <2>1. None \notin Orgs
    BY DEF Billing!BillingAssumption
  <2>2. stripe[s].org = None => events[s] = << >>
    BY DEF BillingInv, InLine
  <2>3. ASSUME s \notin outOfOrder, NEW i \in 1 .. Len(events'[s])
        PROVE  /\ Sendable(events'[s][i])
               /\ events'[s][i].kind = "checkout" => i = 1
               /\ events'[s][i].kind = "deleted" =>
                    stripe'[s].status = "canceled" /\ i = Len(events'[s])
    <3>1. CASE i \in 1 .. Len(events[s])
      BY <1>3, <2>3, <3>1 DEF BillingInv, InLine, Queued
    <3>2. CASE i - Len(events[s]) \in 1 .. Len(more) /\ events'[s][i] = more[i - Len(events[s])]
      <4> DEFINE j == i - Len(events[s])
      <4>1. /\ Sendable(more[j])
            /\ more[j].kind = "checkout" => j = 1 /\ stripe[s].org = None
            /\ more[j].kind = "deleted" => sub.status = "canceled" /\ j = Len(more)
        BY <3>2
      <4>2. more[j].kind = "checkout" => Len(events[s]) = 0
        BY <2>2, <4>1
      <4>3. i \in Nat
        OBVIOUS
      <4>4. more[j].kind = "checkout" => i = 1
        BY <1>2, <4>1, <4>2, <4>3
      <4>5. more[j].kind = "deleted" => stripe'[s].status = "canceled" /\ i = Len(events'[s])
        BY <1>1, <1>2, <1>3, <4>1, <4>3
      <4>6. events'[s][i] = more[j]
        BY <3>2
      <4> HIDE DEF j
      <4>7. QED
        BY <4>1, <4>4, <4>5, <4>6
    <3>3. QED
      BY <1>3, <3>1, <3>2
  <2>4. events'[s][Len(events'[s])] = more[Len(more)]
    BY <1>1, <1>2, <1>3
  <2>5. QED
    BY <1>1, <2>1, <2>3, <2>4 DEF InLine, Queued
<1>6. \A q \in Subs : q # s => InLine(q)'
  BY <1>1 DEF BillingInv, InLine, Queued
<1>7. ASSUME NEW o \in Orgs
      PROVE  Rowed(o)'
  <2>1. CASE subscriptions[o].stripeSubId = s
    <3>1. /\ s # None /\ stripe[s].org = o /\ o # None
      BY <2>1 DEF BillingInv, Rowed, Billing!BillingAssumption
    <3>2. /\ stripe'[s].org = o
          /\ s \notin outOfOrder =>
               subscriptions[o].status # "canceled" /\ subscriptions[o].plan = "team"
      BY <1>1, <2>1, <3>1 DEF BillingInv, Rowed, Kept
    <3>3. QED
      BY <1>3, <2>1, <3>1, <3>2 DEF Rowed, Kept
  <2>2. CASE subscriptions[o].stripeSubId # s
    <3>1. CASE subscriptions[o].stripeSubId = None
      BY <3>1 DEF BillingInv, Rowed
    <3>2. CASE subscriptions[o].stripeSubId # None
      <4>1. subscriptions[o].stripeSubId \in Subs
        BY <3>2, BillingFacts DEF BillingInv, TableRow
      <4> DEFINE q == subscriptions[o].stripeSubId
      <4>2. Rowed(o) /\ q \in Subs /\ q # s /\ subscriptions'[o] = subscriptions[o]
        BY <2>2, <4>1 DEF BillingInv
      <4>3. stripe'[q] = stripe[q] /\ events'[q] = events[q] /\ outOfOrder' = outOfOrder
        BY <1>1, <4>2
      <4>4. QED
        BY <4>2, <4>3 DEF Rowed, Kept
    <3>3. QED
      BY <3>1, <3>2
  <2>3. QED
    BY <2>1, <2>2
<1>8. QED
  BY <1>4, <1>5, <1>6, <1>7 DEF BillingInv

LEMMA ChangedSubscription ==
  ASSUME Billing!BillingAssumption, NEW x \in Subscription, x.org \in Orgs,
         x.changes < MaxChanges, NEW status \in Billing!Statuses
  PROVE  LET y == [x EXCEPT !.status = status, !.changes = @ + 1]
         IN  y \in Subscription /\ y.org \in Orgs /\ y.org = x.org /\ y.status = status
<1> DEFINE z == [x EXCEPT !.status = status]
<1>1. x.changes + 1 \in 0 .. MaxChanges
  BY DEF Billing!BillingAssumption, Subscription
<1>2. z \in Subscription /\ z.org = x.org /\ z.status = status
  BY DEF Subscription
<1> HIDE DEF z
<1>3. [z EXCEPT !.changes = x.changes + 1] \in Subscription
  BY <1>1, <1>2 DEF Subscription
<1>4. /\ [z EXCEPT !.changes = x.changes + 1].org = z.org
      /\ [z EXCEPT !.changes = x.changes + 1].status = z.status
  BY <1>1, <1>2 DEF Subscription
<1>5. QED
  BY <1>2, <1>3, <1>4 DEF z

\* What Stripe does to a subscription: a new state of it, and events that end with it.
Moved(s) ==
  \E sub \in Subscription, more \in Seq(WebhookEvent) :
    /\ more # << >>
    /\ stripe' = [stripe EXCEPT ![s] = sub]
    /\ events' = [events EXCEPT ![s] = @ \o more]
    /\ UNCHANGED <<subscriptions, plan, outOfOrder>>
    /\ sub.org \in Orgs /\ stripe[s].org \in {None, sub.org}
    /\ stripe[s].status # "canceled"
    /\ more[Len(more)].status = sub.status
    /\ \A i \in 1 .. Len(more) :
         /\ Sendable(more[i])
         /\ more[i].kind = "checkout" => i = 1 /\ stripe[s].org = None
         /\ more[i].kind = "deleted" => sub.status = "canceled" /\ i = Len(more)

Unsold(s) == stripe[s].org = None => stripe[s].status = "none"

LEMMA StripeSteps ==
  ASSUME Billing!BillingAssumption, BillingTypes, NEW s \in Subs, Unsold(s),
         \/ \E o \in Orgs : Billing!Checkout(o, s)
         \/ Billing!PaymentFails(s) \/ Billing!PaymentRecovers(s) \/ Billing!Cancel(s)
  PROVE  Moved(s)
<1>0. /\ stripe[s] \in Subscription /\ stripe \in [Subs -> Subscription]
      /\ stripe[s].org = None => stripe[s].status = "none"
      /\ stripe[s].org \in Orgs \cup {None}
      /\ stripe[s].changes \in 0 .. MaxChanges /\ MaxChanges \in Nat
  BY DEF BillingTypes, Unsold, Subscription, Billing!BillingAssumption
<1>1. ASSUME NEW o \in Orgs, Billing!Checkout(o, s)
      PROVE  Moved(s)
  <2> DEFINE sub == [org |-> o, status |-> "active", changes |-> 0]
             e == [kind |-> "checkout", status |-> "active"]
  <2>1. /\ stripe' = [stripe EXCEPT ![s] = sub]
        /\ events' = [events EXCEPT ![s] = @ \o <<e>>]
        /\ UNCHANGED <<subscriptions, plan, outOfOrder>>
        /\ stripe[s].org = None /\ stripe[s].status = "none"
    BY <1>1 DEF Billing!Checkout, Billing!Emits, Billing!Event, Billing!NotSold
  <2>2. sub \in Subscription /\ sub.org \in Orgs /\ sub.status = "active"
    BY <1>0 DEF Subscription, Billing!Statuses
  <2>3. e \in WebhookEvent /\ Sendable(e) /\ e.kind = "checkout" /\ e.status = "active"
    BY DEF WebhookEvent, Sendable, Billing!Kinds, Billing!Statuses
  <2> HIDE DEF sub, e
  <2>4. /\ <<e>> \in Seq(WebhookEvent) /\ <<e>> # << >> /\ Len(<<e>>) = 1
        /\ \A i \in 1 .. 1 : i = 1 /\ <<e>>[i] = e
    BY <2>3
  <2>5. QED
    BY <2>1, <2>2, <2>3, <2>4 DEF Moved
<1>2. CASE Billing!PaymentFails(s)
  <2> DEFINE sub == [stripe[s] EXCEPT !.status = "past_due", !.changes = @ + 1]
             e == [kind |-> "payment_failed", status |-> "past_due"]
             f == [kind |-> "updated", status |-> "past_due"]
  <2>1. /\ stripe' = [stripe EXCEPT ![s] = sub]
        /\ events' = [events EXCEPT ![s] = @ \o <<e, f>>]
        /\ UNCHANGED <<subscriptions, plan, outOfOrder>>
        /\ stripe[s].status = "active" /\ stripe[s].changes < MaxChanges
    BY <1>0, <1>2 DEF Billing!PaymentFails, Billing!Change, Billing!Emits, Billing!Event
  <2>2. /\ sub \in Subscription /\ sub.org = stripe[s].org /\ sub.org \in Orgs
        /\ sub.status = "past_due"
    BY <1>0, <2>1, ChangedSubscription DEF Billing!Statuses
  <2>3. /\ e \in WebhookEvent /\ Sendable(e) /\ e.kind = "payment_failed"
        /\ f \in WebhookEvent /\ Sendable(f) /\ f.kind = "updated" /\ f.status = "past_due"
    BY DEF WebhookEvent, Sendable, Billing!Kinds, Billing!Statuses
  <2> HIDE DEF sub, e, f
  <2>4. /\ <<e, f>> \in Seq(WebhookEvent) /\ <<e, f>> # << >> /\ Len(<<e, f>>) = 2
        /\ <<e, f>>[2] = f
        /\ \A i \in 1 .. 2 : <<e, f>>[i] = e \/ <<e, f>>[i] = f
    BY <2>3
  <2>5. QED
    BY <2>1, <2>2, <2>3, <2>4 DEF Moved
<1>3. CASE Billing!PaymentRecovers(s)
  <2> DEFINE sub == [stripe[s] EXCEPT !.status = "active", !.changes = @ + 1]
             e == [kind |-> "updated", status |-> "active"]
  <2>1. /\ stripe' = [stripe EXCEPT ![s] = sub]
        /\ events' = [events EXCEPT ![s] = @ \o <<e>>]
        /\ UNCHANGED <<subscriptions, plan, outOfOrder>>
        /\ stripe[s].status = "past_due" /\ stripe[s].changes < MaxChanges
    BY <1>0, <1>3 DEF Billing!PaymentRecovers, Billing!Change, Billing!Emits, Billing!Event
  <2>2. /\ sub \in Subscription /\ sub.org = stripe[s].org /\ sub.org \in Orgs
        /\ sub.status = "active"
    BY <1>0, <2>1, ChangedSubscription DEF Billing!Statuses
  <2>3. e \in WebhookEvent /\ Sendable(e) /\ e.kind = "updated" /\ e.status = "active"
    BY DEF WebhookEvent, Sendable, Billing!Kinds, Billing!Statuses
  <2> HIDE DEF sub, e
  <2>4. /\ <<e>> \in Seq(WebhookEvent) /\ <<e>> # << >> /\ Len(<<e>>) = 1
        /\ \A i \in 1 .. 1 : i = 1 /\ <<e>>[i] = e
    BY <2>3
  <2>5. QED
    BY <2>1, <2>2, <2>3, <2>4 DEF Moved
<1>4. CASE Billing!Cancel(s)
  <2> DEFINE sub == [stripe[s] EXCEPT !.status = "canceled", !.changes = @ + 1]
             e == [kind |-> "deleted", status |-> "canceled"]
  <2>1. /\ stripe' = [stripe EXCEPT ![s] = sub]
        /\ events' = [events EXCEPT ![s] = @ \o <<e>>]
        /\ UNCHANGED <<subscriptions, plan, outOfOrder>>
        /\ stripe[s].status \in {"active", "past_due"} /\ stripe[s].changes < MaxChanges
    BY <1>0, <1>4 DEF Billing!Cancel, Billing!Change, Billing!Emits, Billing!Event
  <2>2. /\ sub \in Subscription /\ sub.org = stripe[s].org /\ sub.org \in Orgs
        /\ sub.status = "canceled"
    BY <1>0, <2>1, ChangedSubscription DEF Billing!Statuses
  <2>3. e \in WebhookEvent /\ Sendable(e) /\ e.kind = "deleted" /\ e.status = "canceled"
    BY DEF WebhookEvent, Sendable, Billing!Kinds, Billing!Statuses
  <2> HIDE DEF sub, e
  <2>4. /\ <<e>> \in Seq(WebhookEvent) /\ <<e>> # << >> /\ Len(<<e>>) = 1
        /\ \A i \in 1 .. 1 : i = 1 /\ <<e>>[i] = e
    BY <2>3
  <2>5. QED
    BY <2>1, <2>2, <2>3, <2>4 DEF Moved
<1>5. QED
  BY <1>1, <1>2, <1>3, <1>4

\* Stripe takes the first event of a queue back, or does not hear the answer.
LEMMA HeadAnswered ==
  ASSUME BillingInv, NEW s \in Subs, events[s] # << >>, stripe' = stripe,
         s \notin outOfOrder, outOfOrder' = outOfOrder,
         events' = events \/ events' = [events EXCEPT ![s] = Billing!Without(@, 1)]
  PROVE  /\ events' \in [Subs -> Seq(WebhookEvent)]
         /\ \A q \in Subs : InLine(q)'
         /\ \A q \in Subs : q # s => events'[q] = events[q]
         /\ events'[s] = << >> => Len(events[s]) = 1
         /\ Len(events[s]) = 1 => \A j \in 1 .. Len(events'[s]) : events'[s][j] = events[s][1]
<1>0. /\ events \in [Subs -> Seq(WebhookEvent)]
      /\ Len(events[s]) \in Nat \ {0}
  BY BillingFacts DEF BillingInv, BillingTypes
<1>1. CASE events' = events
  BY <1>0, <1>1 DEF BillingInv, InLine, Queued
<1>2. CASE events' = [events EXCEPT ![s] = Billing!Without(@, 1)]
  <2>1. /\ \A q \in Subs : q # s => events'[q] = events[q]
        /\ events'[s] = SubSeq(events[s], 1, 0) \o SubSeq(events[s], 2, Len(events[s]))
    BY <1>0, <1>2 DEF Billing!Without
  <2>2. events'[s] = Tail(events[s])
    <3>1. SubSeq(events[s], 1, 0) = << >>
      BY <1>0
    <3>2. SubSeq(events[s], 2, Len(events[s])) = Tail(events[s])
      BY <1>0
    <3>3. << >> \o Tail(events[s]) = Tail(events[s])
      BY <1>0
    <3>4. QED
      BY <2>1, <3>1, <3>2, <3>3
  <2>3. /\ events'[s] \in Seq(WebhookEvent) /\ Len(events'[s]) = Len(events[s]) - 1
        /\ \A j \in 1 .. Len(events'[s]) :
             events'[s][j] = events[s][j + 1] /\ j + 1 \in 1 .. Len(events[s]) /\ j \in Nat
    BY <1>0, <2>2
  <2>4. events'[s] # << >> => events'[s][Len(events'[s])] = events[s][Len(events[s])]
    BY <1>0, <2>3
  <2>5. InLine(s)'
    <3>1. ASSUME NEW j \in 1 .. Len(events'[s])
          PROVE  /\ Sendable(events'[s][j])
                 /\ events'[s][j].kind # "checkout"
                 /\ events'[s][j].kind = "deleted" =>
                      stripe'[s].status = "canceled" /\ j = Len(events'[s])
      <4>1. /\ Sendable(events[s][j + 1])
            /\ events[s][j + 1].kind = "checkout" => j + 1 = 1
            /\ events[s][j + 1].kind = "deleted" =>
                 stripe[s].status = "canceled" /\ j + 1 = Len(events[s])
        BY <2>3 DEF BillingInv, InLine, Queued
      <4>2. j \in Nat \ {0} /\ Len(events'[s]) = Len(events[s]) - 1
        BY <2>3
      <4>3. QED
        BY <1>0, <2>3, <4>1, <4>2
    <3>2. QED
      BY <2>2, <2>4, <3>1 DEF BillingInv, InLine, Queued
  <2>6. \A q \in Subs : q # s => InLine(q)'
    BY <2>1 DEF BillingInv, InLine, Queued
  <2>7. events' \in [Subs -> Seq(WebhookEvent)]
    BY <1>0, <1>2, <2>3
  <2>8. events'[s] = << >> => Len(events[s]) = 1
    BY <1>0, <2>3
  <2>9. Len(events[s]) = 1 => \A j \in 1 .. Len(events'[s]) : events'[s][j] = events[s][1]
    BY <1>0, <2>3
  <2>10. QED
    BY <2>1, <2>5, <2>6, <2>7, <2>8, <2>9
<1>3. QED
  BY <1>1, <1>2

\* The first event of a queue is written to the row of an organization it concerns; it
\* is taken off the queue only when the plan is written too.
LEMMA WebhookWritten ==
  ASSUME Billing!BillingAssumption, BillingInv, NEW s \in Subs, events[s] # << >>,
         NEW o \in Billing!Concerned(s, events[s][1]), NEW row,
         row = Billing!Mirrored(subscriptions[o], s, events[s][1]),
         subscriptions' = [subscriptions EXCEPT ![o] = row], stripe' = stripe,
         s \notin outOfOrder, outOfOrder' = outOfOrder,
         \/ events' = events /\ plan' = plan
         \/ /\ plan' = [plan EXCEPT ![o] = row.plan]
            /\ events' = events \/ events' = [events EXCEPT ![s] = Billing!Without(@, 1)]
  PROVE  BillingInv'
<1> DEFINE e == events[s][1]
<1>0. BillingTypes /\ Len(events[s]) \in Nat \ {0} /\ 1 \in 1 .. Len(events[s])
  BY BillingFacts DEF BillingInv
<1>1. /\ e \in WebhookEvent
      /\ Sendable(e)
      /\ e.kind = "deleted" => stripe[s].status = "canceled" /\ Len(events[s]) = 1
  BY <1>0, EventFacts DEF BillingInv, InLine, Queued
<1>2. Len(events[s]) = 1 => e.status = stripe[s].status
  BY <1>0 DEF BillingInv, InLine, Queued
<1>3. s # None /\ None \notin Orgs
  BY DEF Billing!BillingAssumption
<1>4. /\ o \in Orgs
      /\ stripe[s].org = o
      /\ e.kind # "checkout" => subscriptions[o].stripeSubId = s
  <2>1. stripe[s].org \in Orgs
    BY <1>0, BillingFacts DEF BillingInv, InLine, Subscription
  <2>2. CASE e.kind = "checkout"
    BY <2>1, <2>2 DEF Billing!Concerned
  <2>3. CASE e.kind # "checkout"
    BY <1>3, <2>3 DEF Billing!Concerned, BillingInv, Rowed
  <2>4. QED
    BY <2>2, <2>3
<1> HIDE DEF e
<1>5. /\ row.stripeSubId = s /\ row.status = e.status
      /\ row.plan = IF e.status = "canceled" THEN "free" ELSE "team"
      /\ row \in TableRow
  <2>0. /\ row.stripeSubId = s /\ row.status = e.status
        /\ row = [stripeSubId |-> s, plan |-> row.plan, status |-> e.status]
        /\ e.kind \in {"checkout", "updated"} => row.plan = "team"
        /\ e.kind = "payment_failed" => row.plan = subscriptions[o].plan
        /\ e.kind = "deleted" => row.plan = "free"
    BY DEF Billing!Mirrored, e
  <2>1. e.kind \in {"checkout", "updated", "payment_failed", "deleted"}
        /\ e.status \in Billing!Statuses
    BY <1>1 DEF WebhookEvent, Billing!Kinds
  <2>2. e.kind = "payment_failed" => subscriptions[o].plan = "team"
    <3>1. SUFFICES ASSUME e.kind = "payment_failed"
                   PROVE  subscriptions[o].status # "canceled"
      BY <1>3, <1>4, <3>1 DEF BillingInv, Rowed, Kept
    <3>2. events[s][1].kind # "deleted"
      BY <3>1 DEF e
    <3>3. QED
      BY <1>0, <1>3, <1>4, <3>1, <3>2 DEF BillingInv, Rowed, Kept
  <2>3. row.plan = IF e.status = "canceled" THEN "free" ELSE "team"
    BY <1>1, <2>0, <2>1, <2>2 DEF Sendable
  <2>4. row.plan \in Billing!Plans
    BY <2>3 DEF Billing!Plans
  <2>5. QED
    BY <2>0, <2>1, <2>3, <2>4 DEF TableRow
<1>6. /\ events' \in [Subs -> Seq(WebhookEvent)]
      /\ \A q \in Subs : InLine(q)'
      /\ \A q \in Subs : q # s => events'[q] = events[q]
      /\ events'[s] = << >> => Len(events[s]) = 1
      /\ Len(events[s]) = 1 => \A j \in 1 .. Len(events'[s]) : events'[s][j] = e
  BY HeadAnswered DEF e
<1>7. /\ subscriptions' \in [Orgs -> TableRow] /\ subscriptions'[o] = row
      /\ \A p \in Orgs : p # o => subscriptions'[p] = subscriptions[p]
      /\ plan' \in [Orgs -> Billing!Plans]
  <2>1. row.plan \in Billing!Plans
    BY <1>5 DEF Billing!Plans
  <2>2. subscriptions \in [Orgs -> TableRow] /\ plan \in [Orgs -> Billing!Plans]
    BY <1>0 DEF BillingTypes
  <2>3. QED
    BY <1>4, <1>5, <2>1, <2>2
<1>8. Rowed(o)'
  <2>1. row.status = "canceled" =>
          /\ stripe[s].status = "canceled"
          /\ \A j \in 1 .. Len(events'[s]) : events'[s][j].kind = "deleted"
    BY <1>1, <1>5, <1>6 DEF Sendable
  <2>2. events'[s] = << >> => row.status = stripe[s].status
    BY <1>2, <1>5, <1>6
  <2>3. QED
    BY <1>3, <1>4, <1>5, <1>7, <2>1, <2>2 DEF Rowed, Kept
<1>9. ASSUME NEW p \in Orgs, p # o
      PROVE  Rowed(p)'
  <2>1. CASE subscriptions[p].stripeSubId = None
    BY <1>7, <1>9, <2>1 DEF BillingInv, Rowed
  <2>2. CASE subscriptions[p].stripeSubId # None
    <3>1. /\ subscriptions[p].stripeSubId \in Subs
          /\ stripe[subscriptions[p].stripeSubId].org = p
      BY <1>0, <2>2, BillingFacts DEF BillingInv, Rowed, TableRow
    <3>2. subscriptions[p].stripeSubId # s
      BY <1>4, <1>9, <3>1
    <3>3. QED
      <4>1. /\ subscriptions'[p] = subscriptions[p] /\ stripe' = stripe
            /\ events'[subscriptions[p].stripeSubId] = events[subscriptions[p].stripeSubId]
        BY <1>6, <1>7, <1>9, <3>1, <3>2
      <4>2. Rowed(p)
        BY DEF BillingInv
      <4>3. QED
        BY <2>2, <4>1, <4>2 DEF Rowed, Kept
  <2>3. QED
    BY <2>1, <2>2
<1>10. QED
  BY <1>0, <1>6, <1>7, <1>8, <1>9 DEF BillingInv, BillingTypes

\* An event is ignored when no row has its subscription.
LEMMA WebhookIgnored ==
  ASSUME Billing!BillingAssumption, BillingInv, NEW s \in Subs, events[s] # << >>,
         Billing!Concerned(s, events[s][1]) = {},
         UNCHANGED <<stripe, subscriptions, plan>>,
         s \notin outOfOrder, outOfOrder' = outOfOrder,
         events' = events \/ events' = [events EXCEPT ![s] = Billing!Without(@, 1)]
  PROVE  BillingInv'
<1>1. \A o \in Orgs : subscriptions[o].stripeSubId # s
  BY DEF Billing!Concerned
<1>2. /\ events' \in [Subs -> Seq(WebhookEvent)]
      /\ \A q \in Subs : InLine(q)'
      /\ \A q \in Subs : q # s => events'[q] = events[q]
  BY HeadAnswered
<1>3. ASSUME NEW o \in Orgs
      PROVE  Rowed(o)'
  <2>1. CASE subscriptions[o].stripeSubId = None
    BY <2>1 DEF BillingInv, Rowed
  <2>2. CASE subscriptions[o].stripeSubId # None
    <3>1. subscriptions[o].stripeSubId \in Subs
      BY <2>2, BillingFacts DEF BillingInv, TableRow
    <3>2. QED
      BY <1>1, <1>2, <2>2, <3>1 DEF BillingInv, Rowed, Kept
  <2>3. QED
    BY <2>1, <2>2
<1>4. QED
  BY <1>2, <1>3 DEF BillingInv, BillingTypes

\* A queue keeps its other events when one of them is answered.
LEMMA AnsweredTypes ==
  ASSUME BillingTypes, NEW s \in Subs, NEW i \in 1 .. Len(events[s]), Billing!Answer(s, i)
  PROVE  /\ events' \in [Subs -> Seq(WebhookEvent)]
         /\ \A q \in Subs : q # s => events'[q] = events[q]
<1>1. events \in [Subs -> Seq(WebhookEvent)] /\ events[s] \in Seq(WebhookEvent)
      /\ Len(events[s]) \in Nat
  BY DEF BillingTypes
<1>2. /\ SubSeq(events[s], 1, i - 1) \in Seq(WebhookEvent)
      /\ SubSeq(events[s], i + 1, Len(events[s])) \in Seq(WebhookEvent)
  <2>1. \A j \in 1 .. Len(events[s]) : events[s][j] \in WebhookEvent
    BY <1>1
  <2>2. \A j \in 1 .. i - 1 : events[s][j] \in WebhookEvent
    BY <1>1, <2>1
  <2>3. \A j \in i + 1 .. Len(events[s]) : events[s][j] \in WebhookEvent
    BY <1>1, <2>1
  <2>4. QED
    BY <1>1, <2>2, <2>3
<1>3. Billing!Without(events[s], i) \in Seq(WebhookEvent)
  BY <1>2 DEF Billing!Without
<1>4. QED
  BY <1>1, <1>3 DEF Billing!Answer

\* A row that an event leads to.
LEMMA MirroredRow ==
  ASSUME BillingTypes, NEW s \in Subs, NEW i \in 1 .. Len(events[s]), NEW o \in Orgs, NEW row,
         row = Billing!Mirrored(subscriptions[o], s, events[s][i])
  PROVE  row.stripeSubId = s /\ row.plan \in Billing!Plans /\ row \in TableRow
<1> DEFINE e == events[s][i]
<1>1. e \in WebhookEvent
  BY EventFacts
<1> HIDE DEF e
<1>2. /\ row.stripeSubId = s /\ row.status = e.status
      /\ row = [stripeSubId |-> s, plan |-> row.plan, status |-> e.status]
      /\ e.kind \in {"checkout", "updated"} => row.plan = "team"
      /\ e.kind = "payment_failed" => row.plan = subscriptions[o].plan
      /\ e.kind = "deleted" => row.plan = "free"
  BY DEF Billing!Mirrored, e
<1>3. e.kind \in {"checkout", "updated", "payment_failed", "deleted"}
      /\ e.status \in Billing!Statuses
  BY <1>1 DEF WebhookEvent, Billing!Kinds
<1>4. subscriptions[o].plan \in Billing!Plans
  BY BillingFacts DEF TableRow
<1>5. row.plan \in Billing!Plans
  BY <1>2, <1>3, <1>4 DEF Billing!Plans
<1>6. QED
  BY <1>2, <1>3, <1>5 DEF TableRow

\* An event of a subscription that is out of order, or gets so, disturbs no other.
LEMMA Overtaken ==
  ASSUME Billing!BillingAssumption, BillingInv, NEW s \in Subs, NEW i \in 1 .. Len(events[s]),
         stripe' = stripe, Billing!Answer(s, i), outOfOrder' = outOfOrder \cup {s},
         \/ UNCHANGED <<subscriptions, plan>>
         \/ \E o \in Billing!Concerned(s, events[s][i]) :
              LET row == Billing!Mirrored(subscriptions[o], s, events[s][i])
              IN  /\ subscriptions' = [subscriptions EXCEPT ![o] = row]
                  /\ plan' = plan \/ plan' = [plan EXCEPT ![o] = row.plan]
  PROVE  BillingInv'
<1>0. BillingTypes /\ events[s] # << >> /\ s # None /\ None \notin Orgs
  BY BillingFacts DEF BillingInv, Billing!BillingAssumption
<1>1. /\ events' \in [Subs -> Seq(WebhookEvent)]
      /\ \A q \in Subs : q # s => events'[q] = events[q]
  BY <1>0, AnsweredTypes
<1>2. stripe[s].org \in Orgs
  BY <1>0, BillingFacts DEF BillingInv, InLine, Subscription
<1>3. \A q \in Subs : InLine(q)'
  <2>1. ASSUME NEW q \in Subs, q # s
        PROVE  InLine(q)'
    <3>1. InLine(q) /\ events'[q] = events[q]
      BY <1>1, <2>1 DEF BillingInv
    <3>2. QED
      BY <2>1, <3>1 DEF InLine, Queued
  <2>2. InLine(s)'
    BY <1>0, <1>2 DEF InLine
  <2>3. QED
    BY <2>1, <2>2
<1>4. ASSUME NEW p \in Orgs, subscriptions'[p] = subscriptions[p]
      PROVE  Rowed(p)'
  <2> DEFINE q == subscriptions[p].stripeSubId
  <2>1. Rowed(p) /\ q \in Subs \cup {None}
    BY <1>0, BillingFacts DEF BillingInv, TableRow
  <2>2. CASE q \in {None, s}
    BY <1>4, <2>1, <2>2 DEF Rowed
  <2>3. CASE q \notin {None, s}
    <3>1. q \in Subs /\ events'[q] = events[q]
      BY <1>1, <2>1, <2>3
    <3>2. QED
      BY <1>4, <2>1, <2>3, <3>1 DEF Rowed, Kept
  <2>4. QED
    BY <2>2, <2>3
<1>5. CASE UNCHANGED <<subscriptions, plan>>
  BY <1>0, <1>1, <1>3, <1>4, <1>5 DEF BillingInv, BillingTypes
<1>6. ASSUME NEW o \in Billing!Concerned(s, events[s][i]), NEW row,
             row = Billing!Mirrored(subscriptions[o], s, events[s][i]),
             subscriptions' = [subscriptions EXCEPT ![o] = row],
             plan' = plan \/ plan' = [plan EXCEPT ![o] = row.plan]
      PROVE  BillingInv'
  <2>1. o \in Orgs /\ stripe[s].org = o
    BY <1>0, <1>2 DEF Billing!Concerned, BillingInv, Rowed
  <2>2. row.stripeSubId = s /\ row.plan \in Billing!Plans /\ row \in TableRow
    BY <1>0, <1>6, <2>1, MirroredRow
  <2>3. /\ subscriptions' \in [Orgs -> TableRow] /\ subscriptions'[o] = row
        /\ \A p \in Orgs : p # o => subscriptions'[p] = subscriptions[p]
        /\ plan' \in [Orgs -> Billing!Plans]
    BY <1>0, <1>6, <2>1, <2>2 DEF BillingTypes
  <2>4. Rowed(o)'
    BY <2>1, <2>2, <2>3 DEF Rowed
  <2>5. \A p \in Orgs : Rowed(p)'
    BY <1>4, <2>3, <2>4
  <2>6. BillingTypes'
    BY <1>0, <1>1, <2>3 DEF BillingTypes
  <2>7. QED
    BY <1>3, <2>5, <2>6 DEF BillingInv
<1>7. QED
  BY <1>5, <1>6

\* An event is the first of its queue, or its subscription is out of order from now on.
LEMMA WhichIsDelivered ==
  ASSUME BillingInv, NEW s \in Subs, NEW i \in DOMAIN events[s], Billing!Delivered(s, i)
  PROVE  /\ i \in 1 .. Len(events[s]) /\ events[s] # << >>
         /\ \/ i = 1 /\ s \notin outOfOrder /\ outOfOrder' = outOfOrder
            \/ outOfOrder' = outOfOrder \cup {s}
BY BillingFacts DEF Billing!Delivered, BillingInv

LEMMA BillingInvStep ==
  ASSUME Billing!BillingAssumption
  PROVE  BillingInv /\ [Billing!Next]_(Billing!vars) => BillingInv'
<1> SUFFICES ASSUME BillingInv, [Billing!Next]_(Billing!vars)
             PROVE  BillingInv'
  OBVIOUS
<1>0. ASSUME NEW s \in Subs, Moved(s)
      PROVE  BillingInv'
  BY <1>0, StripeMoves DEF Moved
<1>u. \A s \in Subs : Unsold(s)
  BY DEF BillingInv, InLine, Unsold
<1>1. ASSUME NEW o \in Orgs, NEW s \in Subs, Billing!Checkout(o, s)
      PROVE  BillingInv'
  BY <1>0, <1>1, <1>u, StripeSteps DEF BillingInv
<1>2. ASSUME NEW s \in Subs,
             Billing!PaymentFails(s) \/ Billing!PaymentRecovers(s) \/ Billing!Cancel(s)
      PROVE  BillingInv'
  BY <1>0, <1>2, <1>u, StripeSteps DEF BillingInv
<1>3. ASSUME NEW s \in Subs, Billing!ApplyWebhookEvent(s)
      PROVE  BillingInv'
  <2>1. PICK i \in DOMAIN events[s] : \E o \in Billing!Concerned(s, events[s][i]) :
          LET row == Billing!Mirrored(subscriptions[o], s, events[s][i])
          IN  /\ Billing!Delivered(s, i)
              /\ subscriptions' = [subscriptions EXCEPT ![o] = row]
              /\ plan' = [plan EXCEPT ![o] = row.plan]
              /\ Billing!Answer(s, i)
              /\ UNCHANGED stripe
    BY <1>3 DEF Billing!ApplyWebhookEvent
  <2>2. PICK o \in Billing!Concerned(s, events[s][i]) :
          LET row == Billing!Mirrored(subscriptions[o], s, events[s][i])
          IN  /\ Billing!Delivered(s, i)
              /\ subscriptions' = [subscriptions EXCEPT ![o] = row]
              /\ plan' = [plan EXCEPT ![o] = row.plan]
              /\ Billing!Answer(s, i)
              /\ UNCHANGED stripe
    BY <2>1
  <2> DEFINE row == Billing!Mirrored(subscriptions[o], s, events[s][i])
  <2>3. /\ subscriptions' = [subscriptions EXCEPT ![o] = row]
        /\ plan' = [plan EXCEPT ![o] = row.plan]
        /\ stripe' = stripe /\ Billing!Answer(s, i) /\ Billing!Delivered(s, i)
    BY <2>2
  <2> HIDE DEF row
  <2>4. row = Billing!Mirrored(subscriptions[o], s, events[s][i])
    BY DEF row
  <2>5. CASE i = 1 /\ s \notin outOfOrder /\ outOfOrder' = outOfOrder
    <3>1. events[s] # << >> /\ o \in Billing!Concerned(s, events[s][1])
      BY <2>3, <2>5, WhichIsDelivered
    <3>2. row = Billing!Mirrored(subscriptions[o], s, events[s][1])
      BY <2>4, <2>5
    <3>3. events' = events \/ events' = [events EXCEPT ![s] = Billing!Without(@, 1)]
      BY <2>3, <2>5 DEF Billing!Answer
    <3>4. QED
      BY <2>3, <2>5, <3>1, <3>2, <3>3, WebhookWritten
  <2>6. CASE outOfOrder' = outOfOrder \cup {s}
    <3>1. i \in 1 .. Len(events[s])
      BY <2>3, WhichIsDelivered
    <3>2. QED
      BY <2>3, <2>4, <2>6, <3>1, Overtaken
  <2>7. QED
    BY <2>3, <2>5, <2>6, WhichIsDelivered
<1>4. ASSUME NEW s \in Subs, Billing!IgnoreWebhookEvent(s)
      PROVE  BillingInv'
  <2>1. PICK i \in DOMAIN events[s] :
          /\ Billing!Delivered(s, i)
          /\ Billing!Concerned(s, events[s][i]) = {}
          /\ Billing!Answer(s, i)
          /\ UNCHANGED <<stripe, subscriptions, plan>>
    BY <1>4 DEF Billing!IgnoreWebhookEvent
  <2>2. /\ i \in 1 .. Len(events[s]) /\ events[s] # << >>
        /\ \/ i = 1 /\ s \notin outOfOrder /\ outOfOrder' = outOfOrder
           \/ outOfOrder' = outOfOrder \cup {s}
    BY <2>1, WhichIsDelivered
  <2>3. CASE i = 1 /\ s \notin outOfOrder /\ outOfOrder' = outOfOrder
    BY <2>1, <2>2, <2>3, WebhookIgnored DEF Billing!Answer
  <2>4. CASE outOfOrder' = outOfOrder \cup {s}
    BY <2>1, <2>2, <2>4, Overtaken
  <2>5. QED
    BY <2>2, <2>3, <2>4
<1>5. ASSUME NEW s \in Subs, Billing!KilledBetweenWrites(s)
      PROVE  BillingInv'
  <2>1. PICK i \in DOMAIN events[s] : \E o \in Billing!Concerned(s, events[s][i]) :
          /\ Billing!Delivered(s, i)
          /\ subscriptions' = [subscriptions EXCEPT ![o] = Billing!Mirrored(@, s, events[s][i])]
          /\ UNCHANGED <<stripe, events, plan>>
    BY <1>5 DEF Billing!KilledBetweenWrites
  <2>2. PICK o \in Billing!Concerned(s, events[s][i]) :
          /\ Billing!Delivered(s, i)
          /\ subscriptions' = [subscriptions EXCEPT
                                 ![o] = Billing!Mirrored(subscriptions[o], s, events[s][i])]
          /\ UNCHANGED <<stripe, events, plan>>
    BY <2>1
  <2>3. /\ i \in 1 .. Len(events[s]) /\ events[s] # << >>
        /\ \/ i = 1 /\ s \notin outOfOrder /\ outOfOrder' = outOfOrder
           \/ outOfOrder' = outOfOrder \cup {s}
    BY <2>2, WhichIsDelivered
  <2>4. CASE i = 1 /\ s \notin outOfOrder /\ outOfOrder' = outOfOrder
    BY <2>2, <2>3, <2>4, WebhookWritten
  <2>5. CASE outOfOrder' = outOfOrder \cup {s}
    BY <2>2, <2>3, <2>5, Overtaken DEF Billing!Answer
  <2>6. QED
    BY <2>3, <2>4, <2>5
<1>6. CASE UNCHANGED Billing!vars
  <2>1. UNCHANGED <<stripe, events, subscriptions, plan, outOfOrder>>
    BY <1>6 DEF Billing!vars
  <2>2. \A s \in Subs : InLine(s)'
    BY <2>1 DEF BillingInv, InLine, Queued
  <2>3. \A o \in Orgs : Rowed(o)'
    BY <2>1 DEF BillingInv, Rowed, Kept
  <2>4. BillingTypes'
    BY <2>1 DEF BillingInv, BillingTypes
  <2>5. QED
    BY <2>2, <2>3, <2>4 DEF BillingInv
<1>7. QED
  BY <1>1, <1>2, <1>3, <1>4, <1>5, <1>6 DEF Billing!Next

LEMMA FirstBillingTypes ==
  ASSUME Billing!BillingAssumption, Billing!Init
  PROVE  BillingTypes
<1>1. /\ Billing!NotSold \in Subscription /\ Billing!NoRow \in TableRow
      /\ "free" \in Billing!Plans /\ << >> \in Seq(WebhookEvent)
  BY DEF Billing!NotSold, Billing!NoRow, Subscription, TableRow, Billing!Plans,
         Billing!Statuses, Billing!BillingAssumption
<1>2. QED
  BY <1>1 DEF Billing!Init, BillingTypes

(***************************************************************************)
(* Of the plan alone, the events may come in any order.                    *)
(***************************************************************************)
Owned(o) ==
  LET row == subscriptions[o]
      s   == row.stripeSubId
  IN  IF s = None THEN plan[o] = row.plan
      ELSE stripe[s].org = o /\ (events[s] = << >> => plan[o] = row.plan)

PlanInv ==
  /\ BillingTypes
  /\ \A s \in Subs : Unsold(s) /\ (stripe[s].org = None => events[s] = << >>)
  /\ \A o \in Orgs : Owned(o)

\* An event that is written to the row of an organization, whether or not to its plan.
LEMMA PlanWritten ==
  ASSUME Billing!BillingAssumption, PlanInv, NEW s \in Subs, NEW i \in DOMAIN events[s],
         outOfOrder' \subseteq Subs,
         NEW o \in Billing!Concerned(s, events[s][i]), NEW row,
         row = Billing!Mirrored(subscriptions[o], s, events[s][i]),
         subscriptions' = [subscriptions EXCEPT ![o] = row], stripe' = stripe,
         \/ events' = events /\ plan' = plan
         \/ plan' = [plan EXCEPT ![o] = row.plan] /\ Billing!Answer(s, i)
  PROVE  PlanInv'
<1> DEFINE e == events[s][i]
<1>0. BillingTypes /\ i \in 1 .. Len(events[s]) /\ events[s] # << >>
  BY BillingFacts DEF PlanInv
<1>1. e \in WebhookEvent
  BY <1>0, EventFacts
<1>2. s # None /\ None \notin Orgs /\ stripe[s].org \in Orgs
  BY <1>0, BillingFacts DEF Billing!BillingAssumption, PlanInv, Subscription
<1>3. o \in Orgs /\ stripe[s].org = o
  BY <1>2 DEF Billing!Concerned, PlanInv, Owned
<1> HIDE DEF e
<1>4. row.stripeSubId = s /\ row.plan \in Billing!Plans /\ row \in TableRow
  BY <1>0, <1>3, MirroredRow DEF e
<1>5. /\ events' \in [Subs -> Seq(WebhookEvent)]
      /\ \A q \in Subs : q # s => events'[q] = events[q]
      /\ events'[s] = << >> => plan' = [plan EXCEPT ![o] = row.plan]
  <2>1. CASE events' = events /\ plan' = plan
    BY <1>0, <2>1 DEF BillingTypes
  <2>2. CASE plan' = [plan EXCEPT ![o] = row.plan] /\ Billing!Answer(s, i)
    BY <1>0, <2>2, AnsweredTypes
  <2>3. QED
    BY <2>1, <2>2
<1>6. /\ subscriptions' \in [Orgs -> TableRow] /\ subscriptions'[o] = row
      /\ \A p \in Orgs : p # o => subscriptions'[p] = subscriptions[p] /\ plan'[p] = plan[p]
      /\ plan' \in [Orgs -> Billing!Plans]
      /\ events'[s] = << >> => plan'[o] = row.plan
  BY <1>0, <1>3, <1>4, <1>5 DEF BillingTypes
<1>7. Owned(o)'
  BY <1>2, <1>3, <1>4, <1>6 DEF Owned
<1>8. ASSUME NEW p \in Orgs, p # o
      PROVE  Owned(p)'
  <2>1. CASE subscriptions[p].stripeSubId = None
    BY <1>6, <1>8, <2>1 DEF PlanInv, Owned
  <2>2. CASE subscriptions[p].stripeSubId # None
    <3>1. /\ subscriptions[p].stripeSubId \in Subs
          /\ stripe[subscriptions[p].stripeSubId].org = p
      BY <1>0, <2>2, BillingFacts DEF PlanInv, Owned, TableRow
    <3>2. subscriptions[p].stripeSubId # s
      BY <1>3, <1>8, <3>1
    <3>3. /\ subscriptions'[p] = subscriptions[p] /\ plan'[p] = plan[p] /\ stripe' = stripe
          /\ events'[subscriptions[p].stripeSubId] = events[subscriptions[p].stripeSubId]
      BY <1>5, <1>6, <1>8, <3>1, <3>2
    <3>4. Owned(p)
      BY DEF PlanInv
    <3>5. QED
      BY <2>2, <3>3, <3>4 DEF Owned
  <2>3. QED
    BY <2>1, <2>2
<1>9. \A q \in Subs : Unsold(q)' /\ (stripe'[q].org = None => events'[q] = << >>)
  BY <1>2, <1>5 DEF PlanInv, Unsold
<1>10. BillingTypes'
  BY <1>0, <1>5, <1>6 DEF BillingTypes
<1>11. QED
  BY <1>7, <1>8, <1>9, <1>10 DEF PlanInv

LEMMA PlanInvStep ==
  ASSUME Billing!BillingAssumption
  PROVE  PlanInv /\ [Billing!Next]_(Billing!vars) => PlanInv'
<1> SUFFICES ASSUME PlanInv, [Billing!Next]_(Billing!vars)
             PROVE  PlanInv'
  OBVIOUS
<1>0. ASSUME NEW s \in Subs, Moved(s)
      PROVE  PlanInv'
  <2>1. PICK sub \in Subscription, more \in Seq(WebhookEvent) :
          /\ more # << >>
          /\ stripe' = [stripe EXCEPT ![s] = sub]
          /\ events' = [events EXCEPT ![s] = @ \o more]
          /\ UNCHANGED <<subscriptions, plan, outOfOrder>>
          /\ sub.org \in Orgs /\ stripe[s].org \in {None, sub.org}
    BY <1>0 DEF Moved
  <2>2. BillingTypes /\ events[s] \in Seq(WebhookEvent) /\ None \notin Orgs
    BY DEF PlanInv, BillingTypes, Billing!BillingAssumption
  <2>3. events[s] \o more \in Seq(WebhookEvent) /\ events[s] \o more # << >>
    BY <2>1, <2>2
  <2>4. /\ stripe' \in [Subs -> Subscription] /\ events' \in [Subs -> Seq(WebhookEvent)]
        /\ stripe'[s] = sub /\ events'[s] # << >>
        /\ \A q \in Subs : q # s => stripe'[q] = stripe[q] /\ events'[q] = events[q]
    BY <2>1, <2>2, <2>3 DEF BillingTypes
  <2>5. \A q \in Subs : Unsold(q)' /\ (stripe'[q].org = None => events'[q] = << >>)
    BY <2>1, <2>2, <2>4 DEF PlanInv, Unsold
  <2>6. ASSUME NEW o \in Orgs
        PROVE  Owned(o)'
    <3>1. Owned(o) /\ subscriptions'[o] = subscriptions[o] /\ plan'[o] = plan[o]
      BY <2>1 DEF PlanInv
    <3>2. subscriptions[o].stripeSubId \in Subs \cup {None}
      BY <2>2, BillingFacts DEF TableRow
    <3>3. CASE subscriptions[o].stripeSubId = None
      BY <3>1, <3>3 DEF Owned
    <3>4. CASE subscriptions[o].stripeSubId = s /\ s # None
      BY <2>1, <2>2, <2>4, <3>1, <3>4 DEF Owned
    <3>5. CASE subscriptions[o].stripeSubId \notin {s, None}
      BY <2>4, <3>1, <3>2, <3>5 DEF Owned
    <3>6. QED
      BY <3>3, <3>4, <3>5
  <2>7. QED
    BY <2>1, <2>2, <2>4, <2>5, <2>6 DEF PlanInv, BillingTypes
<1>w. ASSUME NEW s \in Subs, NEW i, Billing!Delivered(s, i)
      PROVE  outOfOrder' \subseteq Subs
  BY <1>w DEF Billing!Delivered, PlanInv, BillingTypes
<1>1. ASSUME NEW o \in Orgs, NEW s \in Subs, Billing!Checkout(o, s)
      PROVE  PlanInv'
  BY <1>0, <1>1, StripeSteps DEF PlanInv
<1>2. ASSUME NEW s \in Subs,
             Billing!PaymentFails(s) \/ Billing!PaymentRecovers(s) \/ Billing!Cancel(s)
      PROVE  PlanInv'
  BY <1>0, <1>2, StripeSteps DEF PlanInv
<1>3. ASSUME NEW s \in Subs, Billing!ApplyWebhookEvent(s)
      PROVE  PlanInv'
  <2>1. PICK i \in DOMAIN events[s] : \E o \in Billing!Concerned(s, events[s][i]) :
          LET row == Billing!Mirrored(subscriptions[o], s, events[s][i])
          IN  /\ Billing!Delivered(s, i)
              /\ subscriptions' = [subscriptions EXCEPT ![o] = row]
              /\ plan' = [plan EXCEPT ![o] = row.plan]
              /\ Billing!Answer(s, i)
              /\ UNCHANGED stripe
    BY <1>3 DEF Billing!ApplyWebhookEvent
  <2>2. PICK o \in Billing!Concerned(s, events[s][i]) :
          LET row == Billing!Mirrored(subscriptions[o], s, events[s][i])
          IN  /\ Billing!Delivered(s, i)
              /\ subscriptions' = [subscriptions EXCEPT ![o] = row]
              /\ plan' = [plan EXCEPT ![o] = row.plan]
              /\ Billing!Answer(s, i)
              /\ UNCHANGED stripe
    BY <2>1
  <2> DEFINE row == Billing!Mirrored(subscriptions[o], s, events[s][i])
  <2>3. /\ subscriptions' = [subscriptions EXCEPT ![o] = row] /\ stripe' = stripe
        /\ plan' = [plan EXCEPT ![o] = row.plan] /\ Billing!Answer(s, i)
        /\ outOfOrder' \subseteq Subs
    BY <2>2, <1>w
  <2> HIDE DEF row
  <2>4. row = Billing!Mirrored(subscriptions[o], s, events[s][i])
    BY DEF row
  <2>5. QED
    BY <2>3, <2>4, PlanWritten
<1>4. ASSUME NEW s \in Subs, Billing!IgnoreWebhookEvent(s)
      PROVE  PlanInv'
  <2>1. PICK i \in DOMAIN events[s] :
          /\ Billing!Delivered(s, i)
          /\ Billing!Concerned(s, events[s][i]) = {}
          /\ Billing!Answer(s, i)
          /\ UNCHANGED <<stripe, subscriptions, plan>>
    BY <1>4 DEF Billing!IgnoreWebhookEvent
  <2>2. BillingTypes /\ i \in 1 .. Len(events[s]) /\ events[s] # << >>
    BY BillingFacts DEF PlanInv
  <2>3. \A o \in Orgs : subscriptions[o].stripeSubId # s
    BY <2>1 DEF Billing!Concerned
  <2>4. /\ events' \in [Subs -> Seq(WebhookEvent)]
        /\ \A q \in Subs : q # s => events'[q] = events[q]
    BY <2>1, <2>2, AnsweredTypes
  <2>5. ASSUME NEW o \in Orgs
        PROVE  Owned(o)'
    <3>1. Owned(o) /\ subscriptions[o].stripeSubId \in Subs \cup {None}
      BY <2>2, BillingFacts DEF PlanInv, TableRow
    <3>2. QED
      BY <2>1, <2>3, <2>4, <3>1 DEF Owned
  <2>6. \A q \in Subs : Unsold(q)' /\ (stripe'[q].org = None => events'[q] = << >>)
    BY <2>1, <2>2, <2>4 DEF PlanInv, Unsold
  <2>7. QED
    BY <2>1, <2>2, <2>4, <2>5, <2>6, <1>w DEF PlanInv, BillingTypes
<1>5. ASSUME NEW s \in Subs, Billing!KilledBetweenWrites(s)
      PROVE  PlanInv'
  <2>1. PICK i \in DOMAIN events[s] : \E o \in Billing!Concerned(s, events[s][i]) :
          /\ Billing!Delivered(s, i)
          /\ subscriptions' = [subscriptions EXCEPT ![o] = Billing!Mirrored(@, s, events[s][i])]
          /\ UNCHANGED <<stripe, events, plan>>
    BY <1>5 DEF Billing!KilledBetweenWrites
  <2>2. PICK o \in Billing!Concerned(s, events[s][i]) :
          /\ Billing!Delivered(s, i)
          /\ subscriptions' = [subscriptions EXCEPT
                                 ![o] = Billing!Mirrored(subscriptions[o], s, events[s][i])]
          /\ UNCHANGED <<stripe, events, plan>>
    BY <2>1
  <2>3. QED
    BY <2>2, <1>w, PlanWritten
<1>6. CASE UNCHANGED Billing!vars
  <2>1. UNCHANGED <<stripe, events, subscriptions, plan, outOfOrder>>
    BY <1>6 DEF Billing!vars
  <2>2. \A o \in Orgs : Owned(o)'
    BY <2>1 DEF PlanInv, Owned
  <2>3. QED
    BY <2>1, <2>2 DEF PlanInv, BillingTypes, Unsold
<1>7. QED
  BY <1>1, <1>2, <1>3, <1>4, <1>5, <1>6 DEF Billing!Next

\* The plan of an organization and the plan of its row differ only while an event of the
\* subscription is still to be sent again, in whatever order Stripe sends them
\* (upsertSubscription, killed between its two statements or not).
THEOREM PlanFollowsRow ==
  ASSUME Billing!BillingAssumption
  PROVE  Billing!Spec => []Billing!PlanMatchesRow
<1>1. Billing!Init => PlanInv
  <2> SUFFICES ASSUME Billing!Init
               PROVE  PlanInv
    OBVIOUS
  <2>1. BillingTypes
    BY FirstBillingTypes
  <2>2. \A s \in Subs : events[s] = << >> /\ stripe[s].status = "none"
    BY DEF Billing!Init, Billing!NotSold
  <2>3. \A o \in Orgs : Owned(o)
    BY DEF Billing!Init, Billing!NoRow, Owned
  <2>4. QED
    BY <2>1, <2>2, <2>3 DEF PlanInv, Unsold
<1>2. PlanInv => Billing!PlanMatchesRow
  BY DEF PlanInv, Owned, Billing!PlanMatchesRow
<1>3. QED
  BY <1>1, <1>2, PlanInvStep, PTL DEF Billing!Spec

\* Whatever Stripe sends again and wherever the service is killed, row, plan and Stripe
\* agree but for events still to be answered, and but for subscriptions whose events
\* overtook each other (handleWebhook, upsertSubscription).
THEOREM RowsMirrorStripe ==
  ASSUME Billing!BillingAssumption
  PROVE  Billing!Spec =>
           [](Billing!TypeOK /\ Billing!PlanMatchesRow /\ Billing!MirrorsStripe)
<1>1. Billing!Init => BillingInv
  <2> SUFFICES ASSUME Billing!Init
               PROVE  BillingInv
    OBVIOUS
  <2>1. BillingTypes
    BY FirstBillingTypes
  <2>2. ASSUME NEW s \in Subs
        PROVE  InLine(s)
    <3>1. events[s] = << >> /\ stripe[s] = Billing!NotSold
      BY DEF Billing!Init
    <3>2. Billing!NotSold.status = "none"
      BY DEF Billing!NotSold
    <3>3. \A i : i \notin 1 .. Len(<< >>)
      OBVIOUS
    <3>4. QED
      BY <3>1, <3>2, <3>3 DEF InLine, Queued
  <2>3. \A o \in Orgs : Rowed(o)
    BY DEF Billing!Init, Billing!NoRow, Rowed
  <2>4. QED
    BY <2>1, <2>2, <2>3 DEF BillingInv
<1>2. BillingInv => Billing!TypeOK
  BY BillingFacts DEF BillingInv, BillingTypes, Billing!TypeOK, Subscription, TableRow,
     WebhookEvent, Rowed
<1>3. BillingInv => Billing!MirrorsStripe
  BY DEF BillingInv, Billing!MirrorsStripe, Billing!Mirrors, Rowed, Kept
<1>4. QED
  BY <1>1, <1>2, <1>3, BillingInvStep, PlanFollowsRow, PTL DEF Billing!Spec

(***************************************************************************)
(* AuditExport.  A stored hash is as long as the place of its row among    *)
(* the rows of the workspace, starts with the workspace and ends with the  *)
(* event; only an alteration that computes hashes makes others.  In any    *)
(* table that verifies, a hash names the events up to its row in order.    *)
(***************************************************************************)
Hash == {h \in Seq(Tenants \cup Events) : Len(h) >= 1 /\ h[1] \in Tenants}

AuditRow == [eventId : Events, workspaceId : Tenants, machineId : Machines,
             prevHash : Hash, chainHash : Hash]

AuditTypes ==
  /\ rows \in Seq(AuditRow) /\ stored \in Seq(AuditRow)
  /\ done \in Seq({"delete", "swap", "edit", "move", "relabel", "rehash", "forge"})
  /\ Len(rows) <= AuditRows /\ Len(done) <= MaxAlterations

ChainedRow(k) ==
  LET r == stored[k] IN
  /\ r.chainHash = Append(r.prevHash, r.eventId)
  /\ r.prevHash = Audit!ExpectedPrev(r.workspaceId, stored, k)
  /\ Len(r.chainHash) = Audit!Place(r.workspaceId, stored, k) + 1
  /\ r.chainHash[1] = r.workspaceId

Stems(r) == \E k \in 1 .. Len(stored) : r.prevHash = stored[k].prevHash
                                        /\ r.chainHash = stored[k].chainHash

DeletedAt(i) ==
  /\ Len(rows) = Len(stored) - 1
  /\ \A j \in 1 .. Len(rows) : rows[j] = stored[IF j < i THEN j ELSE j + 1]

\* What one alteration made of the stored rows.
AfterOne ==
  /\ done = << >> => rows = stored
  /\ done = <<"edit">> => \E i \in 1 .. Len(stored), e \in Events :
                            rows = [stored EXCEPT ![i].eventId = e]
  /\ done = <<"relabel">> => \E i \in 1 .. Len(stored), m \in Machines :
                               rows = [stored EXCEPT ![i].machineId = m]
  /\ done = <<"delete">> => \E i \in 1 .. Len(stored) : DeletedAt(i)

AuditInv ==
  /\ AuditTypes
  /\ \A k \in 1 .. Len(stored) : ChainedRow(k)
  /\ Audit!HashesLeft => \A i \in 1 .. Len(rows) : Stems(rows[i])
  /\ AfterOne

LEMMA AuditRowFacts ==
  ASSUME NEW T \in Seq(AuditRow)
  PROVE  /\ Len(T) \in Nat /\ DOMAIN T = 1 .. Len(T)
         /\ \A i \in 1 .. Len(T) :
              /\ T[i] \in AuditRow /\ T[i].eventId \in Events /\ T[i].workspaceId \in Tenants
              /\ T[i].machineId \in Machines
              /\ T[i].prevHash \in Hash /\ T[i].chainHash \in Hash
         /\ \A w : Audit!RowsOf(w, T) = {i \in 1 .. Len(T) : T[i].workspaceId = w}
<1>1. \A i \in 1 .. Len(T) : T[i] \in AuditRow
  OBVIOUS
<1>2. QED
  BY <1>1 DEF AuditRow, Audit!RowsOf

LEMMA HashFacts ==
  ASSUME NEW h \in Hash, NEW e \in Events
  PROVE  /\ Append(h, e) \in Hash /\ Len(h) \in Nat /\ Len(Append(h, e)) = Len(h) + 1
         /\ Append(h, e)[Len(h) + 1] = e
         /\ Len(h) >= 1 => Append(h, e)[1] = h[1]
<1>1. h \in Seq(Tenants \cup Events) /\ Len(h) >= 1 /\ h[1] \in Tenants
  BY DEF Hash
<1>2. /\ Append(h, e) \in Seq(Tenants \cup Events) /\ Len(h) \in Nat
      /\ Len(Append(h, e)) = Len(h) + 1 /\ Append(h, e)[Len(h) + 1] = e
      /\ Append(h, e)[1] = h[1]
  BY <1>1
<1>3. Len(Append(h, e)) >= 1 /\ Append(h, e)[1] \in Tenants
  BY <1>1, <1>2
<1>4. Append(h, e) \in Hash
  BY <1>2, <1>3 DEF Hash
<1>5. QED
  BY <1>2, <1>4

LEMMA GenesisFacts ==
  ASSUME NEW w \in Tenants
  PROVE  /\ Audit!GenesisHash(w) \in Hash /\ Len(Audit!GenesisHash(w)) = 1
         /\ Audit!GenesisHash(w)[1] = w
BY DEF Audit!GenesisHash, Hash

\* Every nonempty set of positions has a last one.
LEMMA LatestIsLast ==
  ASSUME NEW n \in Nat, NEW S, S \subseteq 1 .. n, S # {}
  PROVE  /\ Audit!Latest(S) \in S /\ \A k \in S : k <= Audit!Latest(S)
         /\ \A p \in S : (\A k \in S : k <= p) => p = Audit!Latest(S)
<1> DEFINE D == {d \in 0 .. n : n - d \in S}
<1>0. S \subseteq Nat
  OBVIOUS
<1>1. D \subseteq Nat /\ D # {}
  <2>1. PICK k \in S : TRUE
    OBVIOUS
  <2>2. n - k \in 0 .. n /\ n - (n - k) = k
    OBVIOUS
  <2>3. n - k \in D
    BY <2>2
  <2>4. D \subseteq Nat
    OBVIOUS
  <2>5. QED
    BY <2>3, <2>4
<1>2. PICK d \in D : \A c \in D : d <= c
  BY <1>1, SmallestOfNaturals
<1>3. n - d \in S /\ \A k \in S : k <= n - d
  <2>1. \A k \in S : n - k \in D
    OBVIOUS
  <2>2. QED
    BY <1>2, <2>1
<1>4. Audit!Latest(S) \in S /\ \A k \in S : k <= Audit!Latest(S)
  BY <1>3 DEF Audit!Latest
<1>5. ASSUME NEW p \in S, \A k \in S : k <= p
      PROVE  p = Audit!Latest(S)
  <2>1. p <= Audit!Latest(S) /\ Audit!Latest(S) <= p
    BY <1>4, <1>5
  <2>2. p \in Nat /\ Audit!Latest(S) \in Nat
    BY <1>0, <1>4
  <2>3. QED
    BY <2>1, <2>2
<1>6. QED
  BY <1>4, <1>5

LEMMA PlaceFacts ==
  ASSUME NEW T \in Seq(AuditRow), NEW w, NEW i \in Audit!RowsOf(w, T)
  PROVE  /\ Audit!Place(w, T, i) \in Nat /\ Audit!Place(w, T, i) >= 1
         /\ Audit!Earlier(w, T, i) = {} => Audit!Place(w, T, i) = 1
         /\ Audit!Earlier(w, T, i) # {} =>
              LET l == Audit!Latest(Audit!Earlier(w, T, i))
              IN  /\ l \in Audit!RowsOf(w, T) /\ l < i
                  /\ Audit!Place(w, T, i) = Audit!Place(w, T, l) + 1
<1> DEFINE UpTo(j) == {k \in Audit!RowsOf(w, T) : k <= j}
<1>1. /\ Len(T) \in Nat /\ Audit!RowsOf(w, T) \subseteq 1 .. Len(T) /\ i \in 1 .. Len(T)
      /\ IsFiniteSet(1 .. Len(T))
  <2>1. Len(T) \in Nat /\ Audit!RowsOf(w, T) \subseteq 1 .. Len(T)
    BY AuditRowFacts
  <2>2. QED
    BY <2>1, FS_Interval
<1>2. \A j : IsFiniteSet(UpTo(j)) /\ Cardinality(UpTo(j)) \in Nat
             /\ Audit!Place(w, T, j) = Cardinality(UpTo(j))
  <2>1. \A j : UpTo(j) \subseteq 1 .. Len(T)
    BY <1>1
  <2>2. \A j : IsFiniteSet(UpTo(j)) /\ Cardinality(UpTo(j)) \in Nat
    BY <1>1, <2>1, FS_Subset, FS_CardinalityType
  <2>3. \A j : Audit!Place(w, T, j) = Cardinality(UpTo(j))
    BY SameCardinality DEF Audit!Place
  <2>4. QED
    BY <2>2, <2>3
<1>3. Audit!Earlier(w, T, i) = {k \in Audit!RowsOf(w, T) : k < i}
  BY DEF Audit!Earlier
<1>4. CASE Audit!Earlier(w, T, i) = {}
  <2>1. UpTo(i) = {i}
    BY <1>1, <1>3, <1>4
  <2>2. Cardinality({i}) = 1
    BY FS_Singleton
  <2> HIDE DEF UpTo
  <2>3. Cardinality(UpTo(i)) = 1 /\ Audit!Place(w, T, i) = Cardinality(UpTo(i))
    BY <1>2, <2>1, <2>2
  <2>4. QED
    BY <1>4, <2>3
<1>5. CASE Audit!Earlier(w, T, i) # {}
  <2> DEFINE l == Audit!Latest(Audit!Earlier(w, T, i))
  <2>1. l \in Audit!Earlier(w, T, i) /\ \A k \in Audit!Earlier(w, T, i) : k <= l
    BY <1>1, <1>3, <1>5, LatestIsLast
  <2> HIDE DEF l
  <2>2. UpTo(i) = UpTo(l) \cup {i} /\ i \notin UpTo(l)
    BY <1>1, <1>3, <2>1
  <2> HIDE DEF UpTo
  <2>3. Cardinality(UpTo(i)) = Cardinality(UpTo(l)) + 1
    BY <1>2, <2>2, FS_AddElement
  <2>4. Audit!Place(w, T, i) = Audit!Place(w, T, l) + 1 /\ Audit!Place(w, T, l) \in Nat
    BY <1>2, <2>3
  <2>5. l \in Audit!RowsOf(w, T) /\ l < i
    BY <1>3, <2>1
  <2>6. QED
    BY <1>5, <2>4, <2>5 DEF l
<1>6. QED
  BY <1>4, <1>5

\* A row that is added changes nothing for those before it.
LEMMA RowAdded ==
  ASSUME NEW T \in Seq(AuditRow), NEW U \in Seq(AuditRow), Len(U) = Len(T) + 1,
         \A i \in 1 .. Len(T) : U[i] = T[i], NEW w
  PROVE  /\ \A i \in 1 .. Len(T) : Audit!Place(w, U, i) = Audit!Place(w, T, i)
         /\ \A i \in 1 .. Len(T) + 1 :
              /\ Audit!Earlier(w, U, i) = Audit!Earlier(w, T, i)
              /\ Audit!ExpectedPrev(w, U, i) = Audit!ExpectedPrev(w, T, i)
<1>1. Len(T) \in Nat
  OBVIOUS
<1>2. /\ Audit!RowsOf(w, T) = {i \in 1 .. Len(T) : T[i].workspaceId = w}
      /\ Audit!RowsOf(w, U) = {i \in 1 .. Len(U) : U[i].workspaceId = w}
  BY <1>1, AuditRowFacts
<1>3. ASSUME NEW j \in 1 .. Len(T)
      PROVE  j \in Audit!RowsOf(w, U) <=> j \in Audit!RowsOf(w, T)
  BY <1>1, <1>2
<1>4. ASSUME NEW i \in 1 .. Len(T)
      PROVE  Audit!Place(w, U, i) = Audit!Place(w, T, i)
  <2>1. {j \in Audit!RowsOf(w, U) : j <= i} = {j \in Audit!RowsOf(w, T) : j <= i}
    BY <1>1, <1>2, <1>3
  <2>2. QED
    BY <2>1, SameCardinality DEF Audit!Place
<1>5. ASSUME NEW i \in 1 .. Len(T) + 1
      PROVE  /\ Audit!Earlier(w, U, i) = Audit!Earlier(w, T, i)
             /\ Audit!ExpectedPrev(w, U, i) = Audit!ExpectedPrev(w, T, i)
  <2>1. Audit!Earlier(w, U, i) = Audit!Earlier(w, T, i)
    BY <1>1, <1>2, <1>3 DEF Audit!Earlier
  <2>2. Audit!Earlier(w, T, i) \subseteq 1 .. Len(T)
    BY <1>2 DEF Audit!Earlier
  <2>3. Audit!Earlier(w, T, i) # {} =>
          Audit!Latest(Audit!Earlier(w, T, i)) \in 1 .. Len(T)
    BY <1>1, <2>2, LatestIsLast
  <2>4. QED
    BY <1>1, <2>1, <2>3 DEF Audit!ExpectedPrev
<1>6. QED
  BY <1>4, <1>5

LEMMA ProlongedHash ==
  ASSUME NEW h \in Hash, NEW e \in Events, NEW w, Len(h) >= 1, h[1] = w
  PROVE  Append(h, e)[1] = w /\ Len(Append(h, e)) = Len(h) + 1 /\ Append(h, e) \in Hash
BY HashFacts

\* The length and the first element of a hash that continues the chain of a workspace.
LEMMA NextHash ==
  ASSUME NEW T \in Seq(AuditRow), NEW w \in Tenants, NEW i \in Audit!RowsOf(w, T), NEW e \in Events,
         NEW h \in Hash, h = Audit!ExpectedPrev(w, T, i),
         LET l == Audit!Latest(Audit!Earlier(w, T, i))
         IN  Audit!Earlier(w, T, i) # {} =>
               /\ Len(T[l].chainHash) = Audit!Place(w, T, l) + 1
               /\ T[l].chainHash[1] = w
  PROVE  /\ Append(h, e) \in Hash
         /\ Len(Append(h, e)) = Audit!Place(w, T, i) + 1
         /\ Append(h, e)[1] = w
<1>1. CASE Audit!Earlier(w, T, i) = {}
  <2>1. h = Audit!GenesisHash(w) /\ Audit!Place(w, T, i) = 1
    BY <1>1, PlaceFacts DEF Audit!ExpectedPrev
  <2>2. h \in Hash /\ Len(h) = 1 /\ h[1] = w
    BY <2>1, GenesisFacts
  <2>3. Len(h) >= 1
    BY <2>2
  <2>4. QED
    BY <2>1, <2>2, <2>3, ProlongedHash
<1>2. CASE Audit!Earlier(w, T, i) # {}
  <2> DEFINE l == Audit!Latest(Audit!Earlier(w, T, i))
  <2>1. h = T[l].chainHash /\ Len(h) = Audit!Place(w, T, l) + 1 /\ h[1] = w
    BY <1>2 DEF Audit!ExpectedPrev
  <2>2. l \in Audit!RowsOf(w, T) /\ Audit!Place(w, T, i) = Audit!Place(w, T, l) + 1
    BY <1>2, PlaceFacts
  <2>3. Audit!Place(w, T, l) \in Nat
    BY <2>2, PlaceFacts
  <2> HIDE DEF l
  <2>4. QED
    BY <2>1, <2>2, <2>3, HashFacts
<1>3. QED
  BY <1>1, <1>2

LEMMA StoreStep ==
  ASSUME Audit!AuditAssumption, AuditInv, NEW e \in Events, NEW w \in Tenants, NEW m \in Machines,
         Audit!Store(e, w, m)
  PROVE  AuditInv'
<1> DEFINE h == Audit!LastHash(w)
           row == Audit!Row(e, w, m, h)
           n == Len(rows) + 1
<1>1. /\ done = << >> /\ done' = done /\ Len(rows) < AuditRows
      /\ rows' = Append(rows, row) /\ stored' = rows' /\ rows = stored
  BY DEF Audit!Store, AuditInv, AfterOne
<1>2. /\ rows \in Seq(AuditRow) /\ Len(rows) \in Nat /\ DOMAIN rows = 1 .. Len(rows)
      /\ \A w_1 : Audit!RowsOf(w_1, rows) = {i \in 1 .. Len(rows) : rows[i].workspaceId = w_1}
  BY AuditRowFacts DEF AuditInv, AuditTypes
<1>3. h = Audit!ExpectedPrev(w, rows, n) /\ h \in Hash
  <2>1. Audit!Earlier(w, rows, n) \subseteq 1 .. Len(rows)
    BY <1>2 DEF Audit!Earlier
  <2>2. Audit!Earlier(w, rows, n) # {} => Audit!Latest(Audit!Earlier(w, rows, n)) \in 1 .. Len(rows)
    BY <1>2, <2>1, LatestIsLast
  <2>3. h = Audit!ExpectedPrev(w, rows, n)
    BY DEF Audit!LastHash
  <2>4. QED
    BY <1>2, <2>2, <2>3, AuditRowFacts, GenesisFacts DEF Audit!ExpectedPrev
<1>4. /\ row \in AuditRow /\ row.eventId = e /\ row.workspaceId = w /\ row.prevHash = h
      /\ row.chainHash = Append(h, e)
  BY <1>3, HashFacts DEF Audit!Row, Audit!ComputeChainHash, AuditRow
<1> HIDE DEF row, h
<1>5. /\ rows' \in Seq(AuditRow) /\ Len(rows') = n /\ rows'[n] = row
      /\ \A i \in 1 .. Len(rows) : rows'[i] = rows[i]
  BY <1>1, <1>2, <1>4
<1>0. ASSUME NEW v
      PROVE  /\ \A i \in 1 .. Len(rows) : Audit!Place(v, rows', i) = Audit!Place(v, rows, i)
             /\ \A i \in 1 .. Len(rows) + 1 :
                  /\ Audit!Earlier(v, rows', i) = Audit!Earlier(v, rows, i)
                  /\ Audit!ExpectedPrev(v, rows', i) = Audit!ExpectedPrev(v, rows, i)
  BY <1>2, <1>5, RowAdded
<1>6. ASSUME NEW k \in 1 .. Len(rows)
      PROVE  ChainedRow(k)'
  <2>1. ChainedRow(k) /\ stored[k] = rows[k] /\ stored'[k] = rows[k]
    BY <1>1, <1>5 DEF AuditInv
  <2>2. /\ Audit!Place(rows[k].workspaceId, rows', k) = Audit!Place(rows[k].workspaceId, rows, k)
        /\ Audit!ExpectedPrev(rows[k].workspaceId, rows', k)
             = Audit!ExpectedPrev(rows[k].workspaceId, rows, k)
    BY <1>0, <1>2
  <2>3. QED
    BY <1>1, <2>1, <2>2 DEF ChainedRow
<1>7. ASSUME NEW k, k = n
      PROVE  ChainedRow(k)'
  <2>1. n \in Audit!RowsOf(w, rows')
    BY <1>2, <1>4, <1>5, AuditRowFacts
  <2>2. /\ Audit!Earlier(w, rows', n) = Audit!Earlier(w, rows, n)
        /\ Audit!ExpectedPrev(w, rows', n) = h
    BY <1>0, <1>2, <1>3
  <2> DEFINE l == Audit!Latest(Audit!Earlier(w, rows', n))
  <2>3. ASSUME Audit!Earlier(w, rows', n) # {}
        PROVE  Len(rows'[l].chainHash) = Audit!Place(w, rows', l) + 1 /\ rows'[l].chainHash[1] = w
    <3>1. Audit!Earlier(w, rows, n) \subseteq 1 .. Len(rows)
      BY <1>2 DEF Audit!Earlier
    <3>2. l \in Audit!Earlier(w, rows, n)
      BY <1>2, <2>2, <2>3, <3>1, LatestIsLast
    <3>3. l \in 1 .. Len(rows) /\ rows[l].workspaceId = w
      BY <1>2, <3>2 DEF Audit!Earlier
    <3> HIDE DEF l
    <3>4. Len(rows[l].chainHash) = Audit!Place(w, rows, l) + 1 /\ rows[l].chainHash[1] = w
      BY <1>1, <3>3 DEF AuditInv, ChainedRow
    <3>5. Audit!Place(w, rows', l) = Audit!Place(w, rows, l)
      BY <1>0, <3>3
    <3>6. QED
      BY <1>5, <3>3, <3>4, <3>5
  <2>4. Len(Append(h, e)) = Audit!Place(w, rows', n) + 1 /\ Append(h, e)[1] = w
    BY <1>3, <1>5, <2>1, <2>2, <2>3, NextHash
  <2>5. stored'[k] = row
    BY <1>1, <1>5, <1>7
  <2> HIDE DEF n
  <2>6. QED
    BY <1>1, <1>4, <1>7, <2>2, <2>4, <2>5 DEF ChainedRow
<1>8. \A k \in 1 .. Len(stored') : ChainedRow(k)'
  BY <1>1, <1>2, <1>5, <1>6, <1>7
<1>9. \A i \in 1 .. Len(rows') : Stems(rows[i])'
  BY <1>1 DEF Stems
<1>10. AfterOne'
  BY <1>1 DEF AfterOne
<1>11. AuditTypes'
  BY <1>1, <1>2, <1>5 DEF AuditInv, AuditTypes, Audit!AuditAssumption
<1>12. QED
  BY <1>8, <1>9, <1>10, <1>11 DEF AuditInv

Alterations == {"delete", "swap", "edit", "move", "relabel", "rehash", "forge"}

SameHash(r, q) == r.prevHash = q.prevHash /\ r.chainHash = q.chainHash

LEMMA FirstElement ==
  ASSUME NEW S, NEW s \in Seq(S), NEW e \in S, NEW t, t = Append(s, e), Len(t) = 1
  PROVE  s = << >> /\ t[1] = e
OBVIOUS

\* An alteration that computes no hash invents none.
LEMMA Altered ==
  ASSUME Audit!AuditAssumption, AuditInv, NEW kind \in Alterations, Audit!Alter(kind),
         rows' \in Seq(AuditRow), Len(rows') <= Len(rows) \/ Len(rows') <= AuditRows,
         \/ kind \in {"rehash", "forge"}
         \/ \A i \in 1 .. Len(rows') : \E j \in 1 .. Len(rows) : SameHash(rows'[i], rows[j]),
         \/ kind \in {"swap", "move", "rehash", "forge"}
         \/ kind = "edit" /\ \E i \in 1 .. Len(rows), e \in Events :
                               rows' = [rows EXCEPT ![i].eventId = e]
         \/ kind = "relabel" /\ \E i \in 1 .. Len(rows), m \in Machines :
                                  rows' = [rows EXCEPT ![i].machineId = m]
         \/ kind = "delete" /\ \E i \in 1 .. Len(rows) :
              /\ Len(rows') = Len(rows) - 1
              /\ \A j \in 1 .. Len(rows') : rows'[j] = rows[IF j < i THEN j ELSE j + 1]
  PROVE  AuditInv'
<1>1. /\ done' = Append(done, kind) /\ stored' = stored /\ Len(done) < MaxAlterations
      /\ done \in Seq(Alterations)
  BY DEF Audit!Alter, AuditInv, AuditTypes, Alterations
<1>2. /\ done' \in Seq(Alterations) /\ done' # << >> /\ Len(done') = Len(done) + 1
      /\ Len(done) \in Nat
      /\ \A x : done' = <<x>> => done = << >> /\ x = kind
  <2>1. /\ done' \in Seq(Alterations) /\ Len(done') = Len(done) + 1 /\ Len(done) \in Nat
        /\ done'[Len(done) + 1] = kind
    BY <1>1
  <2>2. ASSUME NEW x, done' = <<x>>
        PROVE  done = << >> /\ x = kind
    <3>1. Len(<<x>>) = 1 /\ <<x>>[1] = x
      OBVIOUS
    <3>2. Len(done') = 1 /\ done'[1] = x
      BY <2>2, <3>1
    <3>3. done = << >> /\ done'[1] = kind
      BY <1>1, <3>2, FirstElement
    <3>4. QED
      BY <3>2, <3>3
  <2>3. done' # << >>
    BY <2>1
  <2>4. QED
    BY <2>1, <2>2, <2>3
<1>3. AuditTypes'
  <2>1. Len(rows) \in Nat /\ Len(rows') \in Nat
    BY DEF AuditInv, AuditTypes
  <2>2. Len(done') <= MaxAlterations /\ Len(rows') <= AuditRows
    BY <1>1, <1>2, <2>1 DEF AuditInv, AuditTypes, Audit!AuditAssumption
  <2>3. QED
    BY <1>1, <1>2, <2>2 DEF AuditInv, AuditTypes, Alterations
<1>4. \A k \in 1 .. Len(stored') : ChainedRow(k)'
  BY <1>1 DEF AuditInv, ChainedRow
<1>5. ASSUME Audit!HashesLeft', NEW i \in 1 .. Len(rows')
      PROVE  Stems(rows[i])'
  <2>0. Audit!HashesLeft /\ kind \notin {"rehash", "forge"}
    <3>1. /\ DOMAIN done' = 1 .. Len(done) + 1 /\ DOMAIN done = 1 .. Len(done)
          /\ done'[Len(done) + 1] = kind /\ Len(done) \in Nat
          /\ \A n \in 1 .. Len(done) : done'[n] = done[n]
      <4>1. /\ Len(done') = Len(done) + 1 /\ done'[Len(done) + 1] = kind
            /\ \A n \in 1 .. Len(done) : done'[n] = done[n]
        BY <1>1
      <4>2. /\ DOMAIN done' = 1 .. Len(done') /\ DOMAIN done = 1 .. Len(done)
        BY <1>1, <1>2
      <4>3. QED
        BY <1>2, <4>1, <4>2
    <3>2. \A n \in DOMAIN done' : done'[n] \notin {"rehash", "forge"}
      BY <1>5 DEF Audit!HashesLeft
    <3>3. QED
      BY <3>1, <3>2 DEF Audit!HashesLeft
  <2>1. PICK j \in 1 .. Len(rows) : SameHash(rows'[i], rows[j])
    BY <2>0
  <2>2. Stems(rows[j])
    BY <2>0 DEF AuditInv
  <2>3. QED
    BY <1>1, <2>1, <2>2 DEF Stems, SameHash
<1>6. done' = << >> => rows' = stored'
  BY <1>2
<1>7. ASSUME done' = <<"edit">>
      PROVE  \E i \in 1 .. Len(stored'), e \in Events : rows' = [stored' EXCEPT ![i].eventId = e]
  <2>1. done = << >> /\ kind = "edit"
    BY <1>2, <1>7
  <2>2. rows = stored
    BY <2>1 DEF AuditInv, AfterOne
  <2>3. QED
    BY <1>1, <2>1, <2>2
<1>8. ASSUME done' = <<"relabel">>
      PROVE  \E i \in 1 .. Len(stored'), m \in Machines :
               rows' = [stored' EXCEPT ![i].machineId = m]
  <2>1. done = << >> /\ kind = "relabel"
    BY <1>2, <1>8
  <2>2. rows = stored
    BY <2>1 DEF AuditInv, AfterOne
  <2>3. QED
    BY <1>1, <2>1, <2>2
<1>9. ASSUME done' = <<"delete">>
      PROVE  \E i \in 1 .. Len(stored') : DeletedAt(i)'
  <2>1. done = << >> /\ kind = "delete"
    BY <1>2, <1>9
  <2>2. rows = stored
    BY <2>1 DEF AuditInv, AfterOne
  <2>3. PICK i \in 1 .. Len(rows) :
          /\ Len(rows') = Len(rows) - 1
          /\ \A j \in 1 .. Len(rows') : rows'[j] = rows[IF j < i THEN j ELSE j + 1]
    BY <2>1
  <2>4. i \in 1 .. Len(stored') /\ DeletedAt(i)'
    BY <1>1, <2>2, <2>3 DEF DeletedAt
  <2>5. QED
    BY <2>4
<1>10. AfterOne'
  BY <1>6, <1>7, <1>8, <1>9 DEF AfterOne
<1>11. QED
  BY <1>3, <1>4, <1>5, <1>10 DEF AuditInv

\* The hash a row is expected to continue from is one.
LEMMA ExpectedIsHash ==
  ASSUME NEW T \in Seq(AuditRow), NEW w \in Tenants, NEW i \in 1 .. Len(T) + 1
  PROVE  Audit!ExpectedPrev(w, T, i) \in Hash
<1>1. Len(T) \in Nat /\ Audit!Earlier(w, T, i) \subseteq 1 .. Len(T)
  BY AuditRowFacts DEF Audit!Earlier
<1>2. Audit!Earlier(w, T, i) # {} => Audit!Latest(Audit!Earlier(w, T, i)) \in 1 .. Len(T)
  BY <1>1, LatestIsLast
<1>3. QED
  BY <1>2, AuditRowFacts, GenesisFacts DEF Audit!ExpectedPrev

\* One row of the table is replaced by a row with the same hashes.
LEMMA Replaced ==
  ASSUME NEW T \in Seq(AuditRow), NEW i \in 1 .. Len(T), NEW r \in AuditRow, SameHash(r, T[i]),
         NEW U, U = [T EXCEPT ![i] = r]
  PROVE  /\ U \in Seq(AuditRow) /\ Len(U) = Len(T)
         /\ \A j \in 1 .. Len(U) : \E k \in 1 .. Len(T) : SameHash(U[j], T[k])
<1>1. U \in Seq(AuditRow) /\ Len(U) = Len(T) /\ U[i] = r /\ \A j \in 1 .. Len(T) : j # i => U[j] = T[j]
  OBVIOUS
<1>2. QED
  BY <1>1 DEF SameHash

LEMMA AuditInvStep ==
  ASSUME Audit!AuditAssumption
  PROVE  AuditInv /\ [Audit!Next]_(Audit!vars) => AuditInv'
<1> SUFFICES ASSUME AuditInv, [Audit!Next]_(Audit!vars)
             PROVE  AuditInv'
  OBVIOUS
<1>0. /\ rows \in Seq(AuditRow) /\ Len(rows) \in Nat /\ DOMAIN rows = 1 .. Len(rows)
      /\ \A i \in 1 .. Len(rows) : rows[i] \in AuditRow
  BY AuditRowFacts DEF AuditInv, AuditTypes
<1>1. ASSUME NEW e \in Events, NEW w \in Tenants, NEW m \in Machines,
         Audit!Store(e, w, m)
      PROVE  AuditInv'
  BY <1>1, StoreStep
<1>2. ASSUME NEW i \in DOMAIN rows, Audit!DeleteRow(i)
      PROVE  AuditInv'
  <2>1. Audit!Alter("delete") /\ rows' = [j \in 1 .. Len(rows) - 1 |->
                                            IF j < i THEN rows[j] ELSE rows[j + 1]]
    BY <1>2 DEF Audit!DeleteRow, Audit!Without
  <2>2. i \in 1 .. Len(rows) /\ Len(rows) - 1 \in Nat
    BY <1>0
  <2>3. \A j \in 1 .. Len(rows) - 1 : j \in 1 .. Len(rows) /\ j + 1 \in 1 .. Len(rows)
    BY <1>0
  <2>4. /\ \A j \in 1 .. Len(rows) - 1 : rows'[j] = rows[IF j < i THEN j ELSE j + 1]
        /\ \A j \in 1 .. Len(rows) - 1 : rows'[j] \in AuditRow
    BY <1>0, <2>1, <2>3
  <2>5. rows' \in Seq(AuditRow) /\ Len(rows') = Len(rows) - 1
    BY <2>1, <2>2, <2>4
  <2>6. \A j \in 1 .. Len(rows') : \E k \in 1 .. Len(rows) : SameHash(rows'[j], rows[k])
    BY <2>3, <2>4, <2>5 DEF SameHash
  <2>7. Len(rows') <= Len(rows) /\ "delete" \in Alterations
    BY <1>0, <2>5 DEF Alterations
  <2>8. QED
    BY <2>1, <2>2, <2>4, <2>5, <2>6, <2>7, Altered
<1>3. ASSUME NEW i \in DOMAIN rows, NEW j \in DOMAIN rows, Audit!SwapRows(i, j)
      PROVE  AuditInv'
  <2>1. Audit!Alter("swap") /\ rows' = [rows EXCEPT ![i] = rows[j], ![j] = rows[i]]
    BY <1>3 DEF Audit!SwapRows
  <2>2. /\ rows' \in Seq(AuditRow) /\ Len(rows') = Len(rows)
        /\ \A k \in 1 .. Len(rows) : rows'[k] = rows[i] \/ rows'[k] = rows[j] \/ rows'[k] = rows[k]
    BY <1>0, <2>1
  <2>3. \A k \in 1 .. Len(rows') : \E l \in 1 .. Len(rows) : SameHash(rows'[k], rows[l])
    BY <1>0, <2>2 DEF SameHash
  <2>4. Len(rows') <= Len(rows) /\ "swap" \in Alterations
    BY <1>0, <2>2 DEF Alterations
  <2>5. QED
    BY <2>1, <2>2, <2>3, <2>4, Altered
<1>4. ASSUME NEW i \in DOMAIN rows, NEW e \in Events, Audit!EditRow(i, e)
      PROVE  AuditInv'
  <2>1. Audit!Alter("edit") /\ rows' = [rows EXCEPT ![i].eventId = e]
    BY <1>4 DEF Audit!EditRow
  <2> DEFINE r == [rows[i] EXCEPT !.eventId = e]
  <2>2. /\ i \in 1 .. Len(rows) /\ r \in AuditRow /\ SameHash(r, rows[i])
        /\ rows' = [rows EXCEPT ![i] = r]
    BY <1>0, <2>1 DEF AuditRow, SameHash
  <2> HIDE DEF r
  <2>3. /\ rows' \in Seq(AuditRow) /\ Len(rows') = Len(rows)
        /\ \A k \in 1 .. Len(rows') : \E l \in 1 .. Len(rows) : SameHash(rows'[k], rows[l])
    BY <1>0, <2>2, Replaced
  <2>4. Len(rows') <= Len(rows) /\ "edit" \in Alterations
    BY <1>0, <2>3 DEF Alterations
  <2>5. QED
    BY <2>1, <2>2, <2>3, <2>4, Altered
<1>5. ASSUME NEW i \in DOMAIN rows, NEW w \in Tenants, Audit!MoveRow(i, w)
      PROVE  AuditInv'
  <2>1. Audit!Alter("move") /\ rows' = [rows EXCEPT ![i].workspaceId = w]
    BY <1>5 DEF Audit!MoveRow
  <2> DEFINE r == [rows[i] EXCEPT !.workspaceId = w]
  <2>2. /\ i \in 1 .. Len(rows) /\ r \in AuditRow /\ SameHash(r, rows[i])
        /\ rows' = [rows EXCEPT ![i] = r]
    BY <1>0, <2>1 DEF AuditRow, SameHash
  <2> HIDE DEF r
  <2>3. /\ rows' \in Seq(AuditRow) /\ Len(rows') = Len(rows)
        /\ \A k \in 1 .. Len(rows') : \E l \in 1 .. Len(rows) : SameHash(rows'[k], rows[l])
    BY <1>0, <2>2, Replaced
  <2>4. Len(rows') <= Len(rows) /\ "move" \in Alterations
    BY <1>0, <2>3 DEF Alterations
  <2>5. QED
    BY <2>1, <2>3, <2>4, Altered
<1>6. ASSUME NEW i \in DOMAIN rows, NEW m \in Machines, Audit!RelabelRow(i, m)
      PROVE  AuditInv'
  <2>1. Audit!Alter("relabel") /\ rows' = [rows EXCEPT ![i].machineId = m]
    BY <1>6 DEF Audit!RelabelRow
  <2> DEFINE r == [rows[i] EXCEPT !.machineId = m]
  <2>2. /\ i \in 1 .. Len(rows) /\ r \in AuditRow /\ SameHash(r, rows[i])
        /\ rows' = [rows EXCEPT ![i] = r]
    BY <1>0, <2>1 DEF AuditRow, SameHash
  <2> HIDE DEF r
  <2>3. /\ rows' \in Seq(AuditRow) /\ Len(rows') = Len(rows)
        /\ \A k \in 1 .. Len(rows') : \E l \in 1 .. Len(rows) : SameHash(rows'[k], rows[l])
    BY <1>0, <2>2, Replaced
  <2>4. Len(rows') <= Len(rows) /\ "relabel" \in Alterations
    BY <1>0, <2>3 DEF Alterations
  <2>5. QED
    BY <2>1, <2>2, <2>3, <2>4, Altered
<1>7. ASSUME NEW i \in DOMAIN rows, Audit!RehashRow(i)
      PROVE  AuditInv'
  <2> DEFINE prev == Audit!ExpectedPrev(rows[i].workspaceId, rows, i)
             new == Audit!ComputeChainHash(prev, rows[i].eventId)
             r == [rows[i] EXCEPT !.prevHash = prev, !.chainHash = new]
  <2>1. /\ Audit!Alter("rehash")
        /\ rows' = [rows EXCEPT ![i].prevHash = prev, ![i].chainHash = new]
    BY <1>7 DEF Audit!RehashRow
  <2>2. /\ i \in 1 .. Len(rows) /\ i \in 1 .. Len(rows) + 1
        /\ rows[i] \in AuditRow /\ rows[i].workspaceId \in Tenants /\ rows[i].eventId \in Events
    BY <1>0, AuditRowFacts
  <2>3. prev \in Hash /\ new \in Hash
    BY <1>0, <2>2, ExpectedIsHash, HashFacts DEF Audit!ComputeChainHash
  <2> HIDE DEF prev, new
  <2>4. r \in AuditRow /\ rows' = [rows EXCEPT ![i] = r]
    BY <1>0, <2>1, <2>2, <2>3 DEF AuditRow
  <2> HIDE DEF r
  <2>5. rows' \in Seq(AuditRow) /\ Len(rows') = Len(rows)
    BY <1>0, <2>2, <2>4
  <2>6. Len(rows') <= Len(rows) /\ "rehash" \in Alterations
    BY <1>0, <2>5 DEF Alterations
  <2>7. QED
    BY <2>1, <2>5, <2>6, Altered
<1>8. ASSUME NEW e \in Events, NEW w \in Tenants, NEW m \in Machines, Audit!ForgeRow(e, w, m)
      PROVE  AuditInv'
  <2> DEFINE h == Audit!LastHash(w)
             row == Audit!Row(e, w, m, h)
  <2>1. Audit!Alter("forge") /\ rows' = Append(rows, row) /\ Len(rows) < AuditRows
    BY <1>8 DEF Audit!ForgeRow
  <2>2. Len(rows) + 1 \in 1 .. Len(rows) + 1
    BY <1>0
  <2>3. h \in Hash
    BY <1>0, <2>2, ExpectedIsHash DEF Audit!LastHash
  <2> HIDE DEF h
  <2>4. row \in AuditRow
    BY <2>3, HashFacts DEF Audit!Row, Audit!ComputeChainHash, AuditRow
  <2> HIDE DEF row
  <2>5. rows' \in Seq(AuditRow) /\ Len(rows') = Len(rows) + 1
    BY <1>0, <2>1, <2>4
  <2>6. Len(rows') <= AuditRows /\ "forge" \in Alterations
    BY <1>0, <2>1, <2>5 DEF Alterations, Audit!AuditAssumption
  <2>7. QED
    BY <2>1, <2>5, <2>6, Altered
<1>9. CASE UNCHANGED Audit!vars
  <2>1. rows' = rows /\ stored' = stored /\ done' = done
    BY <1>9 DEF Audit!vars
  <2>2. QED
    BY <2>1 DEF AuditInv, AuditTypes, ChainedRow, Stems, AfterOne, DeletedAt, Audit!HashesLeft
<1>10. QED
  BY <1>1, <1>2, <1>3, <1>4, <1>5, <1>6, <1>7, <1>8, <1>9 DEF Audit!Next

LEMMA BreakFacts ==
  ASSUME NEW T, NEW w, NEW b
  PROVE  b \in Audit!ChainBreaks(w, T) <=>
           \E i \in Audit!RowsOf(w, T) :
             \/ /\ T[i].prevHash # Audit!ExpectedPrev(w, T, i)
                /\ b = [index |-> i, reason |-> "prev_hash_mismatch"]
             \/ /\ T[i].chainHash # Append(T[i].prevHash, T[i].eventId)
                /\ b = [index |-> i, reason |-> "chain_hash_mismatch"]
BY DEF Audit!ChainBreaks, Audit!ComputeChainHash

LEMMA ValidFacts ==
  ASSUME NEW T, NEW w
  PROVE  Audit!VerifyAuditChain(w, T) <=>
           \A i \in Audit!RowsOf(w, T) :
             /\ T[i].prevHash = Audit!ExpectedPrev(w, T, i)
             /\ T[i].chainHash = Append(T[i].prevHash, T[i].eventId)
BY BreakFacts DEF Audit!VerifyAuditChain

\* What was stored has no break.
LEMMA StoredVerifies ==
  ASSUME AuditInv, NEW w, NEW i \in Audit!RowsOf(w, stored)
  PROVE  /\ stored[i].prevHash = Audit!ExpectedPrev(w, stored, i)
         /\ stored[i].chainHash = Append(stored[i].prevHash, stored[i].eventId)
         /\ i \in 1 .. Len(stored) /\ stored[i].workspaceId = w
<1>1. i \in 1 .. Len(stored) /\ stored[i].workspaceId = w
  BY AuditRowFacts DEF AuditInv, AuditTypes
<1>2. QED
  BY <1>1 DEF AuditInv, ChainedRow

\* In a table that verifies, the hash of a row of the workspace is as long as its place.
LEMMA ValidHashes ==
  ASSUME NEW T \in Seq(AuditRow), NEW w \in Tenants, Audit!VerifyAuditChain(w, T),
         NEW i \in Audit!RowsOf(w, T)
  PROVE  Len(T[i].chainHash) = Audit!Place(w, T, i) + 1 /\ T[i].chainHash[1] = w
<1> DEFINE Fits(j) == Len(T[j].chainHash) = Audit!Place(w, T, j) + 1 /\ T[j].chainHash[1] = w
           Odd == {j \in Audit!RowsOf(w, T) : ~Fits(j)}
<1>1. SUFFICES ASSUME Odd # {}
               PROVE  FALSE
  OBVIOUS
<1>2. Audit!RowsOf(w, T) \subseteq 1 .. Len(T) /\ Len(T) \in Nat
  BY AuditRowFacts
<1>3. PICK j \in Odd : \A k \in Odd : j <= k
  <2>1. Odd \in SUBSET Nat
    BY <1>2
  <2> HIDE DEF Odd
  <2>2. QED
    BY <1>1, <2>1, SmallestOfNaturals
<1>4. /\ j \in Audit!RowsOf(w, T) /\ j \in 1 .. Len(T)
      /\ T[j].prevHash \in Hash /\ T[j].eventId \in Events
      /\ T[j].prevHash = Audit!ExpectedPrev(w, T, j)
      /\ T[j].chainHash = Append(T[j].prevHash, T[j].eventId)
  <2>1. j \in Audit!RowsOf(w, T) /\ j \in 1 .. Len(T)
    BY <1>2
  <2>2. T[j].prevHash \in Hash /\ T[j].eventId \in Events
    BY <2>1, AuditRowFacts
  <2>3. QED
    BY <2>1, <2>2, ValidFacts
<1> DEFINE l == Audit!Latest(Audit!Earlier(w, T, j))
<1>5. Audit!Earlier(w, T, j) # {} => Fits(l)
  <2>1. SUFFICES ASSUME Audit!Earlier(w, T, j) # {}
                 PROVE  Fits(l)
    OBVIOUS
  <2>2. l \in Audit!RowsOf(w, T) /\ l < j
    BY <1>4, <2>1, PlaceFacts
  <2>3. l \notin Odd
    BY <1>2, <1>3, <1>4, <2>2
  <2>4. QED
    BY <2>2, <2>3
<1>6. Fits(j)
  <2>1. /\ Len(Append(T[j].prevHash, T[j].eventId)) = Audit!Place(w, T, j) + 1
        /\ Append(T[j].prevHash, T[j].eventId)[1] = w
    BY <1>4, <1>5, NextHash
  <2>2. QED
    BY <1>4, <2>1
<1>7. QED
  BY <1>3, <1>6

LEMMA VerifiedWasStored ==
  ASSUME AuditInv
  PROVE  Audit!VerifiedIsStored
<1>1. rows \in Seq(AuditRow) /\ stored \in Seq(AuditRow)
  BY DEF AuditInv, AuditTypes
<1>2. ASSUME Audit!HashesLeft, NEW w \in Tenants, Audit!VerifyAuditChain(w, rows),
             NEW i \in Audit!RowsOf(w, rows)
      PROVE  Audit!IsStored(w, i)
  <2>1. i \in 1 .. Len(rows)
    BY <1>1, AuditRowFacts
  <2>2. Len(rows[i].chainHash) = Audit!Place(w, rows, i) + 1 /\ rows[i].chainHash[1] = w
    BY <1>1, <1>2, ValidHashes
  <2>3. rows[i].chainHash = Append(rows[i].prevHash, rows[i].eventId)
    BY <1>2, ValidFacts
  <2>4. PICK k \in 1 .. Len(stored) : /\ rows[i].prevHash = stored[k].prevHash
                                      /\ rows[i].chainHash = stored[k].chainHash
    BY <1>2, <2>1 DEF AuditInv, Stems
  <2>5. ChainedRow(k)
    BY DEF AuditInv
  <2>6. stored[k].workspaceId = w /\ k \in Audit!RowsOf(w, stored)
    BY <1>1, <2>2, <2>4, <2>5, AuditRowFacts DEF ChainedRow
  <2>7. Audit!Place(w, stored, k) = Audit!Place(w, rows, i)
    <3>1. Len(rows[i].chainHash) = Audit!Place(w, stored, k) + 1
      BY <2>4, <2>5, <2>6 DEF ChainedRow
    <3>2. Audit!Place(w, stored, k) \in Nat /\ Audit!Place(w, rows, i) \in Nat
      BY <1>1, <2>6, PlaceFacts
    <3>3. QED
      BY <2>2, <3>1, <3>2
  <2>8. stored[k].eventId = rows[i].eventId
    <3>1. /\ rows[i].prevHash \in Hash /\ rows[i].eventId \in Events /\ stored[k].eventId \in Events
      BY <1>1, <2>1, AuditRowFacts
    <3>2. Append(rows[i].prevHash, rows[i].eventId) = Append(rows[i].prevHash, stored[k].eventId)
      BY <2>3, <2>4, <2>5 DEF ChainedRow
    <3>3. QED
      BY <3>1, <3>2, HashFacts
  <2>9. QED
    BY <2>6, <2>7, <2>8 DEF Audit!IsStored
<1>3. QED
  BY <1>2 DEF Audit!VerifiedIsStored, Audit!Valid

\* The hash of a row names the rows of the workspace up to it: at each place that of
\* the row there, and for each place there is one.
Spells(w, T, i) ==
  /\ \A j \in Audit!RowsOf(w, T) : j <= i =>
       /\ Audit!Place(w, T, j) <= Audit!Place(w, T, i)
       /\ T[i].chainHash[Audit!Place(w, T, j) + 1] = T[j].eventId
  /\ \A n \in 1 .. Audit!Place(w, T, i) : \E j \in Audit!RowsOf(w, T) :
       j <= i /\ Audit!Place(w, T, j) = n

LEMMA ValidSpells ==
  ASSUME NEW T \in Seq(AuditRow), NEW w \in Tenants, Audit!VerifyAuditChain(w, T),
         NEW i \in Audit!RowsOf(w, T)
  PROVE  Spells(w, T, i)
<1> DEFINE Odd == {j \in Audit!RowsOf(w, T) : ~Spells(w, T, j)}
<1>1. SUFFICES ASSUME Odd # {}
               PROVE  FALSE
  OBVIOUS
<1>2. Audit!RowsOf(w, T) \subseteq 1 .. Len(T) /\ Len(T) \in Nat
  BY AuditRowFacts
<1>3. PICK j \in Odd : \A k \in Odd : j <= k
  <2>1. Odd \in SUBSET Nat
    BY <1>2
  <2> HIDE DEF Odd
  <2>2. QED
    BY <1>1, <2>1, SmallestOfNaturals
<1>4. /\ j \in Audit!RowsOf(w, T) /\ j \in 1 .. Len(T)
      /\ T[j].prevHash \in Hash /\ T[j].eventId \in Events
      /\ T[j].prevHash = Audit!ExpectedPrev(w, T, j)
      /\ T[j].chainHash = Append(T[j].prevHash, T[j].eventId)
  <2>1. j \in Audit!RowsOf(w, T) /\ j \in 1 .. Len(T)
    BY <1>2
  <2>2. T[j].prevHash \in Hash /\ T[j].eventId \in Events
    BY <2>1, AuditRowFacts
  <2>3. QED
    BY <2>1, <2>2, ValidFacts
<1> DEFINE p(k) == Audit!Place(w, T, k)
<1>5. Len(T[j].prevHash) \in Nat /\ p(j) \in Nat /\ p(j) >= 1 /\ Len(T[j].prevHash) = p(j)
  <2>1. Len(T[j].chainHash) = p(j) + 1
    BY <1>4, ValidHashes
  <2>2. Len(T[j].chainHash) = Len(T[j].prevHash) + 1 /\ Len(T[j].prevHash) \in Nat
    BY <1>4, HashFacts
  <2>3. p(j) \in Nat /\ p(j) >= 1
    BY <1>4, PlaceFacts
  <2>4. QED
    BY <2>1, <2>2, <2>3
<1>6. /\ T[j].chainHash[p(j) + 1] = T[j].eventId
      /\ \A n \in 1 .. p(j) : T[j].chainHash[n] = T[j].prevHash[n]
  <2>1. T[j].prevHash \in Seq(Tenants \cup Events)
    BY <1>4 DEF Hash
  <2>2. QED
    BY <1>4, <1>5, <2>1
<1> DEFINE l == Audit!Latest(Audit!Earlier(w, T, j))
<1>7. CASE Audit!Earlier(w, T, j) = {}
  <2>1. p(j) = 1
    BY <1>4, <1>7, PlaceFacts
  <2>2. \A k \in Audit!RowsOf(w, T) : k <= j => k = j
    BY <1>2, <1>4, <1>7 DEF Audit!Earlier
  <2>3. \A k \in Audit!RowsOf(w, T) : k <= j =>
          p(k) <= p(j) /\ T[j].chainHash[p(k) + 1] = T[k].eventId
    BY <1>5, <1>6, <2>2
  <2>4. \A n \in 1 .. p(j) : \E k \in Audit!RowsOf(w, T) : k <= j /\ p(k) = n
    <3>1. \A n \in 1 .. p(j) : n = p(j)
      BY <2>1
    <3>2. j <= j
      BY <1>4
    <3>3. QED
      BY <1>4, <3>1, <3>2
  <2>5. Spells(w, T, j)
    BY <2>3, <2>4 DEF Spells
  <2>6. QED
    BY <1>3, <2>5
<1>8. CASE Audit!Earlier(w, T, j) # {}
  <2>1. l \in Audit!RowsOf(w, T) /\ l < j /\ p(j) = p(l) + 1 /\ p(l) \in Nat
    BY <1>4, <1>8, PlaceFacts
  <2>2. Spells(w, T, l)
    BY <1>2, <1>3, <1>4, <2>1
  <2>3. T[j].prevHash = T[l].chainHash
    BY <1>4, <1>8 DEF Audit!ExpectedPrev
  <2>4. \A k \in Audit!RowsOf(w, T) : k <= j => k = j \/ k <= l
    <3>1. Audit!Earlier(w, T, j) \subseteq 1 .. Len(T)
      BY <1>2 DEF Audit!Earlier
    <3>2. \A k \in Audit!Earlier(w, T, j) : k <= l
      BY <1>2, <1>8, <3>1, LatestIsLast
    <3>3. QED
      BY <1>2, <1>4, <3>2 DEF Audit!Earlier
  <2> HIDE DEF l
  <2>5. ASSUME NEW k \in Audit!RowsOf(w, T), k <= j
        PROVE  p(k) <= p(j) /\ T[j].chainHash[p(k) + 1] = T[k].eventId
    <3>1. CASE k = j
      BY <1>5, <1>6, <3>1
    <3>2. CASE k <= l
      <4>1. p(k) <= p(l) /\ T[l].chainHash[p(k) + 1] = T[k].eventId
        BY <2>2, <3>2 DEF Spells
      <4>2. p(k) \in Nat /\ p(k) >= 1
        BY PlaceFacts
      <4>3. p(k) + 1 \in 1 .. p(j) /\ p(k) <= p(j)
        BY <2>1, <4>1, <4>2
      <4>4. QED
        BY <1>6, <2>3, <4>1, <4>3
    <3>3. QED
      BY <2>4, <2>5, <3>1, <3>2
  <2>6. ASSUME NEW n \in 1 .. p(j)
        PROVE  \E k \in Audit!RowsOf(w, T) : k <= j /\ p(k) = n
    <3>1. CASE n = p(j)
      BY <1>2, <1>4, <3>1
    <3>2. CASE n # p(j)
      <4>1. n \in 1 .. p(l)
        BY <2>1, <3>2
      <4>2. PICK k \in Audit!RowsOf(w, T) : k <= l /\ p(k) = n
        BY <2>2, <4>1 DEF Spells
      <4>3. k <= j
        BY <1>2, <1>4, <2>1, <4>2
      <4>4. QED
        BY <4>2, <4>3
    <3>3. QED
      BY <3>1, <3>2
  <2>7. Spells(w, T, j)
    BY <2>5, <2>6 DEF Spells
  <2>8. QED
    BY <1>3, <2>7
<1>9. QED
  BY <1>7, <1>8

\* The stored rows verify.
LEMMA StoredIsValid ==
  ASSUME AuditInv, NEW w
  PROVE  Audit!VerifyAuditChain(w, stored)
BY StoredVerifies, ValidFacts

\* A hash that was stored can only end what was stored.
LEMMA KeptWasStored ==
  ASSUME AuditInv
  PROVE  Audit!KeptHashIsStored
<1>1. rows \in Seq(AuditRow) /\ stored \in Seq(AuditRow)
  BY DEF AuditInv, AuditTypes
<1>2. ASSUME NEW w \in Tenants, Audit!VerifyAuditChain(w, rows),
             NEW i \in Audit!RowsOf(w, rows), NEW k \in Audit!RowsOf(w, stored),
             rows[i].chainHash = stored[k].chainHash,
             NEW j \in Audit!RowsOf(w, rows), j <= i
      PROVE  Audit!IsStored(w, j)
  <2>1. Spells(w, rows, i)
    BY <1>1, <1>2, ValidSpells
  <2>2. Spells(w, stored, k) /\ Audit!VerifyAuditChain(w, stored)
    BY <1>1, <1>2, ValidSpells, StoredIsValid
  <2>3. Audit!Place(w, rows, i) = Audit!Place(w, stored, k)
    <3>1. /\ Len(rows[i].chainHash) = Audit!Place(w, rows, i) + 1
          /\ Len(stored[k].chainHash) = Audit!Place(w, stored, k) + 1
      BY <1>1, <1>2, <2>2, ValidHashes
    <3>2. Audit!Place(w, stored, k) \in Nat /\ Audit!Place(w, rows, i) \in Nat
      BY <1>1, PlaceFacts
    <3>3. QED
      BY <1>2, <3>1, <3>2
  <2>4. /\ Audit!Place(w, rows, j) \in 1 .. Audit!Place(w, stored, k)
        /\ stored[k].chainHash[Audit!Place(w, rows, j) + 1] = rows[j].eventId
    <3>1. Audit!Place(w, rows, j) \in Nat /\ Audit!Place(w, rows, j) >= 1
      BY <1>1, PlaceFacts
    <3>2. Audit!Place(w, stored, k) \in Nat
      BY <1>1, PlaceFacts
    <3>3. /\ Audit!Place(w, rows, j) <= Audit!Place(w, rows, i)
          /\ rows[i].chainHash[Audit!Place(w, rows, j) + 1] = rows[j].eventId
      BY <1>2, <2>1 DEF Spells
    <3>4. QED
      BY <1>2, <2>3, <3>1, <3>2, <3>3
  <2>5. PICK l \in Audit!RowsOf(w, stored) :
          l <= k /\ Audit!Place(w, stored, l) = Audit!Place(w, rows, j)
    BY <2>2, <2>4 DEF Spells
  <2>6. stored[l].eventId = stored[k].chainHash[Audit!Place(w, stored, l) + 1]
    BY <2>2, <2>5 DEF Spells
  <2>7. QED
    BY <2>4, <2>5, <2>6 DEF Audit!IsStored
<1>3. QED
  BY <1>2 DEF Audit!KeptHashIsStored, Audit!Valid

\* One edited field makes one break at most, one missing row too.
LEMMA OneBreak ==
  ASSUME AuditInv, NEW v \in Tenants, NEW w \in Tenants, NEW b \in Audit!ChainBreaks(v, rows),
         NEW c \in Audit!ChainBreaks(w, rows),
         done \in {<<"edit">>, <<"delete">>, <<"relabel">>}
  PROVE  v = w /\ b = c
<1>1. /\ rows \in Seq(AuditRow) /\ stored \in Seq(AuditRow)
      /\ Len(rows) \in Nat /\ Len(stored) \in Nat
      /\ \A u : /\ Audit!RowsOf(u, rows) = {i \in 1 .. Len(rows) : rows[i].workspaceId = u}
                /\ Audit!RowsOf(u, stored) = {i \in 1 .. Len(stored) : stored[i].workspaceId = u}
  BY AuditRowFacts DEF AuditInv, AuditTypes
<1>2. ASSUME Len(rows) = Len(stored),
             \A i \in 1 .. Len(rows) : /\ rows[i].workspaceId = stored[i].workspaceId
                                       /\ SameHash(rows[i], stored[i])
      PROVE  \A u : \A a \in Audit!ChainBreaks(u, rows) :
               \E i \in 1 .. Len(rows) :
                 /\ u = rows[i].workspaceId /\ rows[i].eventId # stored[i].eventId
                 /\ a = [index |-> i, reason |-> "chain_hash_mismatch"]
  <2> SUFFICES ASSUME NEW u, NEW a \in Audit!ChainBreaks(u, rows)
               PROVE  \E i \in 1 .. Len(rows) :
                        /\ u = rows[i].workspaceId /\ rows[i].eventId # stored[i].eventId
                        /\ a = [index |-> i, reason |-> "chain_hash_mismatch"]
    OBVIOUS
  <2>0. /\ Audit!RowsOf(u, rows) = {i \in 1 .. Len(rows) : rows[i].workspaceId = u}
        /\ Audit!RowsOf(u, stored) = {i \in 1 .. Len(stored) : stored[i].workspaceId = u}
    BY <1>1
  <2>1. Audit!RowsOf(u, rows) = Audit!RowsOf(u, stored)
    BY <1>2, <2>0
  <2>2. PICK i \in Audit!RowsOf(u, rows) :
          \/ /\ rows[i].prevHash # Audit!ExpectedPrev(u, rows, i)
             /\ a = [index |-> i, reason |-> "prev_hash_mismatch"]
          \/ /\ rows[i].chainHash # Append(rows[i].prevHash, rows[i].eventId)
             /\ a = [index |-> i, reason |-> "chain_hash_mismatch"]
    BY BreakFacts
  <2>3. i \in 1 .. Len(rows) /\ rows[i].workspaceId = u
    BY <1>1
  <2>4. /\ stored[i].prevHash = Audit!ExpectedPrev(u, stored, i)
        /\ stored[i].chainHash = Append(stored[i].prevHash, stored[i].eventId)
    BY <2>1, StoredVerifies
  <2>5. Audit!ExpectedPrev(u, rows, i) = Audit!ExpectedPrev(u, stored, i)
    <3>1. Audit!Earlier(u, rows, i) = Audit!Earlier(u, stored, i)
      BY <2>1 DEF Audit!Earlier
    <3>2. Audit!Earlier(u, rows, i) # {} =>
            Audit!Latest(Audit!Earlier(u, rows, i)) \in 1 .. Len(rows)
      <4>1. Audit!Earlier(u, rows, i) \subseteq 1 .. Len(rows)
        BY <1>1 DEF Audit!Earlier
      <4>2. QED
        BY <1>1, <4>1, LatestIsLast
    <3>3. QED
      BY <1>2, <3>1, <3>2 DEF Audit!ExpectedPrev, SameHash
  <2>6. SameHash(rows[i], stored[i])
    BY <1>2, <2>3
  <2>7. QED
    BY <2>2, <2>3, <2>4, <2>5, <2>6 DEF SameHash
<1>3. CASE done = <<"edit">>
  <2>1. PICK i \in 1 .. Len(stored), e \in Events : rows = [stored EXCEPT ![i].eventId = e]
    BY <1>3 DEF AuditInv, AfterOne
  <2>2. /\ Len(rows) = Len(stored)
        /\ \A j \in 1 .. Len(stored) : j # i => rows[j] = stored[j]
        /\ rows[i] = [stored[i] EXCEPT !.eventId = e]
    BY <1>1, <2>1
  <2>3. stored[i] \in AuditRow
    BY <1>1
  <2>4. rows[i].workspaceId = stored[i].workspaceId /\ SameHash(rows[i], stored[i])
    BY <2>2, <2>3 DEF AuditRow, SameHash
  <2>5. \A j \in 1 .. Len(rows) : /\ rows[j].workspaceId = stored[j].workspaceId
                                  /\ SameHash(rows[j], stored[j])
    BY <2>2, <2>4 DEF SameHash
  <2>6. \A j \in 1 .. Len(rows) : rows[j].eventId # stored[j].eventId => j = i
    BY <2>2
  <2>7. QED
    BY <1>2, <2>2, <2>5, <2>6
<1>4. CASE done = <<"relabel">>
  <2>1. PICK i \in 1 .. Len(stored), m \in Machines : rows = [stored EXCEPT ![i].machineId = m]
    BY <1>4 DEF AuditInv, AfterOne
  <2>2. /\ Len(rows) = Len(stored)
        /\ \A j \in 1 .. Len(stored) : j # i => rows[j] = stored[j]
        /\ rows[i] = [stored[i] EXCEPT !.machineId = m]
    BY <1>1, <2>1
  <2>3. stored[i] \in AuditRow
    BY <1>1
  <2>4. /\ rows[i].workspaceId = stored[i].workspaceId /\ SameHash(rows[i], stored[i])
        /\ rows[i].eventId = stored[i].eventId
    BY <2>2, <2>3 DEF AuditRow, SameHash
  <2>5. \A j \in 1 .. Len(rows) : /\ rows[j].workspaceId = stored[j].workspaceId
                                  /\ SameHash(rows[j], stored[j])
                                  /\ rows[j].eventId = stored[j].eventId
    BY <2>2, <2>4 DEF SameHash
  <2>6. QED
    BY <1>2, <2>2, <2>5
<1>5. CASE done = <<"delete">>
  <2>1. PICK i \in 1 .. Len(stored) : DeletedAt(i)
    BY <1>5 DEF AuditInv, AfterOne
  <2> DEFINE from(j) == IF j < i THEN j ELSE j + 1
  <2>2. /\ \A j \in 1 .. Len(rows) : /\ from(j) \in 1 .. Len(stored) /\ from(j) # i
                                     /\ rows[j] = stored[from(j)]
        /\ \A j \in 1 .. Len(rows), k \in 1 .. Len(rows) : j < k <=> from(j) < from(k)
        /\ \A k \in 1 .. Len(stored) : k # i => \E j \in 1 .. Len(rows) : k = from(j)
    <3>1. Len(rows) = Len(stored) - 1
      BY <2>1 DEF DeletedAt
    <3>2. \A j \in 1 .. Len(rows) : /\ from(j) \in 1 .. Len(stored) /\ from(j) # i
                                    /\ rows[j] = stored[from(j)]
      BY <1>1, <2>1, <3>1 DEF DeletedAt
    <3>3. ASSUME NEW j \in 1 .. Len(rows), NEW k \in 1 .. Len(rows)
          PROVE  j < k <=> from(j) < from(k)
      <4>1. j \in Nat /\ k \in Nat /\ i \in Nat
        BY <1>1
      <4>2. CASE j < i /\ k < i
        BY <4>1, <4>2
      <4>3. CASE j < i /\ ~(k < i)
        BY <4>1, <4>3
      <4>4. CASE ~(j < i) /\ k < i
        BY <4>1, <4>4
      <4>5. CASE ~(j < i) /\ ~(k < i)
        BY <4>1, <4>5
      <4>6. QED
        BY <4>2, <4>3, <4>4, <4>5
    <3>4. ASSUME NEW k \in 1 .. Len(stored), k # i
          PROVE  \E j \in 1 .. Len(rows) : k = from(j)
      <4>1. CASE k < i
        <5>1. k \in 1 .. Len(rows) /\ k = from(k)
          BY <1>1, <3>1, <4>1
        <5>2. QED
          BY <5>1
      <4>2. CASE k > i
        <5>1. k - 1 \in 1 .. Len(rows) /\ k = from(k - 1)
          BY <1>1, <3>1, <4>2
        <5>2. QED
          BY <5>1
      <4>3. QED
        BY <1>1, <3>4, <4>1, <4>2
    <3>5. QED
      BY <3>2, <3>3, <3>4
  <2> HIDE DEF from
  <2>3. \A u : \A j \in 1 .. Len(rows) :
          /\ j \in Audit!RowsOf(u, rows) <=> from(j) \in Audit!RowsOf(u, stored)
    BY <1>1, <2>2
  \* Only the row after the missing one can have another row before it.
  <2>4. ASSUME NEW u, NEW a \in Audit!ChainBreaks(u, rows)
        PROVE  \E j \in Audit!RowsOf(u, rows) :
                 /\ a = [index |-> j, reason |-> "prev_hash_mismatch"]
                 /\ i \in Audit!RowsOf(u, stored) /\ i < from(j)
                 /\ \A k \in Audit!RowsOf(u, rows) : k < j => from(k) < i
    <3>1. PICK j \in Audit!RowsOf(u, rows) :
            \/ /\ rows[j].prevHash # Audit!ExpectedPrev(u, rows, j)
               /\ a = [index |-> j, reason |-> "prev_hash_mismatch"]
            \/ /\ rows[j].chainHash # Append(rows[j].prevHash, rows[j].eventId)
               /\ a = [index |-> j, reason |-> "chain_hash_mismatch"]
      BY <2>4, BreakFacts
    <3> DEFINE s == from(j)
    <3>2. j \in 1 .. Len(rows) /\ s \in Audit!RowsOf(u, stored) /\ rows[j] = stored[s]
      BY <1>1, <2>2, <2>3
    <3>3. /\ rows[j].prevHash = Audit!ExpectedPrev(u, stored, s)
          /\ rows[j].chainHash = Append(rows[j].prevHash, rows[j].eventId)
      BY <3>2, StoredVerifies
    <3>4. /\ Audit!ExpectedPrev(u, rows, j) # Audit!ExpectedPrev(u, stored, s)
          /\ a = [index |-> j, reason |-> "prev_hash_mismatch"]
      BY <3>1, <3>3
    <3> DEFINE R == Audit!Earlier(u, rows, j)
               S == Audit!Earlier(u, stored, s)
    <3>5. /\ R \subseteq 1 .. Len(rows) /\ S \subseteq 1 .. Len(stored) /\ i \in Nat
          /\ \A k \in 1 .. Len(rows) : k \in R <=> from(k) \in S
          /\ \A k \in S : k # i => \E q \in R : k = from(q)
      <4>1. R \subseteq 1 .. Len(rows) /\ S \subseteq 1 .. Len(stored) /\ i \in Nat
        BY <1>1 DEF Audit!Earlier
      <4>2. ASSUME NEW k \in 1 .. Len(rows)
            PROVE  k \in R <=> from(k) \in S
        BY <2>2, <2>3, <3>2 DEF Audit!Earlier
      <4>3. QED
        BY <2>2, <4>1, <4>2
    <3>6. /\ Audit!ExpectedPrev(u, rows, j) = IF R = {} THEN Audit!GenesisHash(u)
                                              ELSE rows[Audit!Latest(R)].chainHash
          /\ Audit!ExpectedPrev(u, stored, s) = IF S = {} THEN Audit!GenesisHash(u)
                                                ELSE stored[Audit!Latest(S)].chainHash
      BY DEF Audit!ExpectedPrev
    <3>7. S # {}
      BY <3>4, <3>5, <3>6
    <3> DEFINE p == Audit!Latest(S)
    <3>8. p \in S /\ \A k \in S : k <= p
      BY <1>1, <3>5, <3>7, LatestIsLast
    <3> HIDE DEF R, S, p, s
    <3>9. p = i
      <4>1. SUFFICES ASSUME p # i
                     PROVE  FALSE
        OBVIOUS
      <4>2. PICK q \in R : p = from(q)
        BY <3>5, <3>8, <4>1
      <4>3. \A k \in R : k <= q
        <5>1. ASSUME NEW k \in R, q < k
              PROVE  FALSE
          <6>1. from(q) < from(k) /\ from(k) \in S /\ from(k) \in Nat /\ p \in Nat
            BY <1>1, <2>2, <3>5, <3>8, <4>2, <5>1
          <6>2. QED
            BY <3>8, <4>2, <6>1
        <5>2. QED
          BY <1>1, <3>5, <5>1
      <4>4. q = Audit!Latest(R)
        BY <1>1, <3>5, <4>2, <4>3, LatestIsLast
      <4>5. rows[q] = stored[p]
        BY <2>2, <3>5, <4>2
      <4>6. QED
        BY <3>4, <3>6, <3>7, <4>2, <4>4, <4>5 DEF p
    <3>10. i \in Audit!RowsOf(u, stored) /\ i < from(j)
      BY <3>8, <3>9 DEF S, s, Audit!Earlier
    <3>11. ASSUME NEW k \in Audit!RowsOf(u, rows), k < j
           PROVE  from(k) < i
      <4>1. k \in R /\ k \in 1 .. Len(rows)
        BY <1>1, <3>11 DEF R, Audit!Earlier
      <4>2. from(k) \in S /\ from(k) # i /\ from(k) \in Nat
        BY <1>1, <2>2, <3>5, <4>1
      <4>3. QED
        BY <3>5, <3>8, <3>9, <4>2
    <3>12. QED
      BY <3>4, <3>10, <3>11
  <2>5. PICK j \in Audit!RowsOf(v, rows) :
          /\ b = [index |-> j, reason |-> "prev_hash_mismatch"]
          /\ i \in Audit!RowsOf(v, stored) /\ i < from(j)
          /\ \A k \in Audit!RowsOf(v, rows) : k < j => from(k) < i
    BY <2>4
  <2>6. PICK l \in Audit!RowsOf(w, rows) :
          /\ c = [index |-> l, reason |-> "prev_hash_mismatch"]
          /\ i \in Audit!RowsOf(w, stored) /\ i < from(l)
          /\ \A k \in Audit!RowsOf(w, rows) : k < l => from(k) < i
    BY <2>4
  <2>7. v = w
    BY <1>1, <2>5, <2>6
  <2>8. /\ j \in 1 .. Len(rows) /\ l \in 1 .. Len(rows) /\ i \in Nat
        /\ from(j) \in Nat /\ from(l) \in Nat
    BY <1>1, <2>2
  <2>9. j = l
    <3>1. ~(j < l) /\ ~(l < j)
      BY <2>5, <2>6, <2>7, <2>8
    <3>2. QED
      BY <2>8, <3>1
  <2>10. QED
    BY <2>5, <2>6, <2>7, <2>9
<1>6. QED
  BY <1>3, <1>4, <1>5

\* What verifies was stored, at the place it has, unless whoever altered the table also
\* computed hashes (which needs no key), and then too up to any row whose hash is one
\* that was stored; what is stored and not altered does verify; one alteration is
\* reported as one break (verifyAuditChain over the rows that insertEvent wrote).
THEOREM ExportTellsTheTruth ==
  ASSUME Audit!AuditAssumption
  PROVE  Audit!Spec => [](/\ Audit!TypeOK /\ Audit!UnalteredVerifies
                          /\ Audit!VerifiedIsStored /\ Audit!KeptHashIsStored
                          /\ Audit!NoCascade)
<1>1. Audit!Init => AuditInv
  <2> SUFFICES ASSUME Audit!Init
               PROVE  AuditInv
    OBVIOUS
  <2>1. rows = << >> /\ stored = << >> /\ done = << >>
    BY DEF Audit!Init
  <2>2. Len(<< >>) = 0 /\ \A i : i \notin 1 .. 0
    OBVIOUS
  <2>3. /\ << >> \in Seq(AuditRow)
        /\ << >> \in Seq({"delete", "swap", "edit", "move", "relabel", "rehash", "forge"})
    OBVIOUS
  <2>4. AuditTypes
    BY <2>1, <2>2, <2>3 DEF AuditTypes, Audit!AuditAssumption
  <2>5. \A x : << >> # <<x>>
    OBVIOUS
  <2>6. AfterOne
    BY <2>1, <2>5 DEF AfterOne
  <2>7. QED
    BY <2>1, <2>2, <2>4, <2>6 DEF AuditInv
<1>2. AuditInv => Audit!TypeOK
  <2> SUFFICES ASSUME AuditInv, NEW i \in DOMAIN rows
               PROVE  /\ rows[i].eventId \in Events
                      /\ rows[i].workspaceId \in Tenants
                      /\ rows[i].machineId \in Machines
                      /\ rows[i].prevHash # << >> /\ rows[i].prevHash[1] \in Tenants
                      /\ rows[i].chainHash # << >> /\ rows[i].chainHash[1] \in Tenants
    BY DEF Audit!TypeOK, AuditInv, AuditTypes
  <2>1. /\ rows \in Seq(AuditRow) /\ stored \in Seq(AuditRow) /\ i \in 1 .. Len(rows)
        /\ rows[i].eventId \in Events
        /\ rows[i].workspaceId \in Tenants /\ rows[i].machineId \in Machines
    BY AuditRowFacts DEF AuditInv, AuditTypes
  <2>2. rows[i].prevHash \in Hash /\ rows[i].chainHash \in Hash
    BY <2>1, AuditRowFacts
  <2>3. QED
    BY <2>1, <2>2 DEF Hash
<1>3. AuditInv => Audit!UnalteredVerifies
  BY StoredVerifies, ValidFacts DEF AuditInv, AfterOne, Audit!UnalteredVerifies, Audit!Valid
<1>4. AuditInv => Audit!NoCascade
  <2> DEFINE B == UNION {{<<w, b>> : b \in Audit!ChainBreaks(w, rows)} : w \in Tenants}
  <2>1. SUFFICES ASSUME AuditInv, done \in {<<"edit">>, <<"delete">>, <<"relabel">>}
                 PROVE  Cardinality(B) <= 1
    BY SameCardinality DEF Audit!NoCascade
  <2>2. \A x \in B, y \in B : x = y
    BY <2>1, OneBreak
  <2> HIDE DEF B
  <2>3. CASE B = {}
    BY <2>3, FS_EmptySet
  <2>4. CASE B # {}
    <3>1. PICK x \in B : B = {x}
      BY <2>2, <2>4
    <3>2. QED
      BY <3>1, FS_Singleton
  <2>5. QED
    BY <2>3, <2>4
<1>5. QED
  BY <1>1, <1>2, <1>3, <1>4, AuditInvStep, VerifiedWasStored, KeptWasStored, PTL DEF Audit!Spec

(***************************************************************************)
(* LiveFeed.  Rows are only added, so that an answer, once taken, stays    *)
(* true of the rows that were stored then.                                 *)
(***************************************************************************)
FeedRow == [workspace : Workspaces, ts : Nat, type : Reported,
            severity : {"info", "low", "medium", "high", "critical"}]
PollRecord == [stage : {"sent", "answered", "done", "failed"}, answer : SUBSET Nat,
               stored : Nat, at : Nat, plan : FeedPlans \cup {None}]

FeedTypes ==
  /\ now \in Nat
  /\ feedPlan \in FeedPlans
  /\ feedRows \in Seq(FeedRow)
  /\ \A i \in 1 .. Len(feedRows) : feedRows[i].severity = Feed!SeverityFor(feedRows[i].type)
  /\ polls \in Seq(PollRecord)

Due(p) ==
  {i \in 1 .. p.stored : OrgOf[feedRows[i].workspace] = Org /\ Feed!Retained(i, p.plan, p.at)}

Faithful(p) ==
  /\ p.stored <= Len(feedRows)
  /\ p.answer \subseteq Due(p)
  /\ \A i \in Due(p) \ p.answer :
       /\ Cardinality(p.answer) = Limit
       /\ \A j \in p.answer : feedRows[j].ts >= feedRows[i].ts

Unanswered(p) == p.at = 0 /\ p.plan = None

FeedInv ==
  FeedTypes /\ \A n \in 1 .. Len(polls) : Unanswered(polls[n]) \/ Faithful(polls[n])

LEMMA FeedRowFacts ==
  ASSUME feedRows \in Seq(FeedRow), NEW i \in 1 .. Len(feedRows)
  PROVE  feedRows[i].ts \in Nat /\ feedRows[i].type \in Reported
<1>1. feedRows[i] \in FeedRow
  OBVIOUS
<1>2. QED
  BY <1>1 DEF FeedRow

LEMMA PollFacts ==
  ASSUME polls \in Seq(PollRecord), NEW n \in 1 .. Len(polls)
  PROVE  polls[n] \in PollRecord /\ polls[n].stored \in Nat /\ polls[n].at \in Nat
<1>1. polls[n] \in PollRecord
  OBVIOUS
<1>2. QED
  BY <1>1 DEF PollRecord

\* The limit is applied before the retention: what the retention then removes would
\* have made room for nothing that it retains.
LEMMA AnswerIsFaithful ==
  ASSUME Feed!LiveFeedAssumption, FeedTypes, NEW chosen \in Feed!Newest(Feed!OrgRows),
         NEW p, p.stored = Len(feedRows), p.at = now, p.plan = feedPlan,
         p.answer = {i \in chosen : Feed!Retained(i, feedPlan, now)}
  PROVE  Faithful(p)
<1>1. /\ chosen \subseteq Feed!OrgRows /\ Feed!OrgRows \subseteq 1 .. Len(feedRows)
      /\ Len(feedRows) \in Nat /\ IsFiniteSet(1 .. Len(feedRows))
  <2>1. chosen \subseteq Feed!OrgRows
    BY DEF Feed!Newest
  <2>2. Feed!OrgRows \subseteq 1 .. Len(feedRows)
    BY DEF Feed!OrgRows
  <2>3. Len(feedRows) \in Nat
    BY DEF FeedTypes
  <2>4. IsFiniteSet(1 .. Len(feedRows))
    BY <2>3, FS_Interval
  <2>5. QED
    BY <2>1, <2>2, <2>3, <2>4
<1>2. IsFiniteSet(Feed!OrgRows) /\ IsFiniteSet(chosen)
  BY <1>1, FS_Subset
<1>3. /\ Cardinality(chosen) = IF Cardinality(Feed!OrgRows) < Limit
                               THEN Cardinality(Feed!OrgRows) ELSE Limit
      /\ \A i \in chosen, j \in Feed!OrgRows \ chosen : feedRows[i].ts >= feedRows[j].ts
  BY SameCardinality DEF Feed!Newest
<1>4. \A i : i \in Due(p) <=> i \in Feed!OrgRows /\ Feed!Retained(i, feedPlan, now)
  <2>1. Due(p) = {i \in 1 .. Len(feedRows) :
                    OrgOf[feedRows[i].workspace] = Org /\ Feed!Retained(i, feedPlan, now)}
    BY DEF Due
  <2>2. QED
    BY <2>1 DEF Feed!OrgRows
<1>5. p.answer \subseteq Due(p)
  BY <1>1, <1>4
<1>6. ASSUME NEW i \in Due(p) \ p.answer
      PROVE  Cardinality(p.answer) = Limit /\ \A j \in p.answer : feedRows[j].ts >= feedRows[i].ts
  <2>1. i \in Feed!OrgRows \ chosen /\ Feed!Retained(i, feedPlan, now)
    BY <1>4
  <2>2. Cardinality(chosen) = Limit
    <3>1. Cardinality(chosen) # Cardinality(Feed!OrgRows)
      BY <1>1, <1>2, <2>1, FS_Subset
    <3>2. QED
      BY <1>3, <3>1
  <2>3. ASSUME NEW j \in chosen
        PROVE  Feed!Retained(j, feedPlan, now)
    <3>1. feedRows[j].ts >= feedRows[i].ts /\ feedRows[j].ts \in Nat /\ feedRows[i].ts \in Nat
      BY <1>1, <1>3, <2>1, FeedRowFacts DEF FeedTypes
    <3>2. RetentionOf[feedPlan] = None \/ RetentionOf[feedPlan] \in Nat
      BY DEF Feed!LiveFeedAssumption, FeedTypes
    <3>3. now \in Nat
      BY DEF FeedTypes
    <3>4. QED
      BY <2>1, <3>1, <3>2, <3>3 DEF Feed!Retained
  <2>4. p.answer = chosen
    BY <2>3
  <2>5. QED
    BY <1>3, <2>1, <2>2, <2>4
<1>7. QED
  BY <1>1, <1>5, <1>6 DEF Faithful

\* An answer stays faithful while rows are added.
LEMMA StaysFaithful ==
  ASSUME FeedTypes, FeedTypes', Len(feedRows) <= Len(feedRows'),
         \A i \in 1 .. Len(feedRows) : feedRows'[i] = feedRows[i],
         NEW n \in 1 .. Len(polls), Faithful(polls[n]),
         NEW m \in 1 .. Len(polls'), polls'[m].answer = polls[n].answer,
         polls'[m].stored = polls[n].stored, polls'[m].at = polls[n].at,
         polls'[m].plan = polls[n].plan
  PROVE  Faithful(polls[m])'
<1>1. /\ Len(feedRows) \in Nat /\ Len(feedRows') \in Nat /\ polls[n].stored \in Nat
      /\ polls[n].stored <= Len(feedRows)
  BY PollFacts DEF FeedTypes, Faithful
<1>2. \A i \in 1 .. polls[n].stored : i \in 1 .. Len(feedRows) /\ feedRows'[i] = feedRows[i]
  BY <1>1
<1>3. Due(polls[m])' = Due(polls[n])
  BY <1>2 DEF Due, Feed!Retained
<1>4. \A i \in Due(polls[n]) : feedRows'[i] = feedRows[i]
  BY <1>2 DEF Due
<1>5. polls[n].stored <= Len(feedRows')
  BY <1>1
<1>6. QED
  BY <1>3, <1>4, <1>5 DEF Faithful

SamePoll(p, q) == p.answer = q.answer /\ p.stored = q.stored /\ p.at = q.at /\ p.plan = q.plan

LEMMA FeedInvFrom ==
  ASSUME FeedInv, FeedTypes', Len(feedRows) <= Len(feedRows'),
         \A i \in 1 .. Len(feedRows) : feedRows'[i] = feedRows[i],
         \A m \in 1 .. Len(polls') :
           \/ Unanswered(polls'[m]) \/ Faithful(polls[m])'
           \/ \E n \in 1 .. Len(polls) : SamePoll(polls'[m], polls[n])
  PROVE  FeedInv'
<1>1. ASSUME NEW m \in 1 .. Len(polls'), NEW n \in 1 .. Len(polls), SamePoll(polls'[m], polls[n])
      PROVE  Unanswered(polls'[m]) \/ Faithful(polls[m])'
  <2>1. CASE Unanswered(polls[n])
    BY <1>1, <2>1 DEF SamePoll, Unanswered
  <2>2. CASE Faithful(polls[n])
    BY <1>1, <2>2, StaysFaithful DEF SamePoll, FeedInv
  <2>3. QED
    BY <2>1, <2>2 DEF FeedInv
<1>2. QED
  BY <1>1 DEF FeedInv, Unanswered

LEMMA FeedInvStep ==
  ASSUME Feed!LiveFeedAssumption
  PROVE  FeedInv /\ [Feed!Next]_(Feed!vars) => FeedInv'
<1> SUFFICES ASSUME FeedInv, [Feed!Next]_(Feed!vars)
             PROVE  FeedInv'
  OBVIOUS
<1>0. /\ FeedTypes /\ feedRows \in Seq(FeedRow) /\ polls \in Seq(PollRecord)
      /\ Len(feedRows) \in Nat /\ Len(polls) \in Nat
  BY DEF FeedInv, FeedTypes
<1>1. ASSUME UNCHANGED <<feedRows, polls>>, now' \in Nat, feedPlan' \in FeedPlans
      PROVE  FeedInv'
  <2>1. FeedTypes'
    BY <1>1 DEF FeedInv, FeedTypes
  <2>2. \A m \in 1 .. Len(polls') : SamePoll(polls'[m], polls[m]) /\ m \in 1 .. Len(polls)
    BY <1>1 DEF SamePoll
  <2>3. QED
    BY <1>0, <1>1, <2>1, <2>2, FeedInvFrom
<1>2. CASE Feed!Store
  <2>1. PICK w \in Workspaces, ts \in 0 .. now, type \in Reported :
          feedRows' = Append(feedRows, [workspace |-> w, ts |-> ts, type |-> type,
                                        severity |-> Feed!SeverityFor(type)])
    BY <1>2 DEF Feed!Store
  <2> DEFINE row == [workspace |-> w, ts |-> ts, type |-> type,
                     severity |-> Feed!SeverityFor(type)]
  <2>2. UNCHANGED <<now, feedPlan, polls>>
    BY <1>2 DEF Feed!Store
  <2>3. row \in FeedRow /\ row.severity = Feed!SeverityFor(row.type)
    <3>1. ts \in Nat
      BY DEF FeedInv, FeedTypes
    <3>2. Feed!SeverityFor(type) \in {"info", "low", "medium", "high", "critical"}
      BY DEF Feed!SeverityFor, Feed!LiveFeedAssumption, Feed!Types
    <3>3. QED
      BY <3>1, <3>2 DEF FeedRow
  <2> HIDE DEF row
  <2>4. feedRows' = Append(feedRows, row)
    BY <2>1 DEF row
  <2>5. /\ feedRows' \in Seq(FeedRow) /\ Len(feedRows') = Len(feedRows) + 1
        /\ feedRows'[Len(feedRows) + 1] = row
        /\ \A i \in 1 .. Len(feedRows) : feedRows'[i] = feedRows[i]
    BY <1>0, <2>3, <2>4
  <2>6. FeedTypes'
    BY <1>0, <2>2, <2>3, <2>5 DEF FeedTypes
  <2>7. \A m \in 1 .. Len(polls') : SamePoll(polls'[m], polls[m]) /\ m \in 1 .. Len(polls)
    BY <2>2 DEF SamePoll
  <2>8. QED
    BY <1>0, <2>5, <2>6, <2>7, FeedInvFrom
<1>3. CASE Feed!Poll
  <2>1. polls' = Append(polls, Feed!NewPoll) /\ UNCHANGED <<now, feedPlan, feedRows>>
    BY <1>3 DEF Feed!Poll
  <2>2. Feed!NewPoll \in PollRecord /\ Unanswered(Feed!NewPoll)
    BY DEF Feed!NewPoll, PollRecord, Unanswered
  <2>3. /\ polls' \in Seq(PollRecord) /\ Len(polls') = Len(polls) + 1
        /\ polls'[Len(polls) + 1] = Feed!NewPoll
        /\ \A n \in 1 .. Len(polls) : polls'[n] = polls[n]
    BY <1>0, <2>1, <2>2
  <2>4. FeedTypes'
    BY <1>0, <2>1, <2>3 DEF FeedTypes
  <2>5. \A m \in 1 .. Len(polls') :
          \/ Unanswered(polls'[m])
          \/ m \in 1 .. Len(polls) /\ SamePoll(polls'[m], polls[m])
    BY <1>0, <2>2, <2>3 DEF SamePoll
  <2>6. QED
    BY <1>0, <2>1, <2>4, <2>5, FeedInvFrom
<1>4. ASSUME NEW n \in 1 .. Len(polls), Feed!Answer(n)
      PROVE  FeedInv'
  <2>1. PICK chosen \in Feed!Newest(Feed!OrgRows) :
          polls' = [polls EXCEPT ![n] =
                      [stage |-> "answered", stored |-> Len(feedRows), at |-> now,
                       plan |-> feedPlan,
                       answer |-> {i \in chosen : Feed!Retained(i, feedPlan, now)}]]
    BY <1>4 DEF Feed!Answer
  <2> DEFINE p == [stage |-> "answered", stored |-> Len(feedRows), at |-> now, plan |-> feedPlan,
                   answer |-> {i \in chosen : Feed!Retained(i, feedPlan, now)}]
  <2>2. UNCHANGED <<now, feedPlan, feedRows>>
    BY <1>4 DEF Feed!Answer
  <2>3. Faithful(p)
    BY <1>0, AnswerIsFaithful
  <2>4. p \in PollRecord
    <3>1. p.answer \in SUBSET Nat
      <4>1. chosen \subseteq Feed!OrgRows
        BY DEF Feed!Newest
      <4>2. Feed!OrgRows \subseteq Nat
        BY <1>0 DEF Feed!OrgRows
      <4>3. QED
        BY <4>1, <4>2
    <3>2. now \in Nat /\ feedPlan \in FeedPlans
      BY <1>0 DEF FeedTypes
    <3>3. QED
      BY <1>0, <3>1, <3>2 DEF PollRecord
  <2> HIDE DEF p
  <2>5. polls' = [polls EXCEPT ![n] = p]
    BY <2>1 DEF p
  <2>6. /\ polls' \in Seq(PollRecord) /\ Len(polls') = Len(polls) /\ polls'[n] = p
        /\ \A m \in 1 .. Len(polls) : m # n => polls'[m] = polls[m]
    BY <1>0, <2>4, <2>5
  <2>7. FeedTypes'
    BY <1>0, <2>2, <2>6 DEF FeedTypes
  <2>8. Faithful(polls[n])'
    BY <2>2, <2>3, <2>6 DEF Faithful, Due, Feed!Retained
  <2>9. \A m \in 1 .. Len(polls') :
          \/ Faithful(polls[m])'
          \/ m \in 1 .. Len(polls) /\ SamePoll(polls'[m], polls[m])
    BY <2>6, <2>8 DEF SamePoll
  <2>10. QED
    BY <1>0, <2>2, <2>7, <2>9, FeedInvFrom
<1>5. ASSUME NEW n \in 1 .. Len(polls), Feed!Show(n) \/ Feed!PollFails(n)
      PROVE  FeedInv'
  <2>1. PICK stage \in {"done", "failed"} : polls' = [polls EXCEPT ![n].stage = stage]
    BY <1>5 DEF Feed!Show, Feed!PollFails
  <2>2. UNCHANGED <<now, feedPlan, feedRows>>
    BY <1>5 DEF Feed!Show, Feed!PollFails
  <2>3. /\ [polls[n] EXCEPT !.stage = stage] \in PollRecord
        /\ SamePoll([polls[n] EXCEPT !.stage = stage], polls[n])
    BY <1>0, PollFacts DEF PollRecord, SamePoll
  <2>4. /\ polls' \in Seq(PollRecord) /\ Len(polls') = Len(polls)
        /\ polls'[n] = [polls[n] EXCEPT !.stage = stage]
        /\ \A m \in 1 .. Len(polls) : m # n => polls'[m] = polls[m]
    BY <1>0, <2>1, <2>3
  <2>5. FeedTypes'
    BY <1>0, <2>2, <2>4 DEF FeedTypes
  <2>6. \A m \in 1 .. Len(polls') : m \in 1 .. Len(polls) /\ SamePoll(polls'[m], polls[m])
    BY <2>3, <2>4 DEF SamePoll
  <2>7. QED
    BY <1>0, <2>2, <2>5, <2>6, FeedInvFrom
<1>6. CASE Feed!Tick \/ Feed!ChangePlan \/ UNCHANGED Feed!vars
  BY <1>1, <1>6 DEF Feed!Tick, Feed!ChangePlan, Feed!vars, FeedInv, FeedTypes
<1>7. QED
  BY <1>2, <1>3, <1>4, <1>5, <1>6 DEF Feed!Next

\* An answer holds the newest rows of the organization that its plan retains, and no
\* newer one is missing, whatever arrives in whatever order (GET /v1/events); terminal,
\* dashboard and service name and grade every event alike.
THEOREM FeedIsFaithful ==
  ASSUME Feed!LiveFeedAssumption
  PROVE  Feed!Spec => [](Feed!NothingNewerMissing /\ Feed!SameOnBothSurfaces)
<1>1. Feed!Init => FeedInv
  BY DEF Feed!Init, FeedInv, FeedTypes
<1>2. FeedInv => Feed!NothingNewerMissing
  <2> SUFFICES ASSUME FeedInv, NEW n \in Feed!Answers
               PROVE  /\ polls[n].answer \subseteq Due(polls[n])
                      /\ \A i \in Due(polls[n]) \ polls[n].answer :
                           /\ Cardinality(polls[n].answer) = Limit
                           /\ \A j \in polls[n].answer : feedRows[j].ts >= feedRows[i].ts
    BY SameCardinality DEF Feed!NothingNewerMissing, Due
  <2>1. n \in 1 .. Len(polls) /\ ~Unanswered(polls[n])
    BY DEF Feed!Answers, Unanswered
  <2>2. QED
    BY <2>1 DEF FeedInv, Faithful
<1>3. FeedInv => Feed!SameOnBothSurfaces
  <2> SUFFICES ASSUME FeedInv, NEW n \in Feed!Answers, NEW i \in polls[n].answer
               PROVE  LET type == feedRows[i].type
                      IN  /\ Feed!NodeEvents[type] = Feed!PythonEvents[type]
                          /\ Feed!NodeEvents[type] = Feed!DashboardEvents[type]
                          /\ feedRows[i].severity = Feed!NodeEvents[type].severity
    BY DEF Feed!SameOnBothSurfaces
  <2>1. n \in 1 .. Len(polls) /\ ~Unanswered(polls[n])
    BY DEF Feed!Answers, Unanswered
  <2>2. Faithful(polls[n]) /\ polls[n].stored \in Nat
    BY <2>1, PollFacts DEF FeedInv, FeedTypes
  <2>3. i \in 1 .. Len(feedRows)
    <3>1. i \in 1 .. polls[n].stored /\ polls[n].stored <= Len(feedRows)
      BY <2>2 DEF Faithful, Due
    <3>2. Len(feedRows) \in Nat
      BY DEF FeedInv, FeedTypes
    <3>3. QED
      BY <2>2, <3>1, <3>2
  <2>4. /\ feedRows[i].type \in Feed!Types
        /\ feedRows[i].severity = Feed!SeverityFor(feedRows[i].type)
    BY <2>3, FeedRowFacts DEF FeedInv, FeedTypes, Feed!LiveFeedAssumption
  <2>5. Feed!NodeEvents = Feed!PythonEvents /\ Feed!NodeEvents = Feed!DashboardEvents
    BY DEF Feed!NodeEvents, Feed!PythonEvents, Feed!DashboardEvents
  <2>6. \A type \in Feed!Types : Feed!SeverityFor(type) = Feed!NodeEvents[type].severity
    BY DEF Feed!NodeEvents, Feed!Entry, Feed!SeverityFor, Feed!Types
  <2>7. QED
    BY <2>4, <2>5, <2>6
<1>4. QED
  BY <1>1, <1>2, <1>3, FeedInvStep, PTL DEF Feed!Spec

(***************************************************************************)
(* RateLimiter.  The window of a key covers its requests since the window  *)
(* began, and everything of the key before it lies in windows that began   *)
(* more than a window earlier: an interval as long as a window meets at    *)
(* most two of them.                                                       *)
(***************************************************************************)
Arrival == [key : Keys, at : Nat, passed : BOOLEAN]

Start(k)   == buckets[k].windowStart
Current(k) == {i \in Limiter!Of(k) : arrivals[i].at >= Start(k)}

LimiterTypes ==
  /\ time \in Nat
  /\ buckets \in [Keys -> [count : Nat, windowStart : Nat]]
  /\ arrivals \in Seq(Arrival)
  /\ \A i \in 1 .. Len(arrivals) : arrivals[i].at <= time
  /\ \A k \in Keys : Start(k) <= time

CountsWindow(k) ==
  /\ buckets[k].count = Cardinality(Current(k))
  /\ buckets[k].count = 0 => Limiter!Of(k) = {}
  /\ \A i \in Limiter!Of(k) : arrivals[i].at <= Start(k) + Window

MaxPerWindow(k) ==
  /\ Cardinality(Limiter!Passed(k) \cap Current(k)) <= Max
  /\ Cardinality({i \in Limiter!Passed(k) :
                    arrivals[i].at + Window >= Start(k) /\ arrivals[i].at < Start(k)}) <= Max

TwiceEver(k) ==
  \A t \in Nat : Cardinality(Limiter!Passed(k) \cap Limiter!Within(t, t + Window)) <= 2 * Max

RefusedBusy(k) ==
  \A i \in Limiter!Of(k) \ Limiter!Passed(k) :
    Cardinality({j \in Limiter!Of(k) : j < i /\ arrivals[j].at + Window >= arrivals[i].at}) >= Max

LimiterInv ==
  /\ LimiterTypes
  /\ \A k \in Keys : CountsWindow(k) /\ MaxPerWindow(k) /\ TwiceEver(k) /\ RefusedBusy(k)

LEMMA NumberedSets ==
  ASSUME NEW n \in Nat
  PROVE  /\ \A S : S \subseteq 1 .. n => IsFiniteSet(S) /\ Cardinality(S) \in Nat
         /\ \A S, T : S \subseteq 1 .. n /\ T \subseteq S => Cardinality(T) <= Cardinality(S)
         /\ \A S, T : S \subseteq 1 .. n /\ T \subseteq 1 .. n
                     => Cardinality(S \cup T) <= Cardinality(S) + Cardinality(T)
         /\ \A S, x : S \subseteq 1 .. n /\ x \notin S => Cardinality(S \cup {x}) = Cardinality(S) + 1
<1>1. IsFiniteSet(1 .. n)
  BY FS_Interval
<1>2. \A S : S \subseteq 1 .. n => IsFiniteSet(S) /\ Cardinality(S) \in Nat
  BY <1>1, FS_Subset, FS_CardinalityType
<1>3. \A S, T : S \subseteq 1 .. n /\ T \subseteq S => Cardinality(T) <= Cardinality(S)
  BY <1>2, FS_Subset
<1>4. ASSUME NEW S, NEW T, S \subseteq 1 .. n, T \subseteq 1 .. n
      PROVE  Cardinality(S \cup T) <= Cardinality(S) + Cardinality(T)
  <2>1. /\ IsFiniteSet(S) /\ IsFiniteSet(T)
        /\ Cardinality(S) \in Nat /\ Cardinality(T) \in Nat
        /\ Cardinality(S \cap T) \in Nat /\ Cardinality(S \cup T) \in Nat
    BY <1>2, <1>4
  <2>2. Cardinality(S \cup T) = Cardinality(S) + Cardinality(T) - Cardinality(S \cap T)
    BY <2>1, FS_Union
  <2>3. QED
    BY <2>1, <2>2
<1>5. \A S, x : S \subseteq 1 .. n /\ x \notin S => Cardinality(S \cup {x}) = Cardinality(S) + 1
  BY <1>2, FS_AddElement
<1>6. QED
  BY <1>2, <1>3, <1>4, <1>5

LEMMA ArrivalFacts ==
  ASSUME arrivals \in Seq(Arrival), NEW i \in 1 .. Len(arrivals)
  PROVE  arrivals[i].key \in Keys /\ arrivals[i].at \in Nat /\ arrivals[i].passed \in BOOLEAN
<1>1. arrivals[i] \in Arrival
  OBVIOUS
<1>2. QED
  BY <1>1 DEF Arrival

\* The state after a request of a key, and what the sets of the others are then.
LEMMA RequestEffect ==
  ASSUME LimiterTypes, NEW k \in Keys, Limiter!Request(k)
  PROVE  LET n == Len(arrivals) + 1
             b == Limiter!Counted(buckets[k])
         IN  /\ n \in Nat /\ n \notin 1 .. Len(arrivals) /\ 1 .. n = (1 .. Len(arrivals)) \cup {n}
             /\ time' = time /\ Len(arrivals') = n
             /\ \A i \in 1 .. Len(arrivals) : arrivals'[i] = arrivals[i]
             /\ arrivals'[n] = [key |-> k, at |-> time, passed |-> Limiter!Passes(b)]
             /\ buckets' = [buckets EXCEPT ![k] = b]
             /\ \A q \in Keys \ {k} : /\ Limiter!Of(q)' = Limiter!Of(q)
                                      /\ Limiter!Passed(q)' = Limiter!Passed(q)
                                      /\ buckets'[q] = buckets[q]
             /\ Limiter!Of(k)' = Limiter!Of(k) \cup {n}
             /\ Limiter!Passed(k)' = IF Limiter!Passes(b) THEN Limiter!Passed(k) \cup {n}
                                                       ELSE Limiter!Passed(k)
             /\ buckets'[k] = b
<1> DEFINE n == Len(arrivals) + 1
           b == Limiter!Counted(buckets[k])
           a == [key |-> k, at |-> time, passed |-> Limiter!Passes(b)]
<1>1. /\ time' = time /\ arrivals' = Append(arrivals, a)
      /\ buckets' = [buckets EXCEPT ![k] = b]
  BY DEF Limiter!Request
<1>2. /\ arrivals \in Seq(Arrival) /\ buckets \in [Keys -> [count : Nat, windowStart : Nat]]
  BY DEF LimiterTypes
<1>a. a.key = k /\ a.at = time /\ a.passed = Limiter!Passes(b)
  OBVIOUS
<1> HIDE DEF a
<1>3. /\ n \in Nat /\ n \notin 1 .. Len(arrivals) /\ 1 .. n = (1 .. Len(arrivals)) \cup {n}
      /\ Len(arrivals') = n /\ arrivals'[n] = a
      /\ \A i \in 1 .. Len(arrivals) : arrivals'[i] = arrivals[i]
  BY <1>1, <1>2
<1>4. buckets'[k] = b /\ \A q \in Keys \ {k} : buckets'[q] = buckets[q]
  BY <1>1, <1>2
<1> HIDE DEF n, b
<1>5. /\ \A q \in Keys \ {k} : Limiter!Of(q)' = Limiter!Of(q)
      /\ Limiter!Of(k)' = Limiter!Of(k) \cup {n}
  BY <1>3, <1>a DEF Limiter!Of
<1>6. /\ \A q \in Keys : Limiter!Of(q) \subseteq 1 .. Len(arrivals)
      /\ \A q \in Keys : Limiter!Passed(q) = {i \in Limiter!Of(q) : arrivals[i].passed}
      /\ \A q \in Keys : Limiter!Passed(q)' = {i \in Limiter!Of(q)' : arrivals'[i].passed}
  BY DEF Limiter!Of, Limiter!Passed
<1>7. ASSUME NEW q \in Keys \ {k}
      PROVE  Limiter!Passed(q)' = Limiter!Passed(q)
  <2>1. \A i \in Limiter!Of(q) : arrivals'[i] = arrivals[i]
    BY <1>3, <1>6
  <2>2. Limiter!Passed(q)' = {i \in Limiter!Of(q) : arrivals'[i].passed}
    BY <1>5, <1>6
  <2>3. QED
    BY <1>6, <2>1, <2>2
<1>8. Limiter!Passed(k)' = IF Limiter!Passes(b) THEN Limiter!Passed(k) \cup {n}
                                                ELSE Limiter!Passed(k)
  <2>1. /\ \A i \in Limiter!Of(k) : arrivals'[i].passed = arrivals[i].passed
        /\ arrivals'[n].passed = Limiter!Passes(b)
    BY <1>3, <1>6, <1>a
  <2>2. Limiter!Passed(k)' = {i \in Limiter!Of(k) \cup {n} : arrivals'[i].passed}
    BY <1>5, <1>6
  <2>3. CASE Limiter!Passes(b)
    BY <1>6, <2>1, <2>2, <2>3
  <2>4. CASE ~Limiter!Passes(b)
    BY <1>6, <2>1, <2>2, <2>4
  <2>5. QED
    BY <2>3, <2>4
<1>9. QED
  BY <1>1, <1>3, <1>4, <1>5, <1>7, <1>8 DEF n, b, a

LEMMA RequestOfOthers ==
  ASSUME LimiterTypes, NEW k \in Keys, Limiter!Request(k), NEW q \in Keys \ {k},
         CountsWindow(q), MaxPerWindow(q), TwiceEver(q), RefusedBusy(q)
  PROVE  (CountsWindow(q) /\ MaxPerWindow(q) /\ TwiceEver(q) /\ RefusedBusy(q))'
<1>1. /\ \A i \in 1 .. Len(arrivals) : arrivals'[i] = arrivals[i]
      /\ Limiter!Of(q)' = Limiter!Of(q) /\ Limiter!Passed(q)' = Limiter!Passed(q)
      /\ buckets'[q] = buckets[q] /\ Start(q)' = Start(q)
      /\ 1 .. Len(arrivals) \subseteq 1 .. Len(arrivals')
  BY RequestEffect DEF Start
<1>2. /\ Limiter!Of(q) \subseteq 1 .. Len(arrivals)
      /\ Limiter!Passed(q) \subseteq 1 .. Len(arrivals)
  BY DEF Limiter!Of, Limiter!Passed
<1>3. Current(q)' = Current(q)
  BY <1>1, <1>2 DEF Current
<1>4. CountsWindow(q)'
  BY <1>1, <1>2, <1>3 DEF CountsWindow
<1>5. MaxPerWindow(q)'
  <2>1. {i \in Limiter!Passed(q) : arrivals[i].at + Window >= Start(q) /\ arrivals[i].at < Start(q)}
        = {i \in Limiter!Passed(q)' :
             arrivals'[i].at + Window >= Start(q)' /\ arrivals'[i].at < Start(q)'}
    BY <1>1, <1>2
  <2>2. QED
    BY <1>1, <1>3, <2>1 DEF MaxPerWindow
<1>6. TwiceEver(q)'
  <2>1. ASSUME NEW t \in Nat
        PROVE  Limiter!Passed(q)' \cap Limiter!Within(t, t + Window)'
               = Limiter!Passed(q) \cap Limiter!Within(t, t + Window)
    BY <1>1, <1>2 DEF Limiter!Within
  <2>2. QED
    BY <2>1 DEF TwiceEver
<1>7. RefusedBusy(q)'
  <2> SUFFICES ASSUME NEW i \in Limiter!Of(q) \ Limiter!Passed(q)
               PROVE  Cardinality({j \in Limiter!Of(q) :
                                     j < i /\ arrivals'[j].at + Window >= arrivals'[i].at}) >= Max
    BY <1>1 DEF RefusedBusy
  <2>1. {j \in Limiter!Of(q) : j < i /\ arrivals'[j].at + Window >= arrivals'[i].at}
        = {j \in Limiter!Of(q) : j < i /\ arrivals[j].at + Window >= arrivals[i].at}
    BY <1>1, <1>2
  <2>2. QED
    BY <2>1 DEF RefusedBusy
<1>8. QED
  BY <1>4, <1>5, <1>6, <1>7

\* The window after a request: begun anew or with one more request.
LEMMA RequestWindow ==
  ASSUME Limiter!RateLimiterAssumption, LimiterTypes, NEW k \in Keys, Limiter!Request(k),
         CountsWindow(k)
  PROVE  LET n == Len(arrivals) + 1
             b == Limiter!Counted(buckets[k])
         IN  /\ b \in [count : Nat, windowStart : Nat] /\ b.windowStart <= time /\ b.count # 0
             /\ time <= b.windowStart + Window
             /\ \/ /\ b.count = 1 /\ b.windowStart = time
                   /\ \A i \in Limiter!Of(k) :
                        arrivals[i].at < time /\ (arrivals[i].at + Window >= time => i \in Current(k))
                \/ b.count = buckets[k].count + 1 /\ b.windowStart = Start(k)
<1> DEFINE b == Limiter!Counted(buckets[k])
           b0 == buckets[k]
<1>1. /\ b0 \in [count : Nat, windowStart : Nat] /\ b0.windowStart <= time /\ time \in Nat
      /\ Window \in Nat /\ b0.windowStart = Start(k)
  BY DEF LimiterTypes, Start, Limiter!RateLimiterAssumption
<1>2. \A i \in Limiter!Of(k) : arrivals[i].at \in Nat /\ arrivals[i].at <= b0.windowStart + Window
  BY <1>1, ArrivalFacts DEF LimiterTypes, Limiter!Of, CountsWindow
<1>3. CASE b0.count = 0 \/ time - b0.windowStart > Window
  <2>1. b = [count |-> 1, windowStart |-> time]
    BY <1>3 DEF Limiter!Counted
  <2>2. ASSUME NEW i \in Limiter!Of(k)
        PROVE  arrivals[i].at < time /\ (arrivals[i].at + Window >= time => i \in Current(k))
    <3>1. b0.count # 0
      BY DEF CountsWindow
    <3>2. time > b0.windowStart + Window
      BY <1>1, <1>3, <3>1
    <3>3. QED
      BY <1>1, <1>2, <3>2 DEF Current
  <2>3. QED
    BY <1>1, <2>1, <2>2
<1>4. CASE ~(b0.count = 0 \/ time - b0.windowStart > Window)
  <2>1. b = [b0 EXCEPT !.count = @ + 1]
    BY <1>4 DEF Limiter!Counted
  <2>2. b.count = b0.count + 1 /\ b.windowStart = b0.windowStart
    BY <1>1, <2>1
  <2>3. b \in [count : Nat, windowStart : Nat]
    BY <1>1, <2>1
  <2>4. time <= b0.windowStart + Window
    BY <1>1, <1>4
  <2>5. QED
    BY <1>1, <2>2, <2>3, <2>4
<1>5. QED
  BY <1>3, <1>4

LEMMA RequestTypes ==
  ASSUME Limiter!RateLimiterAssumption, LimiterTypes, NEW k \in Keys, Limiter!Request(k),
         CountsWindow(k)
  PROVE  LimiterTypes'
<1> DEFINE n == Len(arrivals) + 1
           b == Limiter!Counted(buckets[k])
           a == [key |-> k, at |-> time, passed |-> Limiter!Passes(b)]
<1>1. /\ time' = time /\ arrivals' = Append(arrivals, a) /\ buckets' = [buckets EXCEPT ![k] = b]
  BY DEF Limiter!Request
<1>2. b \in [count : Nat, windowStart : Nat] /\ b.windowStart <= time
  BY RequestWindow
<1>3. a \in Arrival /\ a.at = time
  BY DEF LimiterTypes, Arrival, Limiter!Passes
<1> HIDE DEF a, b
<1>4. arrivals' \in Seq(Arrival)
  <2>1. arrivals \in Seq(Arrival)
    BY DEF LimiterTypes
  <2>2. QED
    BY <1>1, <1>3, <2>1
<1>5. buckets' \in [Keys -> [count : Nat, windowStart : Nat]]
  BY <1>1, <1>2 DEF LimiterTypes
<1>6. \A i \in 1 .. Len(arrivals') : arrivals'[i].at <= time
  BY <1>1, <1>3 DEF LimiterTypes
<1>7. \A q \in Keys : Start(q)' <= time
  BY <1>1, <1>2 DEF LimiterTypes, Start
<1>8. QED
  BY <1>1, <1>4, <1>5, <1>6, <1>7 DEF LimiterTypes

LEMMA RequestOfKey ==
  ASSUME Limiter!RateLimiterAssumption, LimiterTypes, NEW k \in Keys, Limiter!Request(k),
         CountsWindow(k), MaxPerWindow(k), TwiceEver(k), RefusedBusy(k)
  PROVE  (CountsWindow(k) /\ MaxPerWindow(k) /\ TwiceEver(k) /\ RefusedBusy(k))'
<1> DEFINE n == Len(arrivals) + 1
           b == Limiter!Counted(buckets[k])
           passes == Limiter!Passes(b)
<1>1. /\ n \in Nat /\ n \notin 1 .. Len(arrivals) /\ 1 .. n = (1 .. Len(arrivals)) \cup {n}
      /\ time' = time /\ Len(arrivals') = n
      /\ \A i \in 1 .. Len(arrivals) : arrivals'[i] = arrivals[i]
      /\ arrivals'[n].at = time
      /\ Limiter!Of(k)' = Limiter!Of(k) \cup {n}
      /\ passes => Limiter!Passed(k)' = Limiter!Passed(k) \cup {n}
      /\ ~passes => Limiter!Passed(k)' = Limiter!Passed(k)
      /\ buckets'[k] = b
  <2>1. arrivals'[n] = [key |-> k, at |-> time, passed |-> passes]
    BY RequestEffect
  <2>2. arrivals'[n].at = time
    BY <2>1
  <2>3. QED
    BY <2>2, RequestEffect
<1>2. /\ b \in [count : Nat, windowStart : Nat] /\ b.windowStart <= time /\ b.count # 0
      /\ time <= b.windowStart + Window
      /\ \/ /\ b.count = 1 /\ b.windowStart = time
            /\ \A i \in Limiter!Of(k) :
                 arrivals[i].at < time /\ (arrivals[i].at + Window >= time => i \in Current(k))
         \/ b.count = buckets[k].count + 1 /\ b.windowStart = Start(k)
  BY RequestWindow
<1>3. Start(k)' = b.windowStart
  BY <1>1 DEF Start
<1>4. /\ time \in Nat /\ Window \in Nat /\ Max \in Nat \ {0} /\ (passes <=> b.count <= Max)
      /\ buckets[k].count \in Nat /\ Start(k) \in Nat
  BY DEF LimiterTypes, Limiter!RateLimiterAssumption, Limiter!Passes, Start
<1> HIDE DEF n, b, passes
<1>5. /\ Limiter!Of(k) \subseteq 1 .. Len(arrivals) /\ Limiter!Passed(k) \subseteq Limiter!Of(k)
      /\ Limiter!Of(k)' \subseteq 1 .. n /\ Limiter!Passed(k)' \subseteq Limiter!Of(k)'
      /\ Current(k) \subseteq Limiter!Of(k) /\ Current(k)' \subseteq Limiter!Of(k)'
  BY <1>1 DEF Limiter!Of, Limiter!Passed, Current
<1>6. \A i \in Limiter!Of(k) : /\ arrivals[i].at \in Nat /\ arrivals'[i] = arrivals[i]
                               /\ i # n /\ i \in Nat /\ i < n
                               /\ arrivals[i].at <= Start(k) + Window /\ arrivals[i].at <= time
  <2>1. arrivals \in Seq(Arrival) /\ Len(arrivals) \in Nat
    BY DEF LimiterTypes
  <2>2. \A i \in 1 .. Len(arrivals) : i \in Nat /\ i < n
    BY <1>1, <2>1 DEF n
  <2>3. QED
    BY <1>1, <1>5, <2>1, <2>2, ArrivalFacts DEF LimiterTypes, CountsWindow
<1>7. CountsWindow(k)' /\ MaxPerWindow(k)'
  <2> DEFINE recent == {i \in Limiter!Passed(k)' :
                          arrivals'[i].at + Window >= Start(k)' /\ arrivals'[i].at < Start(k)'}
  <2>1. CASE /\ b.count = 1 /\ b.windowStart = time
             /\ \A i \in Limiter!Of(k) :
                  arrivals[i].at < time /\ (arrivals[i].at + Window >= time => i \in Current(k))
    <3>1. Current(k)' = {n}
      BY <1>1, <1>3, <1>4, <1>6, <2>1 DEF Current
    <3>2. Cardinality({n}) = 1
      BY FS_Singleton
    <3>3. CountsWindow(k)'
      BY <1>1, <1>2, <1>3, <1>4, <1>6, <2>1, <3>1, <3>2 DEF CountsWindow
    <3>4. Cardinality(Limiter!Passed(k)' \cap Current(k)') <= Max
      <4>1. /\ Limiter!Passed(k)' \cap Current(k)' \subseteq {n} /\ {n} \subseteq 1 .. n
            /\ Limiter!Passed(k)' \cap Current(k)' \subseteq 1 .. n
        BY <1>1, <3>1
      <4>2. /\ Cardinality(Limiter!Passed(k)' \cap Current(k)') <= 1
            /\ Cardinality(Limiter!Passed(k)' \cap Current(k)') \in Nat
        BY <1>1, <3>2, <4>1, NumberedSets
      <4>3. QED
        BY <1>4, <4>2
    <3>5. Cardinality(recent) <= Max
      <4>1. recent \subseteq Limiter!Passed(k) \cap Current(k)
        BY <1>1, <1>3, <1>4, <1>5, <1>6, <2>1
      <4>2. Limiter!Passed(k) \cap Current(k) \subseteq 1 .. n
        BY <1>1, <1>5
      <4>3. /\ Cardinality(recent) <= Cardinality(Limiter!Passed(k) \cap Current(k))
            /\ Cardinality(Limiter!Passed(k) \cap Current(k)) \in Nat
            /\ Cardinality(recent) \in Nat
        BY <1>1, <4>1, <4>2, NumberedSets
      <4>4. QED
        BY <1>4, <4>3 DEF MaxPerWindow
    <3>6. QED
      BY <3>3, <3>4, <3>5 DEF MaxPerWindow
  <2>2. CASE b.count = buckets[k].count + 1 /\ b.windowStart = Start(k)
    <3>1. Current(k)' = Current(k) \cup {n}
      BY <1>1, <1>2, <1>3, <1>5, <1>6, <2>2 DEF Current
    <3>2. /\ Cardinality(Current(k)') = Cardinality(Current(k)) + 1
          /\ Cardinality(Current(k)') = b.count
      <4>1. Current(k) \subseteq 1 .. n /\ n \notin Current(k)
        BY <1>1, <1>5
      <4>2. QED
        BY <1>1, <2>2, <3>1, <4>1, NumberedSets DEF CountsWindow
    <3>3. CountsWindow(k)'
      BY <1>1, <1>2, <1>3, <1>6, <2>2, <3>2 DEF CountsWindow
    <3>4. Cardinality(Limiter!Passed(k)' \cap Current(k)') <= Max
      <4>1. CASE passes
        <5>1. /\ Current(k)' \subseteq 1 .. n
              /\ Limiter!Passed(k)' \cap Current(k)' \subseteq Current(k)'
              /\ Limiter!Passed(k)' \cap Current(k)' \subseteq 1 .. n
          BY <1>5
        <5>2. /\ Cardinality(Limiter!Passed(k)' \cap Current(k)') <= Cardinality(Current(k)')
              /\ Cardinality(Limiter!Passed(k)' \cap Current(k)') \in Nat
          BY <1>1, <5>1, NumberedSets
        <5>3. QED
          BY <1>2, <1>4, <3>2, <4>1, <5>2
      <4>2. CASE ~passes
        <5>1. Limiter!Passed(k)' \cap Current(k)' = Limiter!Passed(k) \cap Current(k)
          BY <1>1, <1>5, <3>1, <4>2
        <5>2. QED
          BY <5>1 DEF MaxPerWindow
      <4>3. QED
        BY <4>1, <4>2
    <3>5. Cardinality(recent) <= Max
      <4>1. recent = {i \in Limiter!Passed(k) :
                        arrivals[i].at + Window >= Start(k) /\ arrivals[i].at < Start(k)}
        <5>1. Start(k)' = Start(k) /\ ~(time < Start(k))
          BY <1>2, <1>3, <1>4, <2>2
        <5>2. \A i \in recent : i # n
          BY <1>1, <5>1
        <5>3. QED
          BY <1>1, <1>5, <1>6, <5>1, <5>2
      <4>2. QED
        BY <4>1 DEF MaxPerWindow
    <3>6. QED
      BY <3>3, <3>4, <3>5 DEF MaxPerWindow
  <2>3. QED
    BY <1>2, <2>1, <2>2
<1>8. TwiceEver(k)'
  <2> SUFFICES ASSUME NEW t \in Nat
               PROVE  Cardinality(Limiter!Passed(k)' \cap Limiter!Within(t, t + Window)') <= 2 * Max
    BY DEF TwiceEver
  <2> DEFINE met == Limiter!Passed(k)' \cap Limiter!Within(t, t + Window)'
             recent == {i \in Limiter!Passed(k)' :
                          arrivals'[i].at + Window >= Start(k)' /\ arrivals'[i].at < Start(k)'}
             current == Limiter!Passed(k)' \cap Current(k)'
  <2>1. CASE n \notin met
    <3>1. met = Limiter!Passed(k) \cap Limiter!Within(t, t + Window)
      BY <1>1, <1>5, <1>6, <2>1 DEF Limiter!Within
    <3>2. QED
      BY <3>1 DEF TwiceEver
  <2>2. CASE n \in met
    <3>1. time >= t /\ time <= t + Window
      BY <1>1, <1>4, <2>2 DEF Limiter!Within
    <3>2. b.windowStart \in Nat /\ b.windowStart <= time
      BY <1>2
    <3>3. ASSUME NEW i \in met
          PROVE  i \in recent \cup current
      <4>1. arrivals'[i].at \in Nat /\ arrivals'[i].at >= t
        BY <1>1, <1>4, <1>5, <1>6 DEF Limiter!Within
      <4>2. arrivals'[i].at + Window >= b.windowStart
        BY <1>4, <3>1, <3>2, <4>1
      <4>3. QED
        BY <1>3, <1>5, <3>2, <4>1, <4>2 DEF Current
    <3>4. recent \subseteq 1 .. n /\ current \subseteq 1 .. n /\ met \subseteq recent \cup current
      BY <1>5, <3>3
    <3>5. Cardinality(recent) <= Max /\ Cardinality(current) <= Max
      BY <1>7 DEF MaxPerWindow
    <3> HIDE DEF met, recent, current
    <3>6. /\ Cardinality(recent) \in Nat /\ Cardinality(current) \in Nat
          /\ Cardinality(met) \in Nat /\ Cardinality(recent \cup current) \in Nat
          /\ Cardinality(met) <= Cardinality(recent \cup current)
          /\ Cardinality(recent \cup current) <= Cardinality(recent) + Cardinality(current)
      BY <1>1, <3>4, NumberedSets
    <3>7. Cardinality(met) <= 2 * Max
      BY <1>4, <3>5, <3>6
    <3>8. QED
      BY <3>7 DEF met
  <2>3. QED
    BY <2>1, <2>2
<1>9. RefusedBusy(k)'
  <2> SUFFICES ASSUME NEW i \in Limiter!Of(k)' \ Limiter!Passed(k)'
               PROVE  Cardinality({j \in Limiter!Of(k)' :
                                     j < i /\ arrivals'[j].at + Window >= arrivals'[i].at}) >= Max
    BY DEF RefusedBusy
  <2> DEFINE earlier == {j \in Limiter!Of(k)' : j < i /\ arrivals'[j].at + Window >= arrivals'[i].at}
  <2>1. CASE i # n
    <3>1. i \in Limiter!Of(k) \ Limiter!Passed(k)
      BY <1>1, <2>1
    <3>2. earlier = {j \in Limiter!Of(k) : j < i /\ arrivals[j].at + Window >= arrivals[i].at}
      BY <1>1, <1>6, <3>1
    <3>3. QED
      BY <3>1, <3>2 DEF RefusedBusy
  <2>2. CASE i = n
    <3>1. ~passes
      <4>1. n \notin Limiter!Passed(k)'
        BY <2>2
      <4>2. QED
        BY <1>1, <4>1
    <3>2. b.count = buckets[k].count + 1 /\ b.windowStart = Start(k)
      BY <1>2, <1>4, <3>1
    <3>3. Cardinality(Current(k)) >= Max
      BY <1>2, <1>4, <3>1, <3>2 DEF CountsWindow
    <3>4. Current(k) \subseteq earlier
      BY <1>1, <1>2, <1>4, <1>5, <1>6, <2>2, <3>2 DEF Current
    <3>5. earlier \subseteq 1 .. n /\ Current(k) \subseteq 1 .. n
      BY <1>1, <1>5
    <3> HIDE DEF earlier
    <3>6. /\ Cardinality(Current(k)) <= Cardinality(earlier)
          /\ Cardinality(Current(k)) \in Nat /\ Cardinality(earlier) \in Nat
      BY <1>1, <3>4, <3>5, NumberedSets
    <3>7. Cardinality(earlier) >= Max
      BY <1>4, <3>3, <3>6
    <3>8. QED
      BY <3>7 DEF earlier
  <2>3. QED
    BY <2>1, <2>2
<1>10. QED
  BY <1>7, <1>8, <1>9

Started ==
  time \in Nat /\ arrivals = << >> /\ buckets = [k \in Keys |-> Limiter!NoBucket]

LEMMA NoRequests ==
  ASSUME Limiter!RateLimiterAssumption
  PROVE  Started => LimiterInv
<1> SUFFICES ASSUME Started
             PROVE  LimiterInv
  OBVIOUS
<1> USE DEF Started
<1>1. \A k \in Keys : /\ Limiter!Of(k) = {} /\ Limiter!Passed(k) = {} /\ Current(k) = {}
                      /\ buckets[k].count = 0 /\ Start(k) = 0
  BY DEF Limiter!Of, Limiter!Passed, Current, Start, Limiter!NoBucket
<1>2. Max \in Nat /\ Cardinality({}) = 0
  BY FS_EmptySet DEF Limiter!RateLimiterAssumption
<1>3. LimiterTypes
  BY <1>1 DEF LimiterTypes, Limiter!NoBucket
<1>4. ASSUME NEW k \in Keys
      PROVE  CountsWindow(k) /\ MaxPerWindow(k) /\ TwiceEver(k) /\ RefusedBusy(k)
  <2>1. Limiter!Passed(k) \cap Current(k) = {}
    BY <1>1
  <2>2. {i \in Limiter!Passed(k) :
           arrivals[i].at + Window >= Start(k) /\ arrivals[i].at < Start(k)} = {}
    BY <1>1
  <2>3. \A t : Limiter!Passed(k) \cap Limiter!Within(t, t + Window) = {}
    BY <1>1
  <2>4. 0 <= Max /\ 0 <= 2 * Max
    BY <1>2
  <2>5. QED
    BY <1>1, <1>2, <2>1, <2>2, <2>3, <2>4 DEF CountsWindow, MaxPerWindow, TwiceEver, RefusedBusy
<1>5. QED
  BY <1>3, <1>4 DEF LimiterInv

LEMMA NothingRequested ==
  ASSUME UNCHANGED <<buckets, arrivals>>, NEW k \in Keys,
         CountsWindow(k), MaxPerWindow(k), TwiceEver(k), RefusedBusy(k)
  PROVE  (CountsWindow(k) /\ MaxPerWindow(k) /\ TwiceEver(k) /\ RefusedBusy(k))'
<1>1. /\ Limiter!Of(k)' = Limiter!Of(k) /\ Limiter!Passed(k)' = Limiter!Passed(k)
      /\ Start(k)' = Start(k)
      /\ \A t : Limiter!Within(t, t + Window)' = Limiter!Within(t, t + Window)
  BY DEF Limiter!Of, Limiter!Passed, Start, Limiter!Within
<1>2. Current(k)' = Current(k)
  BY <1>1 DEF Current
<1>3. CountsWindow(k)'
  BY <1>1, <1>2 DEF CountsWindow
<1>4. MaxPerWindow(k)'
  BY <1>1, <1>2 DEF MaxPerWindow
<1>5. TwiceEver(k)'
  BY <1>1 DEF TwiceEver
<1>6. RefusedBusy(k)'
  BY <1>1 DEF RefusedBusy
<1>7. QED
  BY <1>3, <1>4, <1>5, <1>6

LEMMA LimiterInvStep ==
  ASSUME Limiter!RateLimiterAssumption
  PROVE  LimiterInv /\ [Limiter!Next]_(Limiter!vars) => LimiterInv'
<1>0. Started => LimiterInv
  BY NoRequests
<1> SUFFICES ASSUME LimiterInv, [Limiter!Next]_(Limiter!vars)
             PROVE  LimiterInv'
  OBVIOUS
<1>1. CASE Limiter!Tick
  <2>1. /\ time \in Nat /\ time' = time + 1 /\ UNCHANGED <<buckets, arrivals>>
    BY <1>1 DEF Limiter!Tick, LimiterInv, LimiterTypes
  <2>2. arrivals \in Seq(Arrival) /\ buckets \in [Keys -> [count : Nat, windowStart : Nat]]
    BY DEF LimiterInv, LimiterTypes
  <2>3. \A i \in 1 .. Len(arrivals) : arrivals[i].at \in Nat /\ arrivals[i].at <= time
    BY <2>2, ArrivalFacts DEF LimiterInv, LimiterTypes
  <2>4. \A k \in Keys : Start(k)' = Start(k) /\ Start(k) \in Nat /\ Start(k) <= time
    BY <2>1, <2>2 DEF Start, LimiterInv, LimiterTypes
  <2>5. LimiterTypes'
    BY <2>1, <2>2, <2>3, <2>4 DEF LimiterTypes
  <2>6. \A k \in Keys : (CountsWindow(k) /\ MaxPerWindow(k) /\ TwiceEver(k) /\ RefusedBusy(k))'
    BY <2>1, NothingRequested DEF LimiterInv
  <2>7. QED
    BY <2>5, <2>6 DEF LimiterInv
<1>2. ASSUME NEW k \in Keys, Limiter!Request(k)
      PROVE  LimiterInv'
  <2>1. LimiterTypes'
    BY <1>2, RequestTypes DEF LimiterInv
  <2>2. (CountsWindow(k) /\ MaxPerWindow(k) /\ TwiceEver(k) /\ RefusedBusy(k))'
    BY <1>2, RequestOfKey DEF LimiterInv
  <2>3. \A q \in Keys \ {k} :
          (CountsWindow(q) /\ MaxPerWindow(q) /\ TwiceEver(q) /\ RefusedBusy(q))'
    BY <1>2, RequestOfOthers DEF LimiterInv
  <2>4. QED
    BY <2>1, <2>2, <2>3 DEF LimiterInv
<1>3. CASE Limiter!Restart
  <2>1. Started'
    BY <1>3 DEF Limiter!Restart, Started, LimiterInv, LimiterTypes
  <2>2. QED
    BY <1>0, <2>1, PTL
<1>4. CASE UNCHANGED Limiter!vars
  BY <1>4, NothingRequested DEF Limiter!vars, LimiterInv, LimiterTypes, Start
<1>5. QED
  BY <1>1, <1>2, <1>3, <1>4 DEF Limiter!Next

\* Around a window boundary up to twice the limit passes and never more, and a key is
\* refused only after as many requests of its own in the window before (checkRateLimit),
\* for any limit, window, number of keys, timing of requests and restarts.
THEOREM LimiterKeepsBounds ==
  ASSUME Limiter!RateLimiterAssumption
  PROVE  Limiter!Spec => [](Limiter!TwiceAtMost /\ Limiter!RefusedOnlyBusy)
<1>1. Limiter!Init => LimiterInv
  BY NoRequests DEF Limiter!Init, Started
<1>2. LimiterInv => Limiter!TwiceAtMost /\ Limiter!RefusedOnlyBusy
  <2> SUFFICES ASSUME LimiterInv
               PROVE  Limiter!TwiceAtMost /\ Limiter!RefusedOnlyBusy
    OBVIOUS
  <2>1. 0 .. LastTime \subseteq Nat
    BY DEF Limiter!RateLimiterAssumption
  <2>2. Limiter!TwiceAtMost
    BY <2>1, SameCardinality DEF LimiterInv, TwiceEver, Limiter!TwiceAtMost
  <2>3. Limiter!RefusedOnlyBusy
    BY SameCardinality DEF LimiterInv, RefusedBusy, Limiter!RefusedOnlyBusy
  <2>4. QED
    BY <2>2, <2>3
<1>3. QED
  BY <1>1, <1>2, LimiterInvStep, PTL DEF Limiter!Spec

-----------------------------------------------------------------------------
\* The same of the whole, in which the parts stand side by side.  Row and plan agree with
\* each other, and with Stripe but for subscriptions whose events overtook each other, up
\* to what Stripe is still to send.
THEOREM ServicesMirror ==
  Spec => []Mirrors
<1>1. Billing!Spec => [](Billing!TypeOK /\ Billing!PlanMatchesRow /\ Billing!MirrorsStripe)
  BY ServicesAssumption, RowsMirrorStripe DEF ServicesAssumption
<1>2. QED
  BY <1>1, PartsAlone, PTL DEF Mirrors

\* What verifies was stored, if no hash was computed anew or up to a hash known from
\* before; and what was stored verifies.
THEOREM ServicesVerifiedIsStored ==
  Spec => []VerifiedIsStored
<1>1. Audit!Spec => [](/\ Audit!TypeOK /\ Audit!UnalteredVerifies
                       /\ Audit!VerifiedIsStored /\ Audit!KeptHashIsStored
                       /\ Audit!NoCascade)
  BY ServicesAssumption, ExportTellsTheTruth DEF ServicesAssumption
<1>2. QED
  BY <1>1, PartsAlone, PTL DEF VerifiedIsStored

\* One alteration is one break.
THEOREM ServicesNoCascade ==
  Spec => []NoCascade
<1>1. Audit!Spec => [](/\ Audit!TypeOK /\ Audit!UnalteredVerifies
                       /\ Audit!VerifiedIsStored /\ Audit!KeptHashIsStored
                       /\ Audit!NoCascade)
  BY ServicesAssumption, ExportTellsTheTruth DEF ServicesAssumption
<1>2. QED
  BY <1>1, PartsAlone, PTL DEF NoCascade

\* An answer of the feed holds the newest rows, named and graded as everywhere else.
THEOREM ServicesFeedFaithful ==
  Spec => []FeedFaithful
<1>1. Feed!Spec => [](Feed!NothingNewerMissing /\ Feed!SameOnBothSurfaces)
  BY ServicesAssumption, FeedIsFaithful DEF ServicesAssumption
<1>2. QED
  BY <1>1, PartsAlone, PTL DEF FeedFaithful

\* Neither too much passes the limiter nor is a quiet key refused.
THEOREM ServicesLimiterBounds ==
  Spec => []LimiterBounds
<1>1. Limiter!Spec => [](Limiter!TwiceAtMost /\ Limiter!RefusedOnlyBusy)
  BY ServicesAssumption, LimiterKeepsBounds DEF ServicesAssumption
<1>2. QED
  BY <1>1, PartsAlone, PTL DEF LimiterBounds

=============================================================================
