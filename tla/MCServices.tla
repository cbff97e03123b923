----------------------------- MODULE MCServices -----------------------------
(***************************************************************************)
(* Four parts of the services for TLC, side by side: they keep different   *)
(* tables, and no action of one touches those of another.  A behaviour     *)
(* picks one of them and leaves the others where they start, so that one   *)
(* run explores each of them by itself.  Without symmetry: the run checks  *)
(* a liveness property.                                                    *)
(***************************************************************************)
EXTENDS Naturals, Sequences, TLC

CONSTANTS
  Orgs, Subs, MaxChanges,                                   \* Billing
  Tenants, Machines, Events, AuditRows, MaxAlterations,     \* AuditExport
  Workspaces, OrgOf, Org, FeedPlans, RetentionOf, Reported, \* LiveFeed
  Limit, FeedRows, MaxTime, MaxPolls,
  Keys, Window, Max, LastTime, MaxArrivals,                 \* RateLimiter
  w1, w2, w3, o1, o2, None

TwoOrgs == w1 :> o1 @@ w2 :> o1 @@ w3 :> o2
ShortAndNone == "free" :> 1 @@ "enterprise" :> None

VARIABLES
  part,
  stripe, events, subscriptions, plan, outOfOrder,
  rows, stored, done,
  now, feedPlan, feedRows, polls, shown,
  time, buckets, arrivals

billingVars == <<stripe, events, subscriptions, plan, outOfOrder>>
auditVars   == <<rows, stored, done>>
feedVars    == <<now, feedPlan, feedRows, polls, shown>>
limiterVars == <<time, buckets, arrivals>>
vars == <<part, billingVars, auditVars, feedVars, limiterVars>>

Billing == INSTANCE Billing

Audit == INSTANCE AuditExport WITH Workspaces <- Tenants, MaxRows <- AuditRows

Feed == INSTANCE LiveFeed WITH
  Plans <- FeedPlans, MaxRows <- FeedRows, plan <- feedPlan, rows <- feedRows

Limiter == INSTANCE RateLimiter WITH MaxTime <- LastTime, now <- time

ASSUME ServicesAssumption ==
  /\ Billing!BillingAssumption
  /\ Audit!AuditAssumption
  /\ Feed!LiveFeedAssumption
  /\ Limiter!RateLimiterAssumption

\* The part that is picked starts in any of its initial states, the others in one.
Init ==
  /\ part \in {"billing", "audit", "feed", "limiter"}
  /\ Billing!Init
  /\ Audit!Init
  /\ Feed!Init /\ (part # "feed" => feedPlan = CHOOSE p \in FeedPlans : TRUE)
  /\ Limiter!Init

\* What stays as it is while one part moves.
OnlyBilling == part = "billing" /\ UNCHANGED <<part, auditVars, feedVars, limiterVars>>
OnlyAudit   == part = "audit" /\ UNCHANGED <<part, billingVars, feedVars, limiterVars>>
OnlyFeed    == part = "feed" /\ UNCHANGED <<part, billingVars, auditVars, limiterVars>>
OnlyLimiter == part = "limiter" /\ UNCHANGED <<part, billingVars, auditVars, feedVars>>

Next ==
  \/ OnlyBilling /\ Billing!Next
  \/ OnlyAudit /\ Audit!Next
  \/ OnlyFeed /\ Feed!Next
  \/ OnlyLimiter /\ Limiter!Next

\* Stripe keeps sending what is not answered.
Spec ==
  /\ Init /\ [][Next]_vars
  /\ \A s \in Subs : WF_vars(OnlyBilling /\ Billing!Handled(s))

-----------------------------------------------------------------------------
\* Billing: row and plan agree with each other and with Stripe, but for what Stripe
\* is still to send and for subscriptions whose events overtook each other.
Mirrors == Billing!TypeOK /\ Billing!PlanMatchesRow /\ Billing!MirrorsStripe

\* Billing: they agree in the end.
EventuallyMirrored == Billing!EventuallyMirrored

\* AuditExport: what was stored verifies, and what verifies was stored, unless hashes
\* were computed anew; up to a hash that is known from before, even then.
VerifiedIsStored ==
  /\ Audit!TypeOK /\ Audit!UnalteredVerifies
  /\ Audit!VerifiedIsStored /\ Audit!KeptHashIsStored

\* AuditExport: one alteration is one break.
NoCascade == Audit!NoCascade

\* LiveFeed: an answer holds the newest rows of the organization, under the same
\* codes and severities as in the terminal.
FeedFaithful == Feed!NothingNewerMissing /\ Feed!SameOnBothSurfaces

\* RateLimiter: neither too much passes nor is a quiet key refused.
LimiterBounds == Limiter!TwiceAtMost /\ Limiter!RefusedOnlyBusy

=============================================================================
