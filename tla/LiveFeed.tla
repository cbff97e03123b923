------------------------------ MODULE LiveFeed ------------------------------
(***************************************************************************)
(* The live feed of the dashboard: rows the ingest service stores, GET     *)
(* /v1/events of App API (services/app-api/src/app.ts and db.ts), and the  *)
(* page that polls it                                                      *)
(* (apps/dashboard/src/app/(dashboard)/live-feed/page.tsx) and shows the   *)
(* last answer it got.  A poll does not wait for the one before it.        *)
(*                                                                         *)
(* A row carries the time the machine stamped it with; rows arrive in any  *)
(* order of those.  The handler runs in one piece, so that an answer shows *)
(* one moment of the tables.                                               *)
(***************************************************************************)
EXTENDS EventTaxonomy, Naturals, Sequences, FiniteSets

CONSTANTS
  Workspaces,
  OrgOf,          \* the organization of a workspace
  Org,            \* that of the user who looks at the page
  Plans,
  RetentionOf,    \* RETENTION_DAYS_BY_PLAN; None: no limit
  Reported,       \* the types of events reported
  Limit,          \* of the page's requests
  MaxRows, MaxTime, MaxPolls,   \* bounds
  None

LiveFeedAssumption ==
  /\ Reported \subseteq Types
  /\ DOMAIN OrgOf = Workspaces
  /\ RetentionOf \in [Plans -> Nat \cup {None}]
  /\ Limit \in Nat \ {0}
  /\ {MaxRows, MaxTime, MaxPolls} \subseteq Nat
  /\ None \notin Nat

VARIABLES
  now,
  plan,     \* of the organization
  rows,     \* table events, in the order stored
  polls,    \* requests of the page, in the order sent
  shown     \* number of the poll the page shows the answer of; 0: loading

vars == <<now, plan, rows, polls, shown>>

\* A poll: its answer and, as history, the moment the answer was taken at.
NewPoll == [stage |-> "sent", answer |-> {}, stored |-> 0, at |-> 0, plan |-> None]

Init ==
  /\ now = 0
  /\ plan \in Plans
  /\ rows = <<>>
  /\ polls = <<>>
  /\ shown = 0

Tick ==
  /\ now < MaxTime
  /\ now' = now + 1
  /\ UNCHANGED <<plan, rows, polls, shown>>

ChangePlan ==
  /\ plan' \in Plans \ {plan}
  /\ UNCHANGED <<now, rows, polls, shown>>

Store ==
  /\ Len(rows) < MaxRows
  /\ \E w \in Workspaces, ts \in 0..now, type \in Reported :
       rows' = Append(rows, [workspace |-> w, ts |-> ts, type |-> type,
                             severity |-> SeverityFor(type)])
  /\ UNCHANGED <<now, plan, polls, shown>>

(***************************************************************************)
(* App API                                                                 *)
(***************************************************************************)
\* listWorkspacesForOrg
OrgRows == {i \in 1..Len(rows) : OrgOf[rows[i].workspace] = Org}

\* Faulty: the rows stored first, without an order.
FirstStored(from) ==
  {chosen \in SUBSET from :
     /\ Cardinality(chosen) = IF Cardinality(from) < Limit THEN Cardinality(from) ELSE Limit
     /\ \A i \in chosen, j \in from \ chosen : i < j}

\* ORDER BY ts DESC LIMIT ?: rows of the same time come in any order.  The column is text;
\* the CLIs write ISO 8601 in UTC, whose order as text is that of time but for the digits
\* below a millisecond, which only the Python port writes: a time is a number here.
Newest(from) ==
  {chosen \in SUBSET from :
     /\ Cardinality(chosen) = IF Cardinality(from) < Limit THEN Cardinality(from) ELSE Limit
     /\ \A i \in chosen, j \in from \ chosen : rows[i].ts >= rows[j].ts}

Retained(i, p, t) == RetentionOf[p] = None \/ rows[i].ts + RetentionOf[p] >= t

\* GET /v1/events: the limit first, the retention of the plan afterwards.
Answer(n) ==
  /\ polls[n].stage = "sent"
  /\ \E chosen \in Newest(OrgRows) :
       polls' = [polls EXCEPT ![n] =
                   [stage |-> "answered", stored |-> Len(rows), at |-> now, plan |-> plan,
                    answer |-> {i \in chosen : Retained(i, plan, now)}]]
  /\ UNCHANGED <<now, plan, rows, shown>>

(***************************************************************************)
(* The page                                                                *)
(***************************************************************************)
Poll ==
  /\ Len(polls) < MaxPolls
  /\ polls' = Append(polls, NewPoll)
  /\ UNCHANGED <<now, plan, rows, shown>>

\* setEvents with the answer that arrives, whichever poll it is of.
Show(n) ==
  /\ polls[n].stage = "answered"
  /\ shown' = n
  /\ polls' = [polls EXCEPT ![n].stage = "done"]
  /\ UNCHANGED <<now, plan, rows>>

\* The request or its answer is lost: the page keeps what it shows.
PollFails(n) ==
  /\ polls[n].stage \in {"sent", "answered"}
  /\ polls' = [polls EXCEPT ![n].stage = "failed"]
  /\ UNCHANGED <<now, plan, rows, shown>>

Next ==
  \/ Tick
  \/ ChangePlan
  \/ Store
  \/ Poll
  \/ \E n \in 1..Len(polls) : Answer(n) \/ Show(n) \/ PollFails(n)

Spec == Init /\ [][Next]_vars

-----------------------------------------------------------------------------
(***************************************************************************)
(* Properties                                                              *)
(***************************************************************************)

Answers == {n \in 1..Len(polls) : polls[n].at # 0 \/ polls[n].plan # None}

\* The limit is applied before the retention (app.ts:259-268), and still no row the
\* plan retains is missing unless the answer is full of rows at least as new; rows of
\* other organizations neither show nor crowd out.
NothingNewerMissing ==
  \A n \in Answers :
    LET p == polls[n]
        due == {i \in 1..p.stored :
                  OrgOf[rows[i].workspace] = Org /\ Retained(i, p.plan, p.at)}
    IN  /\ p.answer \subseteq due
        /\ \A i \in due \ p.answer :
             /\ Cardinality(p.answer) = Limit
             /\ \A j \in p.answer : rows[j].ts >= rows[i].ts

\* "the severity a developer sees in the terminal matches what an admin sees in the
\* dashboard for the exact same event type" (ingest app.ts:59-61), and the set of codes
\* and severities "must never drift between the three copies" (event-taxonomy.ts:9-11).
SameOnBothSurfaces ==
  \A n \in Answers : \A i \in polls[n].answer :
    LET type == rows[i].type
    IN  /\ NodeEvents[type] = PythonEvents[type]
        /\ NodeEvents[type] = DashboardEvents[type]
        /\ rows[i].severity = NodeEvents[type].severity

\* "Every blocked tool across every machine in your workspace, as it happens"
\* (page.tsx:40): the page does not go back to an answer taken before the one it shows.
NeverGoesBack ==
  [][shown > 0 /\ shown' # shown => polls[shown'].stored >= polls[shown].stored]_vars

=============================================================================
