------------------------------ MODULE Accounts ------------------------------
(***************************************************************************)
(* Organizations, users, sessions, roles, SSO configuration and SCIM       *)
(* provisioning in App API (services/app-api: app.ts, db.ts, rbac.ts,      *)
(* org-crypto.ts).                                                         *)
(*                                                                         *)
(* The handlers run to their end without interleaving: they await nothing  *)
(* but each other.  Every statement commits by itself, though, so that a   *)
(* service killed in a handler leaves a prefix of what it writes, and an   *)
(* answer may not arrive.  There is one organization per email domain,     *)
(* named by it.                                                            *)
(***************************************************************************)
EXTENDS Integers, Sequences, SequencesExt

CONSTANTS
  Orgs,            \* email domains
  Emails,
  DomainOf,        \* the domain of an email
  SessionIds,      \* sessions that may be valid together (a bound)
  PatchRoles,      \* roles that are assigned
  EnterpriseOrgs,  \* organizations that may be on the Enterprise plan
  None

ASSUME AccountsAssumption ==
  /\ DomainOf \in [Emails -> Orgs]
  /\ PatchRoles \subseteq {"owner", "admin", "member", "viewer"}
  /\ EnterpriseOrgs \subseteq Orgs
  /\ None \notin Orgs \cup Emails

VARIABLES
  rows,        \* what exists of an organization: its row, workspace, signing key
  enterprise,  \* organizations on the Enterprise plan (see Billing)
  users,       \* table users, by email
  sessions,    \* valid rows of table sessions
  sso,         \* table sso_configs; token n is the n-th one generated
  shown,       \* history: the SCIM tokens that reached an admin
  deactivating \* the user whom PATCH has deactivated, not yet revoked the sessions of

vars == <<rows, enterprise, users, sessions, sso, shown, deactivating>>

Roles == {"owner", "admin", "member", "viewer"}

\* hasAtLeastRole
Rank == [owner |-> 3, admin |-> 2, member |-> 1, viewer |-> 0]

NoUser    == [org |-> None, role |-> "viewer", active |-> FALSE]
NoSession == [user |-> None, disowned |-> "no"]
NoSso     == [domain |-> None, enabled |-> FALSE, token |-> 0]

Known(e)    == users[e] # NoUser
Members(o)  == {e \in Emails : users[e].org = o}

(***************************************************************************)
(* Sessions                                                                *)
(***************************************************************************)
\* currentUser: the session is valid and its user active.
Authenticated(id) ==
  sessions[id] # NoSession /\ users[sessions[id].user].active

Caller(id) == users[sessions[id].user]

IsAdmin(id) == Authenticated(id) /\ Rank[Caller(id).role] >= Rank["admin"]

\* Faulty: deactivation is left to the flag of the user.
SessionsKept(table, e) == table

\* revokeAllSessionsForUser
AllRevoked(table, e) ==
  [id \in SessionIds |-> IF table[id].user = e THEN NoSession ELSE table[id]]

(***************************************************************************)
(* dev-login                                                               *)
(***************************************************************************)
\* Faulty: the signing key is created together with the organization only.
InsertsWithOrg(o) ==
  IF "org" \in rows[o] THEN << >> ELSE <<"org", "workspace", "key">>

\* findOrCreateOrgByDomain and ensureOrgSigningKey, statement by statement.
Inserts(o) ==
  (IF "org" \in rows[o] THEN << >> ELSE <<"org", "workspace">>)
    \o (IF "key" \in rows[o] THEN << >> ELSE <<"key">>)

\* Faulty: who creates the organization owns it, not its first user.
RoleOfNewCreator(o) == IF "org" \in rows[o] THEN "member" ELSE "owner"

\* countUsersInOrg, asked after the organization was found or created.
RoleOfNew(o) == IF Members(o) = {} THEN "owner" ELSE "member"

\* findOrCreateUser: a user that exists keeps its organization.
UserFound(e) ==
  IF Known(e) THEN users[e]
  ELSE [org |-> DomainOf[e], role |-> RoleOfNew(DomainOf[e]), active |-> TRUE]

DevLogin(e, id) ==
  /\ sessions[id] = NoSession
  /\ rows' = [rows EXCEPT ![DomainOf[e]] = @ \cup ToSet(Inserts(DomainOf[e]))]
  /\ users' = [users EXCEPT ![e] = UserFound(e)]
  /\ sessions' = [sessions EXCEPT ![id] = [NoSession EXCEPT !.user = e]]
  /\ UNCHANGED <<enterprise, sso, shown>>

\* Killed before the user is created ...
LoginKilledEarly(e) ==
  LET o == DomainOf[e] IN
  /\ \E n \in DOMAIN Inserts(o) :
       rows' = [rows EXCEPT ![o] = @ \cup ToSet(SubSeq(Inserts(o), 1, n))]
  /\ UNCHANGED <<enterprise, users, sessions, sso, shown>>

\* ... or the session.
LoginKilledLate(e) ==
  /\ ~Known(e)
  /\ rows' = [rows EXCEPT ![DomainOf[e]] = @ \cup ToSet(Inserts(DomainOf[e]))]
  /\ users' = [users EXCEPT ![e] = UserFound(e)]
  /\ UNCHANGED <<enterprise, sessions, sso, shown>>

Logout(id) ==
  /\ Authenticated(id)
  /\ sessions' = [sessions EXCEPT ![id] = NoSession]
  /\ UNCHANGED <<rows, enterprise, users, sso, shown>>

Expire(id) ==
  /\ sessions[id] # NoSession
  /\ sessions' = [sessions EXCEPT ![id] = NoSession]
  /\ UNCHANGED <<rows, enterprise, users, sso, shown>>

(***************************************************************************)
(* Members                                                                 *)
(***************************************************************************)
PatchRole(id, e, role) ==
  /\ IsAdmin(id)
  /\ Known(e)
  /\ users[e].org = Caller(id).org
  /\ users' = [users EXCEPT ![e].role = role]
  /\ UNCHANGED <<rows, enterprise, sessions, sso, shown>>

(***************************************************************************)
(* SSO and SCIM                                                            *)
(***************************************************************************)
\* Faulty: every change of the settings generates a new token.
TokenStoredAgain(o) == sso[o].token + 1

\* A token is generated when there is none.
TokenStored(o) == IF sso[o].token = 0 THEN 1 ELSE sso[o].token

\* PUT /v1/enterprise/sso; a new token is in the answer, which may be lost.
PutSso(id, domain, enabled) ==
  LET o     == Caller(id).org
      token == TokenStored(o)
  IN
  /\ IsAdmin(id)
  /\ enterprise[o]
  /\ sso' = [sso EXCEPT ![o] = [domain |-> domain, enabled |-> enabled, token |-> token]]
  /\ \/ shown' = [shown EXCEPT ![o] = IF token = sso[o].token THEN @ ELSE @ \cup {token}]
     \/ shown' = shown
  /\ UNCHANGED <<rows, enterprise, users, sessions>>

\* authenticateScim, for a directory that an admin gave the token.  The plan is
\* not asked for.
ScimAuthenticated(o) == sso[o].enabled /\ sso[o].token \in shown[o]

\* The domain has to be the configured one; the user joins the organization of
\* the token, whichever that is.
ScimCreate(o, e) ==
  /\ ScimAuthenticated(o)
  /\ DomainOf[e] = sso[o].domain
  /\ ~Known(e)
  /\ users' = [users EXCEPT ![e] = [org |-> o, role |-> "member", active |-> TRUE]]
  /\ UNCHANGED <<rows, enterprise, sessions, sso, shown>>

\* history: the sessions of a user take another mark.  A session there is when a
\* deactivation begins is "begun", and "cut" when the service is killed in it;
\* the mark goes when the user is reactivated after that.
Marked(e, from, to) ==
  [id \in SessionIds |->
     IF sessions[id].user = e /\ sessions[id].disowned \in from
     THEN [sessions[id] EXCEPT !.disowned = to] ELSE sessions[id]]

ScimActivate(o, e) ==
  /\ ScimAuthenticated(o)
  /\ users[e].org = o
  /\ users' = [users EXCEPT ![e].active = TRUE]
  /\ sessions' = Marked(e, {"cut"}, "no")
  /\ UNCHANGED <<rows, enterprise, sso, shown>>

\* setUserActive; no other handler runs before the sessions are revoked.
ScimDeactivate(o, e) ==
  /\ ScimAuthenticated(o)
  /\ users[e].org = o
  /\ users' = [users EXCEPT ![e].active = FALSE]
  /\ sessions' = Marked(e, {"no", "cut"}, "begun")
  /\ deactivating' = e
  /\ UNCHANGED <<rows, enterprise, sso, shown>>

\* revokeAllSessionsForUser, and the answer.
RevokeSessions ==
  /\ deactivating # None
  /\ sessions' = AllRevoked(sessions, deactivating)
  /\ deactivating' = None
  /\ UNCHANGED <<rows, enterprise, users, sso, shown>>

\* Killed between the two: there is no answer.
RevokeKilled ==
  /\ deactivating # None
  /\ sessions' = Marked(deactivating, {"begun"}, "cut")
  /\ deactivating' = None
  /\ UNCHANGED <<rows, enterprise, users, sso, shown>>

\* The organization buys or loses the Enterprise plan.
ChangePlan(o) ==
  /\ "org" \in rows[o]
  /\ enterprise' = [enterprise EXCEPT ![o] = ~@]
  /\ UNCHANGED <<rows, users, sessions, sso, shown>>

Init ==
  /\ rows = [o \in Orgs |-> {}]
  /\ enterprise = [o \in Orgs |-> FALSE]
  /\ users = [e \in Emails |-> NoUser]
  /\ sessions = [id \in SessionIds |-> NoSession]
  /\ sso = [o \in Orgs |-> NoSso]
  /\ shown = [o \in Orgs |-> {}]
  /\ deactivating = None

SessionStep(id) ==
  \/ \E e \in Emails : DevLogin(e, id)
  \/ Logout(id)
  \/ Expire(id)
  \/ \E e \in Emails, role \in PatchRoles : PatchRole(id, e, role)
  \/ \E domain \in Orgs, enabled \in BOOLEAN : PutSso(id, domain, enabled)

ScimStep(o) ==
  \E e \in Emails : ScimCreate(o, e) \/ ScimActivate(o, e)

\* A handler that runs to its end, or to where the service is killed.
Handled ==
  \/ \E id \in SessionIds : SessionStep(id)
  \/ \E o \in Orgs : ScimStep(o)
  \/ \E e \in Emails : LoginKilledEarly(e) \/ LoginKilledLate(e)
  \/ \E o \in EnterpriseOrgs : ChangePlan(o)

Next ==
  \/ deactivating = None /\ Handled /\ UNCHANGED deactivating
  \/ deactivating = None /\ \E o \in Orgs, e \in Emails : ScimDeactivate(o, e)
  \/ RevokeSessions
  \/ RevokeKilled

Spec == Init /\ [][Next]_vars

(***************************************************************************)
(* Properties                                                              *)
(***************************************************************************)
\* Shape of the tables; sessions belong to users, users to organizations.
TypeOK ==
  /\ rows \in [Orgs -> SUBSET {"org", "workspace", "key"}]
  /\ enterprise \in [Orgs -> BOOLEAN]
  /\ users \in [Emails -> [org : Orgs \cup {None}, role : Roles, active : BOOLEAN]]
  /\ sessions \in [SessionIds -> [user : Emails \cup {None}, disowned : {"no", "begun", "cut"}]]
  /\ sso \in [Orgs -> [domain : Orgs \cup {None}, enabled : BOOLEAN, token : Nat]]
  /\ shown \in [Orgs -> SUBSET Nat]
  /\ deactivating \in Emails \cup {None}
  /\ \A id \in SessionIds : sessions[id].user # None => Known(sessions[id].user)
  /\ \A e \in Emails : Known(e) => "org" \in rows[users[e].org]

\* app.ts:317: an admin who publishes a policy always finds the signing key of
\* the organization, wherever the logins that set it up were killed.
MembersHaveSigningKey ==
  \A e \in Emails : Known(e) => "key" \in rows[users[e].org]

\* The two together: an organization with users is complete.
Founded == TypeOK /\ MembersHaveSigningKey

\* db.ts:202-204: the first user an organization ever has is its owner, whoever
\* created the organization and however that ended.
FirstUserOwns ==
  [][\A o \in Orgs :
       Members(o) = {} => \A e \in Members(o)' : users'[e].role = "owner"]_vars

\* app.ts:126-129, 437-439, USERFEATURES.md:77: a session that there was when a
\* deactivation began does not work any more.  Once the deactivation is answered
\* it never works again, not even after the user is reactivated; after a service
\* killed between the two updates it works no sooner than that.
DeactivatedLockedOut ==
  \A id \in SessionIds : sessions[id].disowned # "no" => ~Authenticated(id)

\* app.ts:437-439: a session that there was when a deactivation began never works
\* again, wherever the service was killed in it.
CutDeactivationRevokes ==
  [][\A id \in SessionIds :
       sessions[id].disowned = "cut" => ~Authenticated(id)']_vars

\* app.ts:358-360: a SCIM token an admin was shown stays the token of the
\* organization, through later changes of the settings.
ShownTokenWorks == \A o \in Orgs : shown[o] \subseteq {sso[o].token}

\* db.ts:214-216: an organization that has users has a workspace.
OrgHasWorkspace ==
  \A e \in Emails : Known(e) => "workspace" \in rows[users[e].org]

\* app.ts:358-360: every token that is stored was shown.
TokenShown == \A o \in Orgs : sso[o].token # 0 => shown[o] # {}

\* app.ts:353: users are provisioned only for organizations on the Enterprise
\* plan.
ScimNeedsEnterprise ==
  [][\A o \in Orgs : ScimStep(o) => enterprise[o]]_vars

=============================================================================
