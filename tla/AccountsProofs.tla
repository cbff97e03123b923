--------------------------- MODULE AccountsProofs ---------------------------
(***************************************************************************)
(* Theorems about Accounts, for any number of organizations, users and     *)
(* sessions.                                                               *)
(***************************************************************************)
EXTENDS Accounts, TLAPS

RowNames == {"org", "workspace", "key"}
UserType == [org : Orgs \cup {None}, role : Roles, active : BOOLEAN]
SessType == [user : Emails \cup {None}, disowned : {"no", "begun", "cut"}]
SsoType  == [domain : Orgs \cup {None}, enabled : BOOLEAN, token : Nat]

(***************************************************************************)
(* The inductive invariant.                                                *)
(***************************************************************************)
\* Whoever is known belongs to an organization that is complete but for its
\* workspace.
UsersFounded ==
  \A e \in Emails : Known(e) => /\ users[e].org \in Orgs
                                /\ {"org", "key"} \subseteq rows[users[e].org]

\* A valid session is that of a known user.
SessionsOwned ==
  \A id \in SessionIds : sessions[id].user # None => Known(sessions[id].user)

SlotsFree ==
  \A id \in SessionIds : sessions[id].user = None => sessions[id] = NoSession

\* The user of a session that a deactivation left marked is inactive, and while
\* the mark says that the service is at it, it is.
DisownedInactive ==
  \A id \in SessionIds : sessions[id].disowned # "no" =>
    /\ sessions[id].user # None
    /\ ~users[sessions[id].user].active
    /\ sessions[id].disowned = "begun" => deactivating = sessions[id].user

\* What an admin was shown is the token of the organization, and where there is
\* one there is an admin.
TokensShown ==
  \A o \in Orgs : /\ shown[o] \subseteq {sso[o].token} \ {0}
                  /\ shown[o] # {} => Members(o) # {}

AccountsInv == TypeOK /\ UsersFounded /\ SessionsOwned /\ SlotsFree /\ TokensShown

(***************************************************************************)
(* Lemmas                                                                  *)
(***************************************************************************)
LEMMA NoneIsNoRow ==
  /\ NoUser \in UserType /\ NoUser.org = None /\ None \notin Orgs
  /\ NoSession \in SessType /\ NoSession.user = None /\ NoSession.disowned = "no"
BY AccountsAssumption DEF NoUser, UserType, NoSession, SessType, Roles

\* The two parts of what a login inserts.
OrgRows(o) == IF "org" \in rows[o] THEN << >> ELSE <<"org", "workspace">>
KeyRow(o)  == IF "key" \in rows[o] THEN << >> ELSE <<"key">>

LEMMA SetWithin ==
  ASSUME NEW S, NEW s \in Seq(S), NEW X, \A i \in 1 .. Len(s) : s[i] \in X
  PROVE  ToSet(s) \subseteq X
<1>1. DOMAIN s = 1 .. Len(s)
  OBVIOUS
<1>2. QED
  BY ONLY <1>1, \A i \in 1 .. Len(s) : s[i] \in X DEF ToSet

LEMMA ConcatSet ==
  ASSUME NEW S, NEW s \in Seq(S), NEW t \in Seq(S)
  PROVE  s \o t \in Seq(S) /\ ToSet(s \o t) = ToSet(s) \cup ToSet(t)
<1>1. /\ s \o t \in Seq(S) /\ Len(s \o t) = Len(s) + Len(t)
      /\ Len(s) \in Nat /\ Len(t) \in Nat
      /\ \A i \in 1 .. Len(s) : (s \o t)[i] = s[i]
      /\ \A i \in 1 .. Len(t) : (s \o t)[Len(s) + i] = t[i]
  OBVIOUS
<1>d. DOMAIN s = 1 .. Len(s) /\ DOMAIN t = 1 .. Len(t) /\ DOMAIN (s \o t) = 1 .. Len(s \o t)
  BY <1>1
<1>2. PICK u : u = s \o t
  OBVIOUS
<1>3. u \in Seq(S) /\ Len(u) = Len(s) + Len(t) /\ DOMAIN u = 1 .. Len(u)
  BY ONLY <1>1, <1>d, <1>2
<1>4. \A i \in 1 .. Len(s) : i \in 1 .. Len(u) /\ u[i] = s[i]
  BY ONLY <1>1, <1>2, <1>3
<1>5. \A i \in 1 .. Len(t) : Len(s) + i \in 1 .. Len(u) /\ u[Len(s) + i] = t[i]
  BY ONLY <1>1, <1>2, <1>3
<1>6. ASSUME NEW i \in 1 .. Len(u)
      PROVE  u[i] \in ToSet(s) \cup ToSet(t)
  <2>1. CASE i \in 1 .. Len(s)
    BY ONLY <1>4, <1>d, <2>1 DEF ToSet
  <2>2. CASE i \notin 1 .. Len(s)
    <3>1. i - Len(s) \in 1 .. Len(t) /\ i = Len(s) + (i - Len(s))
      BY ONLY <1>1, <1>3, <2>2, i \in 1 .. Len(u)
    <3>2. u[i] = t[i - Len(s)]
      BY ONLY <1>5, <3>1
    <3>3. QED
      BY ONLY <1>d, <3>1, <3>2 DEF ToSet
  <2>3. QED
    BY <2>1, <2>2
<1>7. ToSet(u) \subseteq ToSet(s) \cup ToSet(t)
  BY <1>3, <1>6, SetWithin
<1>8. \A i \in 1 .. Len(s) : s[i] \in ToSet(u)
  BY ONLY <1>3, <1>4 DEF ToSet
<1>9. \A i \in 1 .. Len(t) : t[i] \in ToSet(u)
  BY ONLY <1>3, <1>5 DEF ToSet
<1>10. ToSet(s) \subseteq ToSet(u) /\ ToSet(t) \subseteq ToSet(u)
  BY <1>8, <1>9, SetWithin
<1>11. QED
  BY <1>2, <1>3, <1>7, <1>10

LEMMA InsertParts ==
  ASSUME NEW o \in Orgs
  PROVE  /\ OrgRows(o) \in Seq(RowNames)
         /\ KeyRow(o) \in Seq(RowNames)
         /\ Inserts(o) = OrgRows(o) \o KeyRow(o)
         /\ "org" \in rows[o] \cup ToSet(OrgRows(o))
         /\ "key" \in rows[o] \cup ToSet(KeyRow(o))
<1>1. << >> \in Seq(RowNames)
  OBVIOUS
<1>2. <<"key">> \in Seq(RowNames) /\ "key" \in ToSet(<<"key">>)
  BY DEF RowNames, ToSet
<1>3. <<"org", "workspace">> \in Seq(RowNames) /\ "org" \in ToSet(<<"org", "workspace">>)
  BY DEF RowNames, ToSet
<1>4. OrgRows(o) \in Seq(RowNames) /\ "org" \in rows[o] \cup ToSet(OrgRows(o))
  BY <1>1, <1>3 DEF OrgRows
<1>5. KeyRow(o) \in Seq(RowNames) /\ "key" \in rows[o] \cup ToSet(KeyRow(o))
  BY <1>1, <1>2 DEF KeyRow
<1>6. QED
  BY <1>4, <1>5 DEF Inserts, OrgRows, KeyRow

\* What a login inserts completes the organization.
LEMMA InsertsComplete ==
  ASSUME NEW o \in Orgs
  PROVE  /\ Inserts(o) \in Seq(RowNames)
         /\ ToSet(Inserts(o)) \subseteq RowNames
         /\ {"org", "key"} \subseteq rows[o] \cup ToSet(Inserts(o))
<1>1. OrgRows(o) \in Seq(RowNames) /\ KeyRow(o) \in Seq(RowNames)
  BY InsertParts
<1>2. /\ OrgRows(o) \o KeyRow(o) \in Seq(RowNames)
      /\ ToSet(OrgRows(o) \o KeyRow(o)) = ToSet(OrgRows(o)) \cup ToSet(KeyRow(o))
  BY <1>1, ConcatSet
<1>3. /\ Inserts(o) \in Seq(RowNames)
      /\ ToSet(Inserts(o)) = ToSet(OrgRows(o)) \cup ToSet(KeyRow(o))
  BY <1>2, InsertParts
<1>4. ToSet(Inserts(o)) \subseteq RowNames
  BY <1>3 DEF ToSet
<1>5. {"org", "key"} \subseteq rows[o] \cup ToSet(Inserts(o))
  BY <1>3, InsertParts
<1>6. QED
  BY <1>3, <1>4, <1>5

\* A prefix of the inserts inserts nothing else.
LEMMA PrefixInserts ==
  ASSUME NEW o \in Orgs, NEW n \in DOMAIN Inserts(o)
  PROVE  ToSet(SubSeq(Inserts(o), 1, n)) \subseteq RowNames
<1>1. Inserts(o) \in Seq(RowNames) /\ n \in 1 .. Len(Inserts(o))
  BY InsertsComplete
<1>2. SubSeq(Inserts(o), 1, n) \in Seq(RowNames)
  BY <1>1
<1>3. QED
  BY <1>2 DEF ToSet

\* Steps after which every organization has at least the rows it had, and every
\* user the organization it had.
LEMMA MembersStay ==
  ASSUME NEW o \in Orgs,
         \A e \in Emails : users[e].org = o => users'[e].org = o
  PROVE  Members(o) # {} => Members(o)' # {}
BY DEF Members

\* The user a login finds or creates, and the rows it leaves behind.
LEMMA UserFoundIsMember ==
  ASSUME AccountsInv, NEW e \in Emails
  PROVE  /\ UserFound(e) \in UserType
         /\ UserFound(e).org \in Orgs
         /\ Known(e) => UserFound(e) = users[e]
         /\ ~Known(e) => UserFound(e).org = DomainOf[e]
<1>1. users[e] \in UserType /\ (Known(e) => users[e].org \in Orgs)
  BY DEF AccountsInv, TypeOK, UsersFounded, UserType
<1>2. CASE Known(e)
  BY <1>1, <1>2 DEF UserFound
<1>3. CASE ~Known(e)
  <2>1. DomainOf[e] \in Orgs /\ RoleOfNew(DomainOf[e]) \in Roles
    BY AccountsAssumption DEF RoleOfNew, Roles
  <2>2. QED
    BY <1>3, <2>1 DEF UserFound, UserType
<1>4. QED
  BY <1>2, <1>3

\* A step in which organizations get rows, one user may be found or created by a
\* login and nothing else happens to users.
LEMMA LoginKeeps ==
  ASSUME AccountsInv, NEW e \in Emails,
         rows' = [rows EXCEPT ![DomainOf[e]] = @ \cup ToSet(Inserts(DomainOf[e]))],
         users' = [users EXCEPT ![e] = UserFound(e)],
         UNCHANGED <<enterprise, sso, shown>>
  PROVE  /\ rows' \in [Orgs -> SUBSET RowNames]
         /\ users' \in [Emails -> UserType]
         /\ UsersFounded'
         /\ \A f \in Emails : Known(f) => Known(f)'
         /\ Known(e)'
         /\ TokensShown'
<1> DEFINE o == DomainOf[e]
<1>1. o \in Orgs
  BY AccountsAssumption
<1>2. /\ rows \in [Orgs -> SUBSET RowNames] /\ users \in [Emails -> UserType]
      /\ UsersFounded /\ TokensShown
  BY DEF AccountsInv, TypeOK, RowNames, UserType
<1>3. ToSet(Inserts(o)) \subseteq RowNames /\ {"org", "key"} \subseteq rows[o] \cup ToSet(Inserts(o))
  BY <1>1, InsertsComplete
<1> HIDE DEF o
<1>4. rows' = [rows EXCEPT ![o] = rows[o] \cup ToSet(Inserts(o))]
  BY DEF o
<1>5. /\ rows' \in [Orgs -> SUBSET RowNames]
      /\ \A p \in Orgs : rows[p] \subseteq rows'[p]
      /\ {"org", "key"} \subseteq rows'[o]
  BY <1>1, <1>2, <1>3, <1>4
<1>6. /\ users' \in [Emails -> UserType]
      /\ users'[e] = UserFound(e) /\ \A f \in Emails \ {e} : users'[f] = users[f]
  BY <1>2, UserFoundIsMember
<1>7. Known(e)' /\ users'[e].org \in Orgs
  BY <1>6, UserFoundIsMember, NoneIsNoRow DEF Known
<1>8. {"org", "key"} \subseteq rows'[users'[e].org]
  <2>1. CASE Known(e)
    BY <1>2, <1>5, <1>6, <2>1, UserFoundIsMember DEF UsersFounded
  <2>2. CASE ~Known(e)
    BY <1>5, <1>6, <2>2, UserFoundIsMember DEF o
  <2>3. QED
    BY <2>1, <2>2
<1>9. UsersFounded'
  <2> SUFFICES ASSUME NEW f \in Emails, Known(f)'
               PROVE  users'[f].org \in Orgs /\ {"org", "key"} \subseteq rows'[users'[f].org]
    BY DEF UsersFounded
  <2>1. CASE f = e
    BY <1>7, <1>8, <2>1
  <2>2. CASE f # e
    <3>1. Known(f) /\ users'[f] = users[f]
      BY <1>6, <2>2 DEF Known
    <3>2. users[f].org \in Orgs /\ {"org", "key"} \subseteq rows[users[f].org]
      BY <1>2, <3>1 DEF UsersFounded
    <3>3. QED
      BY <1>5, <3>1, <3>2
  <2>3. QED
    BY <2>1, <2>2
<1>10. \A f \in Emails : Known(f) => Known(f)'
  BY <1>6, <1>7 DEF Known
<1>11. TokensShown'
  <2>1. ASSUME NEW p \in Orgs, NEW f \in Emails, users[f].org = p
        PROVE  users'[f].org = p
    <3>1. Known(f)
      BY <2>1, NoneIsNoRow DEF Known
    <3>2. QED
      BY <1>6, <2>1, <3>1, UserFoundIsMember
  <2>2. QED
    BY <1>2, <2>1, MembersStay DEF TokensShown
<1>12. QED
  BY <1>5, <1>6, <1>7, <1>9, <1>10, <1>11

LEMMA DevLoginKeepsInv ==
  ASSUME AccountsInv, NEW e \in Emails, NEW id \in SessionIds, DevLogin(e, id),
         UNCHANGED deactivating
  PROVE  AccountsInv'
<1>1. /\ rows' \in [Orgs -> SUBSET RowNames]
      /\ users' \in [Emails -> UserType]
      /\ UsersFounded'
      /\ \A f \in Emails : Known(f) => Known(f)'
      /\ Known(e)'
      /\ TokensShown'
  BY LoginKeeps DEF DevLogin
<1>2. [NoSession EXCEPT !.user = e] \in SessType
      /\ [NoSession EXCEPT !.user = e].user = e
  BY DEF NoSession, SessType
<1>3. sessions \in [SessionIds -> SessType] /\ SessionsOwned
  BY DEF AccountsInv, TypeOK, SessType
<1>4. /\ sessions' \in [SessionIds -> SessType]
      /\ sessions'[id].user = e
      /\ \A i \in SessionIds \ {id} : sessions'[i] = sessions[i]
  BY <1>2, <1>3 DEF DevLogin
<1>5. SessionsOwned'
  <2> SUFFICES ASSUME NEW i \in SessionIds
               PROVE  sessions'[i].user # None => users'[sessions'[i].user] # NoUser
    BY DEF SessionsOwned, Known
  <2>1. CASE i = id
    BY <1>1, <1>4, <2>1 DEF Known
  <2>2. CASE i # id
    <3>1. sessions'[i] = sessions[i] /\ sessions[i].user \in Emails \cup {None}
      BY <1>3, <1>4, <2>2 DEF SessType
    <3>2. sessions[i].user # None => Known(sessions[i].user)
      BY <1>3 DEF SessionsOwned, Known
    <3>3. sessions[i].user # None => users'[sessions[i].user] # NoUser
      BY <1>1, <3>1, <3>2 DEF Known
    <3>4. QED
      BY <3>1, <3>2, <3>3
  <2>3. QED
    BY <2>1, <2>2
<1>6. SlotsFree'
  BY <1>4, AccountsAssumption DEF AccountsInv, SlotsFree
<1>7. TypeOK'
  <2>1. UNCHANGED <<enterprise, sso, shown>>
    BY DEF DevLogin
  <2>2. QED
    BY <1>1, <1>4, <1>5, <2>1
    DEF AccountsInv, TypeOK, RowNames, UserType, SessType, UsersFounded, SessionsOwned
<1>8. QED
  BY <1>1, <1>5, <1>6, <1>7 DEF AccountsInv

LEMMA LoginKilledKeepsInv ==
  ASSUME AccountsInv, NEW e \in Emails, LoginKilledEarly(e) \/ LoginKilledLate(e),
         UNCHANGED deactivating
  PROVE  AccountsInv'
<1>1. CASE LoginKilledEarly(e)
  <2>1. DomainOf[e] \in Orgs
    BY AccountsAssumption
  <2>2. PICK n \in DOMAIN Inserts(DomainOf[e]) :
          rows' = [rows EXCEPT ![DomainOf[e]] = @ \cup ToSet(SubSeq(Inserts(DomainOf[e]), 1, n))]
    BY <1>1 DEF LoginKilledEarly
  <2>3. ToSet(SubSeq(Inserts(DomainOf[e]), 1, n)) \subseteq RowNames
    BY <2>1, PrefixInserts
  <2>4. rows \in [Orgs -> SUBSET RowNames]
    BY DEF AccountsInv, TypeOK, RowNames
  <2>5. /\ rows' \in [Orgs -> SUBSET RowNames]
        /\ \A p \in Orgs : rows[p] \subseteq rows'[p]
    BY <2>1, <2>2, <2>3, <2>4
  <2>6. UNCHANGED <<enterprise, users, sessions, sso, shown>>
    BY <1>1 DEF LoginKilledEarly
  <2>7. UsersFounded'
    BY <2>5, <2>6 DEF AccountsInv, UsersFounded, Known
  <2>8. SessionsOwned' /\ SlotsFree' /\ TokensShown'
    BY <2>6 DEF AccountsInv, SessionsOwned, SlotsFree, TokensShown, Known, Members
  <2>9. TypeOK'
    BY <2>5, <2>6, <2>7 DEF AccountsInv, TypeOK, RowNames, Known, UsersFounded
  <2>10. QED
    BY <2>7, <2>8, <2>9 DEF AccountsInv
<1>2. CASE LoginKilledLate(e)
  <2>1. /\ rows' \in [Orgs -> SUBSET RowNames]
        /\ users' \in [Emails -> UserType]
        /\ UsersFounded'
        /\ \A f \in Emails : Known(f) => Known(f)'
        /\ TokensShown'
    BY <1>2, LoginKeeps DEF LoginKilledLate
  <2>2. UNCHANGED <<enterprise, sessions, sso, shown>>
    BY <1>2 DEF LoginKilledLate
  <2>3. sessions \in [SessionIds -> SessType] /\ SessionsOwned
    BY DEF AccountsInv, TypeOK, SessType
  <2>4. SessionsOwned'
    BY <2>1, <2>2, <2>3 DEF SessionsOwned, SessType
  <2>5. TypeOK'
    BY <2>1, <2>2, <2>4
    DEF AccountsInv, TypeOK, RowNames, UserType, UsersFounded, SessionsOwned
  <2>6. SlotsFree'
    BY <2>2 DEF AccountsInv, SlotsFree
  <2>7. QED
    BY <2>1, <2>4, <2>5, <2>6 DEF AccountsInv
<1>3. QED
  BY <1>1, <1>2

\* A step that changes one user, within an organization that is complete.
LEMMA UserChangeKeeps ==
  ASSUME AccountsInv, NEW e \in Emails, NEW u \in UserType,
         users' = [users EXCEPT ![e] = u],
         u.org \in Orgs, Known(e) => u.org = users[e].org,
         {"org", "key"} \subseteq rows[u.org],
         UNCHANGED <<rows, sso, shown>>
  PROVE  /\ users' \in [Emails -> UserType]
         /\ UsersFounded'
         /\ \A f \in Emails : Known(f) => Known(f)'
         /\ TokensShown'
<1>1. users \in [Emails -> UserType] /\ UsersFounded /\ TokensShown
  BY DEF AccountsInv, TypeOK, UserType
<1>2. /\ users' \in [Emails -> UserType]
      /\ users'[e] = u /\ \A f \in Emails \ {e} : users'[f] = users[f]
  BY <1>1
<1>3. UsersFounded'
  BY <1>1, <1>2 DEF UsersFounded, Known
<1>4. \A f \in Emails : Known(f) => Known(f)'
  <2> SUFFICES ASSUME NEW f \in Emails, Known(f)
               PROVE  Known(f)'
    OBVIOUS
  <2>1. CASE f = e
    BY <1>2, <2>1, NoneIsNoRow DEF Known
  <2>2. CASE f # e
    BY <1>2, <2>2 DEF Known
  <2>3. QED
    BY <2>1, <2>2
<1>5. TokensShown'
  <2>1. ASSUME NEW p \in Orgs, NEW f \in Emails, users[f].org = p
        PROVE  users'[f].org = p
    <3>1. Known(f)
      BY <2>1, NoneIsNoRow DEF Known
    <3>2. QED
      BY <1>2, <2>1, <3>1
  <2>2. QED
    BY <1>1, <2>1, MembersStay DEF TokensShown
<1>6. QED
  BY <1>2, <1>3, <1>4, <1>5

\* Such a step, with no session that is new.
LEMMA UserStepKeepsInv ==
  ASSUME AccountsInv, NEW e \in Emails, NEW u \in UserType,
         users' = [users EXCEPT ![e] = u],
         u.org \in Orgs, Known(e) => u.org = users[e].org,
         {"org", "key"} \subseteq rows[u.org],
         UNCHANGED <<rows, enterprise, sso, shown>>,
         deactivating' \in Emails \cup {None},
         sessions' \in [SessionIds -> SessType],
         \A id \in SessionIds :
           /\ sessions'[id].user = sessions[id].user
           /\ sessions'[id].user = None => sessions'[id] = NoSession
  PROVE  AccountsInv'
<1>1. /\ users' \in [Emails -> UserType]
      /\ UsersFounded'
      /\ \A f \in Emails : Known(f) => Known(f)'
      /\ TokensShown'
  BY UserChangeKeeps
<1>2. sessions \in [SessionIds -> SessType] /\ SessionsOwned
  BY DEF AccountsInv, TypeOK, SessType
<1>3. SessionsOwned'
  <2> SUFFICES ASSUME NEW i \in SessionIds, sessions[i].user # None
               PROVE  users'[sessions[i].user] # NoUser
    BY DEF SessionsOwned, Known
  <2>1. sessions[i].user \in Emails /\ Known(sessions[i].user)
    BY <1>2 DEF SessType, SessionsOwned, Known
  <2>2. QED
    BY <1>1, <2>1 DEF Known
<1>4. TypeOK'
  BY <1>1, <1>3
  DEF AccountsInv, TypeOK, UserType, SessType, UsersFounded, SessionsOwned
<1>5. SlotsFree'
  BY DEF SlotsFree
<1>6. QED
  BY <1>1, <1>3, <1>4, <1>5 DEF AccountsInv

\* What revoking and marking do to the sessions of a user.
LEMMA SessionsMarked ==
  ASSUME AccountsInv, NEW e, NEW from, NEW to \in {"no", "begun", "cut"}
  PROVE  /\ Marked(e, from, to) \in [SessionIds -> SessType]
         /\ \A id \in SessionIds :
              /\ Marked(e, from, to)[id].user = sessions[id].user
              /\ IF sessions[id].user = e /\ sessions[id].disowned \in from
                 THEN Marked(e, from, to)[id].disowned = to
                 ELSE Marked(e, from, to)[id] = sessions[id]
<1>1. sessions \in [SessionIds -> SessType]
  BY DEF AccountsInv, TypeOK, SessType
<1>2. ASSUME NEW id \in SessionIds
      PROVE  /\ [sessions[id] EXCEPT !.disowned = to] \in SessType
             /\ [sessions[id] EXCEPT !.disowned = to].user = sessions[id].user
             /\ [sessions[id] EXCEPT !.disowned = to].disowned = to
  BY <1>1 DEF SessType
<1>3. QED
  BY <1>1, <1>2 DEF Marked

\* Who is in an organization, known or shown, is founded.
LEMMA MemberFounded ==
  ASSUME AccountsInv, NEW e \in Emails, NEW o \in Orgs, users[e].org = o
  PROVE  Known(e) /\ users[e] \in UserType /\ {"org", "key"} \subseteq rows[o]
<1>1. Known(e)
  BY NoneIsNoRow DEF Known
<1>2. QED
  BY <1>1 DEF AccountsInv, TypeOK, UserType, UsersFounded

LEMMA TokenFounded ==
  ASSUME AccountsInv, NEW o \in Orgs, ScimAuthenticated(o)
  PROVE  Members(o) # {} /\ {"org", "key"} \subseteq rows[o]
<1>1. PICK e \in Emails : users[e].org = o
  BY DEF ScimAuthenticated, AccountsInv, TokensShown, Members
<1>2. QED
  BY <1>1, MemberFounded DEF Members

\* Who calls as an admin is a known user.
LEMMA CallerKnown ==
  ASSUME AccountsInv, NEW id \in SessionIds, IsAdmin(id)
  PROVE  /\ sessions[id].user \in Emails
         /\ Caller(id).org \in Orgs
         /\ Members(Caller(id).org) # {}
<1>1. sessions[id] # NoSession /\ sessions[id] \in SessType
  BY DEF IsAdmin, Authenticated, AccountsInv, TypeOK, SessType
<1>2. sessions[id].user # None
  BY <1>1 DEF AccountsInv, SlotsFree
<1>3. sessions[id].user \in Emails /\ Known(sessions[id].user)
  BY <1>1, <1>2 DEF SessType, AccountsInv, SessionsOwned, Known
<1>4. QED
  BY <1>3 DEF Caller, Members, AccountsInv, UsersFounded

LEMMA PatchRoleKeepsInv ==
  ASSUME AccountsInv, NEW id \in SessionIds, NEW e \in Emails, NEW role \in PatchRoles,
         PatchRole(id, e, role), UNCHANGED deactivating
  PROVE  AccountsInv'
<1> DEFINE u == [users[e] EXCEPT !.role = role]
<1>1. users[e].org \in Orgs /\ users[e] \in UserType /\ {"org", "key"} \subseteq rows[users[e].org]
  BY CallerKnown, MemberFounded DEF PatchRole
<1>2. u \in UserType /\ u.org = users[e].org
  BY <1>1, AccountsAssumption DEF UserType, Roles
<1>3. users' = [users EXCEPT ![e] = u]
  BY DEF PatchRole
<1> HIDE DEF u
<1>4. UNCHANGED <<rows, enterprise, sessions, sso, shown>>
  BY DEF PatchRole
<1>5. /\ sessions' \in [SessionIds -> SessType]
      /\ \A i \in SessionIds : /\ sessions'[i].user = sessions[i].user
                              /\ sessions'[i].user = None => sessions'[i] = NoSession
  BY <1>4 DEF AccountsInv, TypeOK, SessType, SlotsFree
<1>6. deactivating' \in Emails \cup {None}
  BY DEF AccountsInv, TypeOK
<1>7. QED
  BY <1>1, <1>2, <1>3, <1>4, <1>5, <1>6, UserStepKeepsInv

\* A change of the flag of a user, with marks on the sessions.
LEMMA FlagKeepsInv ==
  ASSUME AccountsInv, NEW o \in Orgs, NEW e \in Emails, NEW active \in BOOLEAN,
         users[e].org = o,
         users' = [users EXCEPT ![e].active = active],
         UNCHANGED <<rows, enterprise, sso, shown>>,
         deactivating' \in Emails \cup {None},
         NEW from, NEW to \in {"no", "begun", "cut"},
         sessions' = Marked(e, from, to)
  PROVE  AccountsInv'
<1> DEFINE u == [users[e] EXCEPT !.active = active]
<1>0. users \in [Emails -> UserType]
  BY DEF AccountsInv, TypeOK, UserType
<1>1. users[e] \in UserType /\ {"org", "key"} \subseteq rows[o]
  BY MemberFounded
<1>2. u \in UserType /\ u.org = o
  BY <1>1 DEF UserType
<1>3. users' = [users EXCEPT ![e] = u]
  OBVIOUS
<1> HIDE DEF u
<1>4. /\ sessions' \in [SessionIds -> SessType]
      /\ \A id \in SessionIds :
           /\ sessions'[id].user = sessions[id].user
           /\ sessions'[id].user = None => sessions'[id] = NoSession
  BY SessionsMarked, AccountsAssumption DEF AccountsInv, SlotsFree
<1>5. u.org \in Orgs /\ u.org = users[e].org /\ {"org", "key"} \subseteq rows[u.org]
  BY <1>1, <1>2
<1>6. QED
  BY <1>2, <1>3, <1>4, <1>5, UserStepKeepsInv

LEMMA ScimKeepsInv ==
  ASSUME AccountsInv, NEW o \in Orgs,
         \/ ScimStep(o) /\ UNCHANGED deactivating
         \/ \E e \in Emails : ScimDeactivate(o, e)
  PROVE  AccountsInv'
<1>0. /\ deactivating \in Emails \cup {None} /\ sessions \in [SessionIds -> SessType]
      /\ \A i \in SessionIds : sessions[i].user = None => sessions[i] = NoSession
  BY DEF AccountsInv, TypeOK, SessType, SlotsFree
<1>1. ASSUME NEW e \in Emails, ScimCreate(o, e), UNCHANGED deactivating
      PROVE  AccountsInv'
  <2> DEFINE u == [org |-> o, role |-> "member", active |-> TRUE]
  <2>1. u \in UserType /\ u.org = o /\ {"org", "key"} \subseteq rows[o] /\ ~Known(e)
    BY <1>1, TokenFounded DEF ScimCreate, UserType, Roles
  <2>2. users' = [users EXCEPT ![e] = u] /\ UNCHANGED <<rows, enterprise, sessions, sso, shown>>
    BY <1>1 DEF ScimCreate
  <2> HIDE DEF u
  <2>3. QED
    BY <1>0, <1>1, <2>1, <2>2, UserStepKeepsInv
<1>2. ASSUME NEW e \in Emails, ScimActivate(o, e), UNCHANGED deactivating
      PROVE  AccountsInv'
  <2>1. /\ users[e].org = o
        /\ users' = [users EXCEPT ![e].active = TRUE]
        /\ sessions' = Marked(e, {"cut"}, "no")
        /\ UNCHANGED <<rows, enterprise, sso, shown>>
    BY <1>2 DEF ScimActivate
  <2>2. QED
    BY <1>0, <1>2, <2>1, FlagKeepsInv
<1>3. ASSUME NEW e \in Emails, ScimDeactivate(o, e)
      PROVE  AccountsInv'
  <2>1. /\ users[e].org = o
        /\ users' = [users EXCEPT ![e].active = FALSE]
        /\ sessions' = Marked(e, {"no", "cut"}, "begun")
        /\ deactivating' = e
        /\ UNCHANGED <<rows, enterprise, sso, shown>>
    BY <1>3 DEF ScimDeactivate
  <2>2. QED
    BY <2>1, FlagKeepsInv
<1>4. QED
  BY <1>1, <1>2, <1>3 DEF ScimStep

LEMMA PutSsoKeepsInv ==
  ASSUME AccountsInv, NEW id \in SessionIds, NEW domain \in Orgs, NEW enabled \in BOOLEAN,
         PutSso(id, domain, enabled), UNCHANGED deactivating
  PROVE  AccountsInv'
<1> DEFINE o == Caller(id).org
           token == TokenStored(o)
<1>1. o \in Orgs /\ Members(o) # {}
  BY CallerKnown DEF PutSso
<1>2. /\ sso \in [Orgs -> SsoType] /\ shown \in [Orgs -> SUBSET Nat]
      /\ TokensShown
  BY DEF AccountsInv, TypeOK, SsoType
<1>3. token \in Nat /\ (sso[o].token # 0 => token = sso[o].token) /\ token # 0
  BY <1>1, <1>2 DEF TokenStored, SsoType
<1>4. /\ sso' = [sso EXCEPT ![o] = [domain |-> domain, enabled |-> enabled, token |-> token]]
      /\ \/ shown' = [shown EXCEPT ![o] = IF token = sso[o].token THEN @ ELSE @ \cup {token}]
         \/ shown' = shown
      /\ UNCHANGED <<rows, enterprise, users, sessions>>
  BY DEF PutSso
<1> HIDE DEF o, token
<1>5. sso' \in [Orgs -> SsoType] /\ shown' \in [Orgs -> SUBSET Nat]
  BY <1>1, <1>2, <1>3, <1>4 DEF SsoType
<1>6. TokensShown'
  <2> SUFFICES ASSUME NEW p \in Orgs
               PROVE  shown'[p] \subseteq {sso'[p].token} \ {0} /\ (shown'[p] # {} => Members(p) # {})
    BY <1>4 DEF TokensShown, Members
  <2>0. shown[p] \subseteq {sso[p].token} \ {0} /\ (shown[p] # {} => Members(p) # {})
    BY <1>2 DEF TokensShown
  <2>1. CASE p # o
    BY <1>1, <1>2, <1>4, <2>0, <2>1
  <2>2. CASE p = o
    <3>1. sso'[o].token = token
      BY <1>1, <1>2, <1>4
    <3>2. shown[o] \subseteq {token}
      BY <1>3, <2>0, <2>2
    <3>3. shown'[o] \subseteq {token}
      BY <1>1, <1>2, <1>4, <3>2
    <3>4. QED
      BY <1>1, <1>3, <2>2, <3>1, <3>3
  <2>3. QED
    BY <2>1, <2>2
<1>7. TypeOK' /\ UsersFounded' /\ SessionsOwned' /\ SlotsFree'
  BY <1>4, <1>5 DEF AccountsInv, TypeOK, SsoType, UsersFounded, SessionsOwned, SlotsFree, Known
<1>8. QED
  BY <1>6, <1>7 DEF AccountsInv

\* A step that only takes sessions away or marks them.
LEMMA SessionStepKeepsInv ==
  ASSUME AccountsInv,
         UNCHANGED <<rows, enterprise, users, sso, shown>>,
         deactivating' \in Emails \cup {None},
         sessions' \in [SessionIds -> SessType],
         \A id \in SessionIds :
           /\ sessions'[id].user \in {sessions[id].user, None}
           /\ sessions'[id].user = None => sessions'[id] = NoSession
  PROVE  AccountsInv'
<1>1. SessionsOwned'
  BY DEF AccountsInv, SessionsOwned, Known
<1>2. UsersFounded' /\ TokensShown'
  BY DEF AccountsInv, UsersFounded, TokensShown, Known, Members
<1>3. TypeOK'
  BY <1>1, <1>2 DEF AccountsInv, TypeOK, SessType, SessionsOwned, UsersFounded, Known
<1>4. SlotsFree'
  BY DEF SlotsFree
<1>5. QED
  BY <1>1, <1>2, <1>3, <1>4 DEF AccountsInv

LEMMA RestKeepsInv ==
  ASSUME AccountsInv,
         \/ \E id \in SessionIds : (Logout(id) \/ Expire(id)) /\ UNCHANGED deactivating
         \/ RevokeSessions \/ RevokeKilled
         \/ \E o \in Orgs : ChangePlan(o) /\ UNCHANGED deactivating
         \/ UNCHANGED vars
  PROVE  AccountsInv'
<1>0. /\ sessions \in [SessionIds -> SessType] /\ deactivating \in Emails \cup {None}
      /\ \A i \in SessionIds : sessions[i].user = None => sessions[i] = NoSession
  BY DEF AccountsInv, TypeOK, SessType, SlotsFree
<1>1. CASE \E id \in SessionIds : (Logout(id) \/ Expire(id)) /\ UNCHANGED deactivating
  <2>1. PICK id \in SessionIds : sessions' = [sessions EXCEPT ![id] = NoSession]
    BY <1>1 DEF Logout, Expire
  <2>2. UNCHANGED <<rows, enterprise, users, sso, shown, deactivating>>
    BY <1>1 DEF Logout, Expire
  <2>3. /\ sessions' \in [SessionIds -> SessType]
        /\ \A i \in SessionIds :
             /\ sessions'[i].user \in {sessions[i].user, None}
             /\ sessions'[i].user = None => sessions'[i] = NoSession
    BY <1>0, <2>1, NoneIsNoRow
  <2>4. QED
    BY <1>0, <2>2, <2>3, SessionStepKeepsInv
<1>2. CASE RevokeSessions
  <2>1. /\ sessions' \in [SessionIds -> SessType]
        /\ \A i \in SessionIds :
             /\ sessions'[i].user \in {sessions[i].user, None}
             /\ sessions'[i].user = None => sessions'[i] = NoSession
    BY <1>0, <1>2, NoneIsNoRow DEF RevokeSessions, AllRevoked
  <2>2. QED
    BY <1>2, <2>1, SessionStepKeepsInv DEF RevokeSessions
<1>3. CASE RevokeKilled
  <2>1. sessions' = Marked(deactivating, {"begun"}, "cut")
    BY <1>3 DEF RevokeKilled
  <2>2. PICK e \in Emails \cup {None} : e = deactivating
    BY <1>0
  <2>3. sessions' = Marked(e, {"begun"}, "cut")
    BY <2>1, <2>2 DEF Marked
  <2>4. /\ sessions' \in [SessionIds -> SessType]
        /\ \A i \in SessionIds :
             /\ sessions'[i].user = sessions[i].user
             /\ sessions'[i].user = None => sessions'[i] = NoSession
    <3>1. e # None
      BY <1>3, <2>2 DEF RevokeKilled
    <3>2. QED
      BY <1>0, <2>3, <3>1, SessionsMarked
  <2>5. QED
    BY <1>3, <2>4, SessionStepKeepsInv DEF RevokeKilled
<1>4. CASE \E o \in Orgs : ChangePlan(o) /\ UNCHANGED deactivating
  BY <1>4 DEF ChangePlan, AccountsInv, TypeOK, UsersFounded, SessionsOwned, SlotsFree, TokensShown,
              Known, Members
<1>5. CASE UNCHANGED vars
  BY <1>5 DEF vars, AccountsInv, TypeOK, UsersFounded, SessionsOwned, SlotsFree, TokensShown,
              Known, Members
<1>6. QED
  BY <1>1, <1>2, <1>3, <1>4, <1>5

(***************************************************************************)
(* The theorems                                                            *)
(***************************************************************************)
LEMMA AccountsInvInit == Init => AccountsInv
<1> SUFFICES ASSUME Init
             PROVE  AccountsInv
  OBVIOUS
<1>1. \A e \in Emails : ~Known(e)
  BY DEF Init, Known
<1>2. UsersFounded /\ SessionsOwned /\ SlotsFree /\ TokensShown
  BY <1>1, NoneIsNoRow DEF Init, UsersFounded, SessionsOwned, SlotsFree, TokensShown
<1>3. TypeOK
  BY <1>1, <1>2, AccountsAssumption
  DEF Init, TypeOK, SessionsOwned, NoUser, NoSession, NoSso, Roles
<1>4. QED
  BY <1>2, <1>3 DEF AccountsInv

LEMMA AccountsInvStep == AccountsInv /\ [Next]_vars => AccountsInv'
<1> SUFFICES ASSUME AccountsInv, [Next]_vars
             PROVE  AccountsInv'
  OBVIOUS
<1>1. ASSUME NEW id \in SessionIds, SessionStep(id), UNCHANGED deactivating
      PROVE  AccountsInv'
  BY <1>1, DevLoginKeepsInv, PatchRoleKeepsInv, PutSsoKeepsInv, RestKeepsInv DEF SessionStep
<1>2. ASSUME NEW o \in Orgs,
             \/ ScimStep(o) /\ UNCHANGED deactivating
             \/ \E e \in Emails : ScimDeactivate(o, e)
      PROVE  AccountsInv'
  BY <1>2, ScimKeepsInv
<1>3. ASSUME NEW e \in Emails, LoginKilledEarly(e) \/ LoginKilledLate(e),
             UNCHANGED deactivating
      PROVE  AccountsInv'
  BY <1>3, LoginKilledKeepsInv
<1>4. CASE \/ \E o \in EnterpriseOrgs : ChangePlan(o) /\ UNCHANGED deactivating
           \/ RevokeSessions \/ RevokeKilled
           \/ UNCHANGED vars
  BY <1>4, RestKeepsInv, AccountsAssumption
<1>5. CASE Handled /\ UNCHANGED deactivating
  BY <1>1, <1>2, <1>3, <1>4, <1>5 DEF Handled
<1>6. QED
  BY <1>2, <1>4, <1>5 DEF Next

LEMMA AccountsInvCorrect == Spec => []AccountsInv
BY AccountsInvInit, AccountsInvStep, PTL DEF Spec

(***************************************************************************)
(* Deactivation                                                            *)
(***************************************************************************)
\* A session without mark needs nothing; the marked ones of the table below keep
\* their user, inactive.
LEMMA MarksStay ==
  ASSUME AccountsInv, DisownedInactive,
         \A id \in SessionIds :
           \/ sessions'[id].disowned = "no"
           \/ /\ sessions'[id] = sessions[id]
              /\ ~users[sessions[id].user].active => ~users'[sessions[id].user].active,
         UNCHANGED deactivating
  PROVE  DisownedInactive'
BY DEF DisownedInactive

LEMMA HandledKeepsMarks ==
  ASSUME AccountsInv, DisownedInactive, Handled, deactivating = None, UNCHANGED deactivating
  PROVE  DisownedInactive'
<1>0. /\ sessions \in [SessionIds -> SessType] /\ users \in [Emails -> UserType]
      /\ SessionsOwned
  BY DEF AccountsInv, TypeOK, SessType, UserType
\* No mark says that the service is at it.
<1>1. \A id \in SessionIds :
        sessions[id].disowned # "no" =>
          /\ sessions[id].disowned = "cut"
          /\ sessions[id].user \in Emails /\ Known(sessions[id].user)
  BY <1>0 DEF DisownedInactive, SessType, SessionsOwned, Known
\* Logins leave the users there are as they are, and mark no session.
<1>2. ASSUME NEW e \in Emails, users' = [users EXCEPT ![e] = UserFound(e)]
      PROVE  \A f \in Emails : Known(f) => users'[f] = users[f]
  BY <1>0, <1>2, UserFoundIsMember
<1>3. ASSUME NEW e \in Emails, NEW id \in SessionIds, DevLogin(e, id)
      PROVE  DisownedInactive'
  <2>1. /\ sessions'[id].disowned = "no"
        /\ \A i \in SessionIds \ {id} : sessions'[i] = sessions[i]
    BY <1>0, <1>3 DEF DevLogin, NoSession
  <2>2. \A f \in Emails : Known(f) => users'[f] = users[f]
    BY <1>2, <1>3 DEF DevLogin
  <2>3. QED
    BY <1>1, <2>1, <2>2, MarksStay
<1>4. ASSUME NEW e \in Emails, LoginKilledEarly(e) \/ LoginKilledLate(e)
      PROVE  DisownedInactive'
  <2>1. sessions' = sessions /\ \A f \in Emails : Known(f) => users'[f] = users[f]
    BY <1>2, <1>4 DEF LoginKilledEarly, LoginKilledLate
  <2>2. QED
    BY <1>1, <2>1, MarksStay
<1>5. ASSUME NEW id \in SessionIds, Logout(id) \/ Expire(id)
      PROVE  DisownedInactive'
  <2>1. sessions' = [sessions EXCEPT ![id] = NoSession] /\ users' = users
    BY <1>5 DEF Logout, Expire
  <2>2. /\ sessions'[id].disowned = "no"
        /\ \A i \in SessionIds \ {id} : sessions'[i] = sessions[i]
    BY <1>0, <2>1 DEF NoSession
  <2>3. QED
    BY <2>1, <2>2, MarksStay
<1>6. ASSUME NEW id \in SessionIds, NEW e \in Emails, NEW role \in PatchRoles,
             PatchRole(id, e, role)
      PROVE  DisownedInactive'
  <2>1. sessions' = sessions /\ \A f \in Emails : users'[f].active = users[f].active
    BY <1>0, <1>6 DEF PatchRole, UserType
  <2>2. QED
    BY <1>1, <2>1, MarksStay
<1>7. ASSUME NEW o \in Orgs, NEW e \in Emails, ScimCreate(o, e)
      PROVE  DisownedInactive'
  <2>1. sessions' = sessions /\ \A f \in Emails : Known(f) => users'[f] = users[f]
    BY <1>0, <1>7 DEF ScimCreate
  <2>2. QED
    BY <1>1, <2>1, MarksStay
\* A reactivation takes the marks there can be from the sessions of its user.
<1>8. ASSUME NEW o \in Orgs, NEW e \in Emails, ScimActivate(o, e)
      PROVE  DisownedInactive'
  <2>1. /\ sessions' = Marked(e, {"cut"}, "no")
        /\ \A f \in Emails \ {e} : users'[f] = users[f]
    BY <1>0, <1>8 DEF ScimActivate
  <2>2. \A id \in SessionIds :
          IF sessions[id].user = e /\ sessions[id].disowned \in {"cut"}
          THEN sessions'[id].disowned = "no" ELSE sessions'[id] = sessions[id]
    BY <2>1, SessionsMarked
  <2>3. QED
    BY <1>1, <2>1, <2>2, MarksStay
<1>9. ASSUME NEW id \in SessionIds, NEW domain \in Orgs, NEW enabled \in BOOLEAN,
             PutSso(id, domain, enabled)
      PROVE  DisownedInactive'
  BY <1>9, MarksStay DEF PutSso
<1>10. ASSUME NEW o \in EnterpriseOrgs, ChangePlan(o)
       PROVE  DisownedInactive'
  BY <1>10, MarksStay DEF ChangePlan
<1>11. QED
  BY <1>3, <1>4, <1>5, <1>6, <1>7, <1>8, <1>9, <1>10 DEF Handled, SessionStep, ScimStep

LEMMA DisownedStep == AccountsInv /\ DisownedInactive /\ [Next]_vars => DisownedInactive'
<1> SUFFICES ASSUME AccountsInv, DisownedInactive, [Next]_vars
             PROVE  DisownedInactive'
  OBVIOUS
<1>0. /\ sessions \in [SessionIds -> SessType] /\ users \in [Emails -> UserType]
      /\ deactivating \in Emails \cup {None}
  BY DEF AccountsInv, TypeOK, SessType, UserType
<1>1. CASE deactivating = None /\ Handled /\ UNCHANGED deactivating
  BY <1>1, HandledKeepsMarks
<1>2. ASSUME NEW o \in Orgs, NEW e \in Emails, ScimDeactivate(o, e), deactivating = None
      PROVE  DisownedInactive'
  <2>1. /\ sessions' = Marked(e, {"no", "cut"}, "begun")
        /\ users' = [users EXCEPT ![e].active = FALSE]
        /\ deactivating' = e
    BY <1>2 DEF ScimDeactivate
  <2>2. \A id \in SessionIds :
          /\ sessions'[id].user = sessions[id].user
          /\ IF sessions[id].user = e /\ sessions[id].disowned \in {"no", "cut"}
             THEN sessions'[id].disowned = "begun" ELSE sessions'[id] = sessions[id]
    BY <2>1, SessionsMarked
  <2>3. ~users'[e].active /\ \A f \in Emails \ {e} : users'[f] = users[f]
    BY <1>0, <2>1 DEF UserType
  <2>4. SUFFICES ASSUME NEW id \in SessionIds, sessions'[id].disowned # "no"
                 PROVE  /\ sessions'[id].user # None
                        /\ ~users'[sessions'[id].user].active
                        /\ sessions'[id].disowned = "begun" => deactivating' = sessions'[id].user
    BY DEF DisownedInactive
  <2>5. CASE sessions[id].user = e
    <3>1. e # None
      BY AccountsAssumption
    <3>2. QED
      BY <2>1, <2>2, <2>3, <2>5, <3>1
  <2>6. CASE sessions[id].user # e
    <3>1. sessions'[id] = sessions[id] /\ sessions[id].user \in Emails \cup {None}
      BY <1>0, <2>2, <2>6 DEF SessType
    <3>2. /\ sessions[id].user # None /\ ~users[sessions[id].user].active
          /\ sessions[id].disowned # "begun"
      BY <1>2, <2>4, <3>1 DEF DisownedInactive
    <3>3. QED
      BY <2>3, <2>6, <3>1, <3>2
  <2>7. QED
    BY <2>5, <2>6
<1>3. CASE RevokeSessions
  <2>1. \A id \in SessionIds :
          sessions'[id] = IF sessions[id].user = deactivating THEN NoSession ELSE sessions[id]
    BY <1>3 DEF RevokeSessions, AllRevoked
  <2>2. users' = users /\ deactivating' = None
    BY <1>3 DEF RevokeSessions
  <2>3. QED
    BY <2>1, <2>2, NoneIsNoRow DEF DisownedInactive
<1>4. CASE RevokeKilled
  <2>1. PICK e \in Emails \cup {None} : e = deactivating
    BY <1>0
  <2>2. sessions' = Marked(e, {"begun"}, "cut") /\ users' = users /\ deactivating' = None
    BY <1>4, <2>1 DEF RevokeKilled, Marked
  <2>3. \A id \in SessionIds :
          /\ sessions'[id].user = sessions[id].user
          /\ IF sessions[id].user = e /\ sessions[id].disowned \in {"begun"}
             THEN sessions'[id].disowned = "cut" ELSE sessions'[id] = sessions[id]
    BY <2>2, SessionsMarked
  <2>4. QED
    BY <2>1, <2>2, <2>3 DEF DisownedInactive
<1>5. CASE UNCHANGED vars
  BY <1>5 DEF vars, DisownedInactive
<1>6. QED
  BY <1>1, <1>2, <1>3, <1>4, <1>5 DEF Next

\* Wherever logins are killed, whoever is a user belongs to an organization with
\* a row and a signing key (findOrCreateOrgByDomain, ensureOrgSigningKey).
THEOREM UsersAreFounded == Spec => []Founded
<1>1. AccountsInv => Founded
  BY DEF AccountsInv, Founded, MembersHaveSigningKey, UsersFounded
<1>2. QED
  BY <1>1, AccountsInvCorrect, PTL

\* A session that there was when a deactivation began does not work any more: the
\* flag locks it out until it is revoked, and where the service is killed between
\* the two for as long as the user is not reactivated
\* (PATCH /scim/v2/Users/:id, currentUser).
THEOREM LockedOut == Spec => []DeactivatedLockedOut
<1>1. Init => DisownedInactive
  BY NoneIsNoRow DEF Init, DisownedInactive
<1>2. Spec => []DisownedInactive
  BY <1>1, DisownedStep, AccountsInvCorrect, PTL DEF Spec
<1>3. DisownedInactive => DeactivatedLockedOut
  BY DEF DisownedInactive, DeactivatedLockedOut, Authenticated
<1>4. QED
  BY <1>2, <1>3, PTL

\* A SCIM token an admin was shown stays the token of the organization
\* (PUT /v1/enterprise/sso).
THEOREM TokenStays == Spec => []ShownTokenWorks
<1>1. AccountsInv => ShownTokenWorks
  BY DEF AccountsInv, ShownTokenWorks, TokensShown
<1>2. QED
  BY <1>1, AccountsInvCorrect, PTL

\* The first user of an organization is its owner: a directory cannot be first,
\* for its token was shown to an admin of that organization (findOrCreateUser,
\* POST /scim/v2/Users).
THEOREM FirstOwns == Spec => FirstUserOwns
<1>1. AccountsInv /\ [Next]_vars
        => [\A o \in Orgs :
              Members(o) = {} => \A e \in Members(o)' : users'[e].role = "owner"]_vars
  <2> SUFFICES ASSUME AccountsInv, Next, NEW o \in Orgs, Members(o) = {},
                      NEW f \in Emails, users'[f].org = o
               PROVE  users'[f].role = "owner"
    BY DEF Members
  <2>0. users \in [Emails -> UserType] /\ \A e \in Emails : users[e].org # o
    BY DEF AccountsInv, TypeOK, UserType, Members
  <2>1. ASSUME NEW e \in Emails, users' = [users EXCEPT ![e] = UserFound(e)]
        PROVE  users'[f].role = "owner"
    <3>1. f = e /\ users'[f] = UserFound(e)
      BY <2>0, <2>1
    <3>2. ~Known(e) /\ DomainOf[e] = o
      BY <2>0, <3>1, UserFoundIsMember
    <3>3. RoleOfNew(DomainOf[e]) = "owner"
      BY <3>2 DEF RoleOfNew
    <3>4. QED
      BY <3>1, <3>2, <3>3 DEF UserFound
  <2>2. ASSUME NEW p \in Orgs, ScimStep(p) \/ \E e \in Emails : ScimDeactivate(p, e)
        PROVE  users'[f].role = "owner"
    <3>1. ScimAuthenticated(p)
      BY <2>2 DEF ScimStep, ScimCreate, ScimActivate, ScimDeactivate
    <3>2. p # o
      BY <3>1, TokenFounded
    <3>3. users[f].org = users'[f].org \/ users'[f].org = p
      BY <2>0, <2>2 DEF ScimStep, ScimCreate, ScimActivate, ScimDeactivate, UserType
    <3>4. QED
      BY <2>0, <3>2, <3>3
  <2>3. ASSUME NEW id \in SessionIds, NEW e \in Emails, NEW role \in PatchRoles,
               PatchRole(id, e, role)
        PROVE  users'[f].role = "owner"
    <3>1. users'[f].org = users[f].org
      BY <2>0, <2>3 DEF PatchRole, UserType
    <3>2. QED
      BY <2>0, <3>1
  <2>4. CASE UNCHANGED users
    BY <2>0, <2>4
  <2>5. ASSUME NEW id \in SessionIds, SessionStep(id)
        PROVE  users'[f].role = "owner"
    BY <2>1, <2>3, <2>4, <2>5 DEF SessionStep, DevLogin, Logout, Expire, PutSso
  <2>6. ASSUME NEW e \in Emails, LoginKilledEarly(e) \/ LoginKilledLate(e)
        PROVE  users'[f].role = "owner"
    BY <2>1, <2>4, <2>6 DEF LoginKilledEarly, LoginKilledLate
  <2>7. QED
    BY <2>2, <2>4, <2>5, <2>6 DEF Next, Handled, ChangePlan, RevokeSessions, RevokeKilled
<1>2. QED
  BY <1>1, AccountsInvCorrect, PTL DEF Spec, FirstUserOwns

=============================================================================
