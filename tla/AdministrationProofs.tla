------------------------- MODULE AdministrationProofs -------------------------
(***************************************************************************)
(* That no edit passes over what its author could not see, and that          *)
(* accounts, sessions, roles and projects fit together, for any number of    *)
(* users, sessions, services, models, rules, administrators and edits.       *)
(*                                                                         *)
(* EditsAreSeen is four facts of the parts.  A takeover is refused where it  *)
(* is made; the others rest on what a part keeps between two of its steps:   *)
(* of the row a transaction has locked (ServiceInv), of the candidates a     *)
(* chat began with (ChatInv), of the row a form was opened on (FormInv).     *)
(***************************************************************************)
EXTENDS Administration, FiniteSetTheorems, SequenceTheorems, TLAPS

-----------------------------------------------------------------------------
(* A project's manager.                                                     *)

Handover == \A p \in Project : manager'[p] # manager[p] => Nobody \in {manager[p], manager'[p]}

LEMMA BoundHandsOver ==
  ASSUME NEW u, NEW owned, Bindable(u, owned), manager' = Bound(u, owned)
  PROVE  Handover
  BY DEF Bindable, Bound, Handover

LEMMA TakeoverStep == ASSUME [Next]_vars PROVE [Handover]_manager
<1>1. CASE AccountsNext
  <2>1. ASSUME NEW s \in Sid, NEW u \in User, NEW form0 \in Form, CreateUser(s, u, form0) \/ UpdateUser(s, u, form0)
        PROVE  Handover
    BY <2>1, BoundHandsOver DEF CreateUser, UpdateUser, Assignable
  <2>2. ASSUME NEW u \in User, Login(u) \/ WechatLogin(u) \/ WrongPassword(u) \/ LockRunsOut(u)
        PROVE  UNCHANGED manager
    BY <2>2 DEF Login, WechatLogin, IssueSession, WrongPassword, LockRunsOut
  <2>3. ASSUME NEW s \in Sid, SessionRunsOut(s) \/ Authenticate(s) \/ EndRequest(s) \/ ChangePassword(s) \/ Logout(s)
        PROVE  UNCHANGED manager
    BY <2>3 DEF SessionRunsOut, Authenticate, EndRequest, ChangePassword, Logout
  <2>4. ASSUME NEW s \in Sid, NEW u \in User, NEW x, NEW y,
               Unlock(s, u) \/ ResetPassword(s, u) \/ SetUserStatus(s, u, x) \/ SetProjectScopes(s, u, x, y)
        PROVE  UNCHANGED manager
    BY <2>4 DEF Unlock, ResetPassword, SetUserStatus, SetProjectScopes
  <2>5. ASSUME NEW s \in Sid, NEW code, NEW perms, NEW enabled,
               CreateRole(s, code, perms) \/ RemoveRole(s, code) \/ UpdateRole(s, code, perms, enabled)
        PROVE  UNCHANGED manager
    BY <2>5 DEF CreateRole, RemoveRole, UpdateRole
  <2>6. QED
    BY <1>1, <2>1, <2>2, <2>3, <2>4, <2>5 DEF AccountsNext
<1>2. CASE UNCHANGED accountsVars
  BY <1>2 DEF accountsVars
<1>3. CASE UNCHANGED vars
  BY <1>3 DEF vars, accountsVars
<1>4. QED
  BY <1>1, <1>2, <1>3 DEF Next
-----------------------------------------------------------------------------
(* Accounts, their sessions, roles and projects.                             *)

Right == Required \cup {Mailbox}
RoleName == RoleCode \cup {"NONE"}
UserRow == [live : BOOLEAN, status : {"ACTIVE", "LOCKED", "DISABLED"}, failed : Nat, locked : BOOLEAN,
            password : Nat, role : RoleName, scope : Scope]
RoleRow == [live : BOOLEAN, enabled : BOOLEAN, perms : SUBSET Right]
SessionRow == [user : User \cup {Nobody}, password : Nat, open : BOOLEAN]
Identity == [user : User \cup {Nobody}, perms : SUBSET Right, scope : Scope]

AccountsTypes ==
    /\ users \in [User -> UserRow] /\ assigned \in [User -> SUBSET Project]
    /\ manager \in [Project -> User \cup {Nobody}] /\ roles \in [RoleCode -> RoleRow]
    /\ sessions \in [Sid -> SessionRow] /\ request \in [Sid -> Identity]
    /\ accountEdits \in 0..MaxAccountEdits /\ guesses \in 0..MaxGuesses

\* A row that was never used is disabled; wrong passwords are counted one by one.
RowFits(r) == (~r.live => r.status = "DISABLED") /\ r.failed <= guesses

\* The role, scope and projects of an account fit together.
RightsFit(r, projects) ==
    /\ r.role \in RoleCode /\ roles[r.role].live
    /\ r.scope \in AllowedScopes(r.role) /\ ScopesFit(r.scope, projects)

RolesFit ==
    \A code \in RoleCode : /\ RolePolicy(code, roles[code].perms)
                           /\ code \in SystemRole => roles[code].live /\ roles[code].enabled

\* An open session is of an account that is not disabled, under its password of now.
SessionFits(session, r) == session.open => r.status # "DISABLED" /\ session.password = r.password

SessionsFit ==
    \A s \in Sid : /\ sessions[s].open => sessions[s].user # Nobody
                   /\ sessions[s].user # Nobody => SessionFits(sessions[s], users[sessions[s].user])
                   /\ request[s].user \in {Nobody, sessions[s].user}

AccountsInv ==
    /\ AccountsTypes /\ RolesFit /\ SessionsFit /\ OwnersAreManagers
    /\ \A u \in User : RowFits(users[u]) /\ (users[u].live => RightsFit(users[u], assigned[u]))

LEMMA AccountsInvHolds == AccountsInv => AccountsHold
<1> SUFFICES ASSUME AccountsInv PROVE AccountsHold
  OBVIOUS
<1>1. \A u \in User : /\ users[u] \in UserRow /\ RowFits(users[u]) /\ assigned[u] \subseteq Project
                      /\ users[u].live => RightsFit(users[u], assigned[u])
  BY DEF AccountsInv, AccountsTypes
<1>2. \A code \in RoleCode : roles[code] \in RoleRow
  BY DEF AccountsInv, AccountsTypes
<1>3. AccountsTypeOK
  <2>1. \A u \in User : /\ users[u].status \in {"ACTIVE", "LOCKED", "DISABLED"} /\ users[u].failed \in 0..MaxGuesses
                       /\ users[u].password \in Nat /\ users[u].role \in RoleCode \cup {"NONE"} /\ users[u].scope \in Scope
                       /\ assigned[u] \subseteq Project
    <3>1. guesses \in Nat /\ guesses <= MaxGuesses
      BY AccountsAssumption DEF AccountsInv, AccountsTypes
    <3>2. ASSUME NEW u \in User PROVE users[u].failed \in 0 .. MaxGuesses
      BY <1>1, <3>1, AccountsAssumption DEF RowFits, UserRow
    <3>3. QED
      BY <1>1, <3>2 DEF UserRow, RoleName
  <2>2. \A code \in RoleCode : roles[code].perms \subseteq Required \cup {Mailbox}
    BY <1>2 DEF RoleRow, Right
  <2>3. \A s \in Sid : sessions[s].user \in User \cup {Nobody}
    BY DEF AccountsInv, AccountsTypes, SessionRow
  <2>4. QED
    BY <2>1, <2>2, <2>3 DEF AccountsTypeOK, AccountsInv, AccountsTypes, SessionsFit
<1>4. DisabledHasNoSession /\ SessionKnowsPassword
  BY DEF AccountsInv, SessionsFit, SessionFits, DisabledHasNoSession, SessionKnowsPassword, Live
<1>5. ScopeFitsRole
  BY <1>1 DEF ScopeFitsRole, RightsFit, Visible
<1>6. RolesKeepTheirRights
  <2>1. ASSUME NEW u \in User, users[u].live
        PROVE  /\ roles[users[u].role].live
               /\ users[u].role = "SYSTEM_ADMIN" => Manage \in AccessOf(u).perms
               /\ users[u].role # "SYSTEM_ADMIN" => Manage \notin AccessOf(u).perms
    <3> DEFINE role == users[u].role
    <3>1. role \in RoleCode /\ roles[role].live
      BY <1>1, <2>1 DEF RightsFit
    <3>2. RolePolicy(role, roles[role].perms) /\ (role \in SystemRole => roles[role].enabled)
      BY <3>1 DEF AccountsInv, RolesFit
    <3>3. AccessOf(u).perms = IF roles[role].enabled THEN roles[role].perms ELSE {}
      BY <3>1 DEF AccessOf
    <3>4. QED
      BY <3>1, <3>2, <3>3 DEF RolePolicy, SystemRole, Required
  <2>2. QED
    BY <2>1 DEF RolesKeepTheirRights
<1>7. QED
  BY <1>3, <1>4, <1>5, <1>6 DEF AccountsHold, AccountsInv

LEMMA AccountsInvInit == Init => AccountsInv
<1> SUFFICES ASSUME Init PROVE AccountsInv
  OBVIOUS
<1>1. AccountsInit
  BY DEF Init
<1>2. users[Root] = [NoUser EXCEPT !.live = TRUE, !.status = "ACTIVE", !.password = 1, !.role = "SYSTEM_ADMIN", !.scope = "ALL"]
  BY <1>1, AccountsAssumption DEF AccountsInit
<1>3. users[Root] = [live |-> TRUE, status |-> "ACTIVE", failed |-> 0, locked |-> FALSE, password |-> 1,
                     role |-> "SYSTEM_ADMIN", scope |-> "ALL"]
  BY <1>2 DEF NoUser
<1>4. \A u \in User \ {Root} : users[u] = NoUser
  BY <1>1 DEF AccountsInit
<1>5. users[Root] \in UserRow /\ NoUser \in UserRow
  BY <1>3, AccountsAssumption DEF NoUser, UserRow, RoleName, SystemRole, Scope
<1>6. users \in [User -> UserRow]
  BY <1>1, <1>4, <1>5 DEF AccountsInit
<1>7. \A code \in RoleCode : /\ roles[code] = Seeded(code)
                             /\ roles[code].live = (code \in SystemRole) /\ roles[code].enabled
                             /\ code = "SYSTEM_ADMIN" => roles[code].perms = Required
                             /\ code = "RISK_ADMIN" => roles[code].perms = {"view", Mailbox}
                             /\ code \notin {"SYSTEM_ADMIN", "RISK_ADMIN"} => roles[code].perms = {"view"}
  BY <1>1 DEF AccountsInit, Seeded
<1>8. RolesFit
  <2>1. Manage \in Required /\ Mailbox \notin Required /\ "view" # Manage /\ "view" # Mailbox /\ Manage # Mailbox
    BY DEF Required, Manage, Mailbox
  <2>2. ASSUME NEW code \in RoleCode PROVE RolePolicy(code, roles[code].perms)
    <3>1. CASE code = "SYSTEM_ADMIN"
      BY <1>7, <2>1, <3>1 DEF RolePolicy
    <3>2. CASE code = "RISK_ADMIN"
      BY <1>7, <2>1, <3>2 DEF RolePolicy
    <3>3. CASE code \notin {"SYSTEM_ADMIN", "RISK_ADMIN"}
      BY <1>7, <2>1, <3>3 DEF RolePolicy
    <3>4. QED
      BY <3>1, <3>2, <3>3
  <2>3. QED
    BY <1>7, <2>2 DEF RolesFit
<1>9. roles \in [RoleCode -> RoleRow]
  <2>1. ASSUME NEW code \in RoleCode PROVE Seeded(code) \in RoleRow
    BY DEF Seeded, RoleRow, Right, Required, Manage, Mailbox
  <2>2. QED
    BY <1>1, <2>1 DEF AccountsInit
<1>10. AccountsTypes
  BY <1>1, <1>6, <1>9, AccountsAssumption
  DEF AccountsInit, AccountsTypes, NoSession, SessionRow, NoRequest, Identity, Scope
<1>11. SessionsFit /\ OwnersAreManagers
  <2>1. \A s \in Sid : sessions[s].user = Nobody /\ ~sessions[s].open /\ request[s].user = Nobody
    BY <1>1 DEF AccountsInit, NoSession, NoRequest
  <2>2. \A p \in Project : manager[p] = Nobody
    BY <1>1 DEF AccountsInit
  <2>3. QED
    BY <2>1, <2>2 DEF SessionsFit, OwnersAreManagers
<1>12. RightsFit(users[Root], assigned[Root])
  <2>1. users[Root].role = "SYSTEM_ADMIN" /\ users[Root].scope = "ALL"
    BY <1>3
  <2>2. assigned[Root] = {} /\ "SYSTEM_ADMIN" \in RoleCode /\ "SYSTEM_ADMIN" \in SystemRole
    BY <1>1, AccountsAssumption DEF AccountsInit, SystemRole
  <2>5. roles["SYSTEM_ADMIN"].live
    BY <1>7, <2>2
  <2>3. "ALL" \in AllowedScopes("SYSTEM_ADMIN") /\ ScopesFit("ALL", {})
    BY DEF AllowedScopes, ScopesFit
  <2>4. QED
    BY <2>1, <2>2, <2>3, <2>5 DEF RightsFit
<1>13. ASSUME NEW u \in User PROVE RowFits(users[u]) /\ (users[u].live => RightsFit(users[u], assigned[u]))
  <2>1. CASE u = Root
    <3>1. users[Root].live /\ users[Root].failed = 0 /\ guesses = 0
      <4>1. guesses = 0
        BY <1>1 DEF AccountsInit
      <4>2. QED
        BY <1>3, <4>1
    <3>2. QED
      BY <1>12, <2>1, <3>1 DEF RowFits
  <2>2. CASE u # Root
    BY <1>1, <1>4, <2>2 DEF RowFits, AccountsInit, NoUser
  <2>3. QED
    BY <2>1, <2>2
<1>14. QED
  BY <1>8, <1>10, <1>11, <1>13 DEF AccountsInv

\* What a step that writes one account has to see to.
WritesUser(u, r) ==
    /\ r \in UserRow /\ users' = [users EXCEPT ![u] = r]
    /\ guesses' \in 0..MaxGuesses /\ guesses' >= guesses /\ accountEdits' \in 0..MaxAccountEdits
    /\ roles' = roles
    /\ (~r.live => r.status = "DISABLED") /\ r.failed <= guesses'

KeepsProjects(u, r) ==
    /\ assigned' = [assigned EXCEPT ![u] = assigned'[u]] /\ assigned'[u] \subseteq Project
    /\ r.live => RightsFit(r, assigned'[u])
    /\ manager' \in [Project -> User \cup {Nobody}]
    /\ \A p \in Project : manager'[p] \notin {u, Nobody} => manager'[p] = manager[p]
    /\ \A p \in Project : manager'[p] = u => r.role = "PROJECT_MANAGER"

KeepsSessions(u, r) ==
    /\ sessions' \in [Sid -> SessionRow] /\ request' \in [Sid -> Identity]
    /\ \A s \in Sid : /\ sessions'[s].open => sessions'[s].user # Nobody
                      /\ sessions'[s].user \notin {u, Nobody} => sessions'[s] = sessions[s]
                      /\ sessions'[s].user = u => SessionFits(sessions'[s], r)
                      /\ request'[s].user \in {Nobody, sessions'[s].user}

LEMMA WriteUserStep ==
  ASSUME AccountsInv, NEW u \in User, NEW r, WritesUser(u, r), KeepsProjects(u, r), KeepsSessions(u, r)
  PROVE  AccountsInv'
<1>1. /\ users' \in [User -> UserRow] /\ users'[u] = r /\ \A v \in User \ {u} : users'[v] = users[v]
      /\ assigned' \in [User -> SUBSET Project] /\ \A v \in User \ {u} : assigned'[v] = assigned[v]
  BY DEF AccountsInv, AccountsTypes, WritesUser, KeepsProjects
<1>2. AccountsTypes'
  BY <1>1 DEF AccountsInv, AccountsTypes, WritesUser, KeepsProjects, KeepsSessions
<1>3. RolesFit'
  BY DEF AccountsInv, RolesFit, WritesUser
<1>4. SessionsFit'
  BY <1>1, AccountsAssumption
  DEF AccountsInv, AccountsTypes, SessionsFit, SessionFits, SessionRow, KeepsSessions
<1>5. OwnersAreManagers'
  BY <1>1 DEF AccountsInv, OwnersAreManagers, KeepsProjects
<1>6. ASSUME NEW v \in User PROVE RowFits(users[v])'
  <2>1. CASE v = u
    BY <1>1, <2>1 DEF RowFits, WritesUser
  <2>2. CASE v # u
    <3>1. users[v].failed \in Nat /\ guesses \in Int /\ guesses' \in Int
      BY DEF AccountsInv, AccountsTypes, UserRow, WritesUser
    <3>2. QED
      BY <1>1, <2>2, <3>1 DEF RowFits, WritesUser, AccountsInv
  <2>3. QED
    BY <2>1, <2>2
<1>7. ASSUME NEW v \in User, users'[v].live PROVE RightsFit(users[v], assigned[v])'
  <2>1. roles' = roles
    BY DEF WritesUser
  <2>2. CASE v = u
    BY <1>1, <1>7, <2>1, <2>2 DEF RightsFit, KeepsProjects
  <2>3. CASE v # u
    BY <1>1, <1>7, <2>1, <2>3 DEF RightsFit, AccountsInv
  <2>4. QED
    BY <2>2, <2>3
<1>8. QED
  BY <1>2, <1>3, <1>4, <1>5, <1>6, <1>7 DEF AccountsInv

\* A step that leaves projects and managers alone and keeps the account's role and scope.
LEMMA SameProjects ==
  ASSUME AccountsInv, NEW u \in User, NEW r, UNCHANGED <<assigned, manager, roles>>,
         r.role = users[u].role, r.scope = users[u].scope, r.live = users[u].live
  PROVE  KeepsProjects(u, r)
<1>1. /\ assigned \in [User -> SUBSET Project] /\ manager \in [Project -> User \cup {Nobody}] /\ Nobody \notin User
  BY AccountsAssumption DEF AccountsInv, AccountsTypes
<1>2. \A p \in Project : manager[p] = u => r.role = "PROJECT_MANAGER"
  BY <1>1 DEF AccountsInv, OwnersAreManagers
<1>3. r.live => RightsFit(r, assigned'[u])
  BY DEF AccountsInv, RightsFit
<1>4. QED
  BY <1>1, <1>2, <1>3 DEF KeepsProjects

\* A step that leaves the sessions alone, or ends the account's, and may answer a request.
LEMMA SameSessions ==
  ASSUME AccountsInv, NEW u \in User, NEW r,
         \/ sessions' = sessions /\ \A s \in Sid : sessions[s].user = u => SessionFits(sessions[s], r)
         \/ sessions' = Revoked(u),
         request' = request \/ \E s \in Sid : Answered(s)
  PROVE  KeepsSessions(u, r)
<1>1. sessions \in [Sid -> SessionRow] /\ request \in [Sid -> Identity] /\ Nobody \notin User
  BY AccountsAssumption DEF AccountsInv, AccountsTypes
<1>2. NoRequest \in Identity /\ NoRequest.user = Nobody
  BY DEF NoRequest, Identity, Scope
<1>3. request' \in [Sid -> Identity] /\ \A s \in Sid : request'[s].user \in {Nobody, request[s].user}
  BY <1>1, <1>2 DEF Answered
<1>4. \A s \in Sid : sessions[s] = [user |-> sessions[s].user, password |-> sessions[s].password, open |-> sessions[s].open]
  BY <1>1 DEF SessionRow
<1>5. /\ sessions' \in [Sid -> SessionRow]
      /\ \A s \in Sid : /\ sessions'[s].user = sessions[s].user
                        /\ sessions'[s].open => sessions[s].open
                        /\ sessions'[s].user # u => sessions'[s] = sessions[s]
                        /\ sessions'[s].user = u => SessionFits(sessions'[s], r)
  <2>1. CASE sessions' = sessions /\ \A s \in Sid : sessions[s].user = u => SessionFits(sessions[s], r)
    BY <1>1, <2>1
  <2>2. CASE sessions' = Revoked(u)
    <3> DEFINE no == FALSE
               Ended(s) == [sessions[s] EXCEPT !.open = no]
    <3>1. \A s \in Sid : sessions'[s] = IF sessions[s].user = u THEN Ended(s) ELSE sessions[s]
      BY <2>2 DEF Revoked
    <3>2. no \in BOOLEAN /\ ~no
      OBVIOUS
    <3> HIDE DEF no
    <3>3. \A s \in Sid : Ended(s) \in SessionRow /\ Ended(s).user = sessions[s].user /\ Ended(s).open = no
      BY <1>1, <3>2 DEF SessionRow
    <3> HIDE DEF Ended
    <3>4. DOMAIN sessions' = Sid /\ sessions' = [s \in Sid |-> sessions'[s]]
      BY <2>2 DEF Revoked
    <3>5. ASSUME NEW s \in Sid
          PROVE  /\ sessions'[s] \in SessionRow
                 /\ sessions'[s].user = sessions[s].user
                 /\ sessions'[s].open => sessions[s].open
                 /\ sessions'[s].user # u => sessions'[s] = sessions[s]
                 /\ sessions'[s].user = u => SessionFits(sessions'[s], r)
      BY <1>1, <3>1, <3>2, <3>3 DEF SessionFits
    <3>6. QED
      BY <3>4, <3>5
  <2>3. QED
    BY <2>1, <2>2
<1>6. QED
  BY <1>1, <1>3, <1>5 DEF KeepsSessions, AccountsInv, SessionsFit

\* The row a login, a wrong password, a password and a switch leave behind.
Entered(u, status, failed, locked, password) ==
    [live |-> users[u].live, status |-> status, failed |-> failed, locked |-> locked, password |-> password,
     role |-> users[u].role, scope |-> users[u].scope]

\* Steps of one account that keep its role, its scope and its projects.
LEMMA EnterStep ==
  ASSUME AccountsInv, NEW u \in User, NEW status \in {"ACTIVE", "LOCKED", "DISABLED"}, NEW failed \in Nat,
         NEW locked \in BOOLEAN, NEW password \in Nat,
         users' = [users EXCEPT ![u] = Entered(u, status, failed, locked, password)],
         UNCHANGED <<assigned, manager, roles>>, guesses' \in 0..MaxGuesses, guesses' >= guesses,
         accountEdits' \in 0..MaxAccountEdits, failed <= guesses', users[u].live \/ status = "DISABLED",
         \A r : r.status = status /\ r.password = password => KeepsSessions(u, r)
  PROVE  AccountsInv'
<1> DEFINE r == Entered(u, status, failed, locked, password)
<1>1. users[u] \in UserRow
  BY DEF AccountsInv, AccountsTypes
<1>2. r \in UserRow
  BY <1>1 DEF UserRow, Entered
<1>3. /\ r.live = users[u].live /\ r.role = users[u].role /\ r.scope = users[u].scope
      /\ r.status = status /\ r.failed = failed /\ r.locked = locked /\ r.password = password
  BY DEF Entered
<1> HIDE DEF r
<1>4. WritesUser(u, r)
  BY <1>2, <1>3 DEF WritesUser, r
<1>5. KeepsProjects(u, r)
  BY <1>3, SameProjects
<1>6. QED
  BY <1>2, <1>3, <1>4, <1>5, WriteUserStep

LEMMA Counters ==
  ASSUME AccountsInv
  PROVE  /\ guesses \in Nat /\ guesses \in 0..MaxGuesses /\ accountEdits \in 0..MaxAccountEdits /\ guesses >= guesses
         /\ accountEdits < MaxAccountEdits => accountEdits + 1 \in 0..MaxAccountEdits
         /\ guesses < MaxGuesses => guesses + 1 \in 0..MaxGuesses /\ guesses + 1 >= guesses
         /\ \A u \in User : users[u] \in UserRow /\ users[u].failed \in Nat /\ users[u].failed <= guesses
  BY AccountsAssumption DEF AccountsInv, AccountsTypes, RowFits, UserRow

LEMMA IssueStep == ASSUME AccountsInv, NEW u \in User, MayLogin(u), IssueSession(u) PROVE AccountsInv'
<1> DEFINE ok == "ACTIVE"
           no == FALSE
           none == 0
<1>1. users' = [users EXCEPT ![u].status = ok, ![u].failed = none, ![u].locked = no]
  BY DEF IssueSession
<1>2. ok \in {"ACTIVE", "LOCKED", "DISABLED"} /\ ok # "DISABLED" /\ no \in BOOLEAN /\ none \in Nat /\ none <= guesses
  BY Counters
<1>3. users[u].live /\ users[u] \in UserRow /\ users \in [User -> UserRow] /\ users[u].password \in Nat
  BY DEF MayLogin, AccountsInv, AccountsTypes, UserRow
<1>4. PICK s \in Sid : sessions[s].user = Nobody
                       /\ sessions' = [sessions EXCEPT ![s] = [user |-> u, open |-> TRUE, password |-> users[u].password]]
  BY DEF IssueSession
<1> HIDE DEF ok, no, none
<1>5. users' = [users EXCEPT ![u] = Entered(u, ok, none, no, users[u].password)]
  <2>1. users'[u] = Entered(u, ok, none, no, users[u].password)
    BY <1>1, <1>3 DEF Entered, UserRow
  <2>2. users' = [users EXCEPT ![u] = users'[u]]
    BY <1>1, <1>3
  <2>3. QED
    BY <2>1, <2>2
<1>6. ASSUME NEW r, r.status = ok, r.password = users[u].password PROVE KeepsSessions(u, r)
  <2>1. sessions \in [Sid -> SessionRow] /\ request \in [Sid -> Identity] /\ request' = request /\ u # Nobody
    BY AccountsAssumption DEF AccountsInv, AccountsTypes, IssueSession
  <2>2. /\ sessions' \in [Sid -> SessionRow] /\ sessions'[s].user = u /\ sessions'[s].password = users[u].password
        /\ \A t \in Sid \ {s} : sessions'[t] = sessions[t]
    BY <1>3, <1>4, <2>1 DEF SessionRow
  <2>3. \A t \in Sid : /\ sessions[t].open => sessions[t].user # Nobody
                       /\ sessions[t].user # Nobody => SessionFits(sessions[t], users[sessions[t].user])
                       /\ request[t].user \in {Nobody, sessions[t].user}
    BY DEF AccountsInv, SessionsFit
  <2>4. request[s].user = Nobody
    BY <1>4, <2>3
  <2>5. ASSUME NEW t \in Sid
        PROVE  /\ sessions'[t].open => sessions'[t].user # Nobody
               /\ sessions'[t].user \notin {u, Nobody} => sessions'[t] = sessions[t]
               /\ sessions'[t].user = u => SessionFits(sessions'[t], r)
               /\ request'[t].user \in {Nobody, sessions'[t].user}
    <3>1. CASE t = s
      BY <1>2, <1>6, <2>1, <2>2, <2>4, <3>1 DEF SessionFits
    <3>2. CASE t # s
      BY <1>2, <1>6, <2>1, <2>2, <2>3, <3>2 DEF SessionFits
    <3>3. QED
      BY <3>1, <3>2
  <2>6. QED
    BY <2>1, <2>2, <2>5 DEF KeepsSessions
<1>7. UNCHANGED <<assigned, manager, roles, accountEdits, guesses>>
  BY DEF IssueSession
<1>8. QED
  BY <1>2, <1>3, <1>5, <1>6, <1>7, Counters, EnterStep

LEMMA WrongPasswordStep == ASSUME AccountsInv, NEW u \in User, WrongPassword(u) PROVE AccountsInv'
<1> DEFINE failed == (IF users[u].status = "LOCKED" THEN 0 ELSE users[u].failed) + 1
           locks == failed >= MaxAttempts
           status == IF locks THEN "LOCKED" ELSE "ACTIVE"
<1>1. users' = [users EXCEPT ![u].failed = failed, ![u].locked = locks, ![u].status = status]
  BY DEF WrongPassword
<1>2. status \in {"ACTIVE", "LOCKED", "DISABLED"} /\ status # "DISABLED" /\ locks \in BOOLEAN
  OBVIOUS
<1>3. failed \in Nat /\ failed <= guesses + 1 /\ guesses' = guesses + 1 /\ guesses < MaxGuesses
  BY Counters DEF WrongPassword
<1>4. users[u].live /\ users[u] \in UserRow /\ users \in [User -> UserRow] /\ users[u].password \in Nat /\ u # Nobody
      /\ users[u].status # "DISABLED"
  BY AccountsAssumption DEF WrongPassword, MayLogin, AccountsInv, AccountsTypes, UserRow
<1> HIDE DEF failed, locks, status
<1>5. users' = [users EXCEPT ![u] = Entered(u, status, failed, locks, users[u].password)]
  <2>1. users'[u] = Entered(u, status, failed, locks, users[u].password)
    BY <1>1, <1>4 DEF Entered, UserRow
  <2>2. users' = [users EXCEPT ![u] = users'[u]]
    BY <1>1, <1>4
  <2>3. QED
    BY <2>1, <2>2
<1>6. UNCHANGED <<assigned, manager, roles, sessions, request, accountEdits>>
  BY DEF WrongPassword
<1>7. ASSUME NEW r, r.status = status, r.password = users[u].password PROVE KeepsSessions(u, r)
  BY <1>2, <1>4, <1>6, <1>7, SameSessions DEF AccountsInv, SessionsFit, SessionFits
<1>8. QED
  BY <1>2, <1>3, <1>4, <1>5, <1>6, <1>7, Counters, EnterStep

LEMMA LockRunsOutStep == ASSUME AccountsInv, NEW u \in User, LockRunsOut(u) PROVE AccountsInv'
<1> DEFINE no == FALSE
           status == users[u].status
           failed == users[u].failed
           password == users[u].password
<1>1. users' = [users EXCEPT ![u].locked = no] /\ UNCHANGED <<assigned, manager, roles, sessions, request, accountEdits, guesses>>
  BY DEF LockRunsOut
<1>2. /\ users \in [User -> UserRow] /\ users[u] \in UserRow /\ no \in BOOLEAN /\ u # Nobody
      /\ users[u].live \/ status = "DISABLED"
  BY AccountsAssumption DEF AccountsInv, AccountsTypes, RowFits
<1>3. password \in Nat /\ failed \in Nat /\ failed <= guesses /\ status \in {"ACTIVE", "LOCKED", "DISABLED"}
  BY <1>2, Counters DEF UserRow
<1> HIDE DEF no
<1>4. users' = [users EXCEPT ![u] = Entered(u, status, failed, no, password)]
  <2>1. users'[u] = Entered(u, status, failed, no, password)
    BY <1>1, <1>2 DEF Entered, UserRow
  <2>2. users' = [users EXCEPT ![u] = users'[u]]
    BY <1>1, <1>2
  <2>3. QED
    BY <2>1, <2>2
<1>5. ASSUME NEW r, r.status = status, r.password = password PROVE KeepsSessions(u, r)
  BY <1>1, <1>2, <1>5, SameSessions DEF AccountsInv, SessionsFit, SessionFits
<1>6. /\ guesses' \in 0..MaxGuesses /\ guesses' >= guesses /\ accountEdits' \in 0..MaxAccountEdits
      /\ failed <= guesses' /\ UNCHANGED <<assigned, manager, roles>>
  BY <1>1, <1>3, Counters
<1>7. users[u].live \/ status = "DISABLED"
  BY <1>2
<1> HIDE DEF status, failed, password
<1>8. QED
  BY <1>2, <1>3, <1>4, <1>5, <1>6, <1>7, EnterStep

\* The switch, the unlocking and the passwords: the count of failures starts anew, and the
\* account's sessions end where the account is disabled or the password is another.
LEMMA ClearStep ==
  ASSUME AccountsInv, NEW u \in User, NEW status \in {"ACTIVE", "LOCKED", "DISABLED"}, NEW password \in Nat,
         users[u].live, users' = [users EXCEPT ![u] = Entered(u, status, 0, FALSE, password)],
         UNCHANGED <<assigned, manager, roles, guesses>>, NEW s \in Sid, Answered(s),
         accountEdits' = accountEdits + 1, accountEdits < MaxAccountEdits,
         \/ sessions' = sessions /\ password = users[u].password /\ status # "DISABLED"
         \/ sessions' = Revoked(u)
  PROVE  AccountsInv'
<1> DEFINE no == FALSE
           none == 0
<1>1. users' = [users EXCEPT ![u] = Entered(u, status, none, no, password)]
  OBVIOUS
<1>2. no \in BOOLEAN /\ none \in Nat /\ none <= guesses /\ u # Nobody
  BY Counters, AccountsAssumption
<1> HIDE DEF no, none
<1>3. ASSUME NEW r, r.status = status, r.password = password PROVE KeepsSessions(u, r)
  <2>1. CASE sessions' = sessions /\ password = users[u].password /\ status # "DISABLED"
    BY <1>2, <1>3, <2>1, SameSessions DEF AccountsInv, SessionsFit, SessionFits
  <2>2. CASE sessions' = Revoked(u)
    BY <2>2, SameSessions
  <2>3. QED
    BY <2>1, <2>2
<1>4. QED
  BY <1>1, <1>2, <1>3, Counters, EnterStep

LEMMA ChangePasswordStep == ASSUME AccountsInv, NEW s \in Sid, ChangePassword(s) PROVE AccountsInv'
<1> DEFINE u == request[s].user
           no == FALSE
           none == 0
           next == users[u].password + 1
           status == users[u].status
<1>1. users' = [users EXCEPT ![u].password = next, ![u].failed = none, ![u].locked = no]
  BY DEF ChangePassword
<1>2. u \in User /\ users \in [User -> UserRow] /\ users[u] \in UserRow /\ status = "ACTIVE"
  BY DEF ChangePassword, AccountsInv, AccountsTypes, Identity
<1>3. next \in Nat /\ no \in BOOLEAN /\ none \in Nat /\ users[u].live /\ status \in {"ACTIVE", "LOCKED", "DISABLED"}
  BY <1>2 DEF UserRow, AccountsInv, RowFits
<1>4. users' = [users EXCEPT ![u] = Entered(u, status, 0, FALSE, next)]
  <2> HIDE DEF u, no, none, next
  <2>1. users'[u] = Entered(u, status, none, no, next)
    BY <1>1, <1>2, <1>3 DEF Entered, UserRow
  <2>2. users' = [users EXCEPT ![u] = users'[u]]
    BY <1>1, <1>2
  <2>3. QED
    BY <2>1, <2>2 DEF no, none
<1>5. sessions' = Revoked(u) /\ Answered(s) /\ UNCHANGED <<assigned, manager, roles, guesses>>
      /\ accountEdits' = accountEdits + 1 /\ accountEdits < MaxAccountEdits
  BY DEF ChangePassword
<1> HIDE DEF u, next, status
<1>6. QED
  BY <1>2, <1>3, <1>4, <1>5, ClearStep

LEMMA SwitchStep ==
  ASSUME AccountsInv, NEW s \in Sid, NEW u \in User, NEW to \in {"ACTIVE", "DISABLED"},
         Unlock(s, u) \/ ResetPassword(s, u) \/ SetUserStatus(s, u, to)
  PROVE  AccountsInv'
<1> DEFINE no == FALSE
           none == 0
           next == users[u].password + 1
<1>1. /\ users \in [User -> UserRow] /\ users[u] \in UserRow /\ users[u].live
      /\ Answered(s) /\ accountEdits' = accountEdits + 1 /\ accountEdits < MaxAccountEdits
      /\ UNCHANGED <<assigned, manager, roles, guesses>>
  BY DEF AccountsInv, AccountsTypes, Unlock, ResetPassword, SetUserStatus, Administers
<1>2. next \in Nat /\ users[u].password \in Nat /\ users[u].status \in {"ACTIVE", "LOCKED", "DISABLED"}
  BY <1>1 DEF UserRow
<1>3. CASE Unlock(s, u) \/ SetUserStatus(s, u, to)
  <2>1. PICK status \in {"ACTIVE", "DISABLED"} :
          /\ users' = [users EXCEPT ![u].status = status, ![u].failed = none, ![u].locked = no]
          /\ sessions' = IF status = "DISABLED" THEN Revoked(u) ELSE sessions
    BY <1>3 DEF Unlock, SetUserStatus
  <2>2. users' = [users EXCEPT ![u] = Entered(u, status, 0, FALSE, users[u].password)]
    <3> HIDE DEF no, none
    <3>1. users'[u] = Entered(u, status, none, no, users[u].password)
      BY <1>1, <2>1 DEF Entered, UserRow
    <3>2. users' = [users EXCEPT ![u] = users'[u]]
      BY <1>1, <2>1
    <3>3. QED
      BY <3>1, <3>2 DEF no, none
  <2>3. status \in {"ACTIVE", "LOCKED", "DISABLED"}
    OBVIOUS
  <2>4. QED
    BY <1>1, <1>2, <2>1, <2>2, <2>3, ClearStep
<1>4. CASE ResetPassword(s, u)
  <2> DEFINE status == IF users[u].status = "DISABLED" THEN "DISABLED" ELSE "ACTIVE"
  <2>1. /\ users' = [users EXCEPT ![u].password = next, ![u].failed = none, ![u].locked = no, ![u].status = status]
        /\ sessions' = Revoked(u)
    BY <1>4 DEF ResetPassword
  <2>2. status \in {"ACTIVE", "LOCKED", "DISABLED"}
    OBVIOUS
  <2> HIDE DEF next, status
  <2>3. users' = [users EXCEPT ![u] = Entered(u, status, 0, FALSE, next)]
    <3> HIDE DEF no, none
    <3>1. users'[u] = Entered(u, status, none, no, next)
      BY <1>1, <2>1 DEF Entered, UserRow
    <3>2. users' = [users EXCEPT ![u] = users'[u]]
      BY <1>1, <2>1
    <3>3. QED
      BY <3>1, <3>2 DEF no, none
  <2>4. QED
    BY <1>1, <1>2, <2>1, <2>2, <2>3, ClearStep
<1>5. QED
  BY <1>3, <1>4

\* The administrator's own request, and that the account administered may be his.
LEMMA AdministersMeans ==
  ASSUME AccountsInv, NEW s \in Sid, Administers(s)
  PROVE  /\ Answered(s) /\ guesses' = guesses /\ accountEdits' = accountEdits + 1 /\ accountEdits < MaxAccountEdits
         /\ accountEdits' \in 0..MaxAccountEdits
  BY Counters DEF Administers

LEMMA BoundStep ==
  ASSUME AccountsInv, NEW u \in User, NEW owned \in SUBSET Project, NEW role, Bindable(u, owned),
         owned # {} => role = "PROJECT_MANAGER", manager' = Bound(u, owned)
  PROVE  /\ manager' \in [Project -> User \cup {Nobody}]
         /\ \A p \in Project : manager'[p] \notin {u, Nobody} => manager'[p] = manager[p]
         /\ \A p \in Project : manager'[p] = u => role = "PROJECT_MANAGER"
<1>1. manager \in [Project -> User \cup {Nobody}] /\ Nobody \notin User
  BY AccountsAssumption DEF AccountsInv, AccountsTypes
<1>2. \A p \in Project : manager'[p] = IF p \in owned THEN u ELSE IF manager[p] = u THEN Nobody ELSE manager[p]
  BY DEF Bound
<1>3. manager' = [p \in Project |-> manager'[p]]
  BY DEF Bound
<1>4. QED
  BY <1>1, <1>2, <1>3

\* A form writes the whole of an account.
LEMMA FormWrites ==
  ASSUME AccountsInv, NEW s \in Sid, NEW u \in User, NEW form0 \in Form, Administers(s), Assignable(u, form0),
         NEW r \in UserRow, users' = [users EXCEPT ![u] = r], r.failed <= guesses, r.live,
         r.role = form0.role, r.scope = form0.scope,
         assigned' = [assigned EXCEPT ![u] = form0.projects], manager' = Bound(u, form0.owned), roles' = roles,
         \/ sessions' = sessions /\ \A t \in Sid : sessions[t].user = u => SessionFits(sessions[t], r)
         \/ sessions' = Revoked(u)
  PROVE  AccountsInv'
<1>1. /\ form0.role \in RoleCode /\ form0.scope \in Scope
      /\ form0.projects \in SUBSET Project /\ form0.owned \in SUBSET Project
  BY AccountsAssumption
<1>2. WritesUser(u, r)
  BY AdministersMeans, Counters DEF WritesUser
<1>3. /\ assigned \in [User -> SUBSET Project] /\ assigned'[u] = form0.projects
      /\ assigned' = [assigned EXCEPT ![u] = assigned'[u]]
  BY DEF AccountsInv, AccountsTypes
<1>4. RightsFit(r, assigned'[u])
  BY <1>1, <1>3 DEF RightsFit, Assignable
<1>5. KeepsProjects(u, r)
  BY <1>1, <1>3, <1>4, BoundStep DEF KeepsProjects, Assignable
<1>6. KeepsSessions(u, r)
  BY AdministersMeans, SameSessions
<1>7. QED
  BY <1>2, <1>5, <1>6, WriteUserStep

LEMMA CreateUserStep ==
  ASSUME AccountsInv, NEW s \in Sid, NEW u \in User, NEW form0 \in Form, CreateUser(s, u, form0)
  PROVE  AccountsInv'
<1> DEFINE status == IF form0.enabled THEN "ACTIVE" ELSE "DISABLED"
           role == form0.role
           scope == form0.scope
           r == [live |-> TRUE, status |-> status, failed |-> 0, locked |-> FALSE, password |-> 1,
                 role |-> role, scope |-> scope]
<1>1. role \in RoleName /\ scope \in Scope /\ form0.enabled \in BOOLEAN
  BY AccountsAssumption DEF RoleName
<1>2. status \in {"ACTIVE", "LOCKED", "DISABLED"}
  OBVIOUS
<1>3. users' = [users EXCEPT ![u] = r]
  <2> DEFINE yes == TRUE
             no == FALSE
             new == [NoUser EXCEPT !.live = yes, !.status = status, !.password = 1, !.role = role, !.scope = scope]
  <2>1. users' = [users EXCEPT ![u] = new]
    BY DEF CreateUser, NoUser
  <2>2. ASSUME NEW row, row = new
        PROVE  row = [live |-> yes, status |-> status, failed |-> 0, locked |-> no, password |-> 1,
                      role |-> role, scope |-> scope]
    <3>1. NoUser = [live |-> FALSE, status |-> "DISABLED", failed |-> 0, locked |-> no, password |-> 0,
                    role |-> "NONE", scope |-> "NONE"]
      BY DEF NoUser
    <3> HIDE DEF yes, no, status, role, scope
    <3>2. QED
      BY <2>2, <3>1
  <2>3. QED
    BY <2>1, <2>2
<1> HIDE DEF status, role, scope
<1>4. r \in UserRow /\ r.failed <= guesses /\ r.live /\ r.role = role /\ r.scope = scope
  BY <1>1, <1>2, Counters DEF UserRow
<1>5. ASSUME NEW t \in Sid, sessions[t].user = u PROVE SessionFits(sessions[t], r)
  <2>1. users[u].status = "DISABLED" /\ u # Nobody
    BY AccountsAssumption DEF CreateUser, AccountsInv, RowFits
  <2>2. ~sessions[t].open
    BY <1>5, <2>1 DEF AccountsInv, SessionsFit, SessionFits
  <2>3. QED
    BY <2>2 DEF SessionFits
<1> HIDE DEF r
<1>6. /\ Administers(s) /\ Assignable(u, form0) /\ roles' = roles /\ sessions' = sessions
      /\ assigned' = [assigned EXCEPT ![u] = form0.projects] /\ manager' = Bound(u, form0.owned)
  BY DEF CreateUser
<1>7. r.role = form0.role /\ r.scope = form0.scope
  BY <1>4 DEF role, scope
<1>8. QED
  BY <1>3, <1>4, <1>5, <1>6, <1>7, FormWrites

LEMMA UpdateUserStep ==
  ASSUME AccountsInv, NEW s \in Sid, NEW u \in User, NEW form0 \in Form, UpdateUser(s, u, form0)
  PROVE  AccountsInv'
<1> DEFINE old == users[u]
           status == IF form0.enabled THEN "ACTIVE" ELSE "DISABLED"
           failed == IF form0.enabled THEN users[u].failed ELSE 0
           locked == users[u].locked /\ form0.enabled
           role == form0.role
           scope == form0.scope
           r == [live |-> old.live, status |-> status, failed |-> failed, locked |-> locked, password |-> old.password,
                 role |-> role, scope |-> scope]
<1>1. role \in RoleName /\ scope \in Scope /\ form0.enabled \in BOOLEAN
  BY AccountsAssumption DEF RoleName
<1>2. old \in UserRow /\ users \in [User -> UserRow] /\ old.live /\ u # Nobody
  BY AccountsAssumption DEF AccountsInv, AccountsTypes, UpdateUser
<1>3. status \in {"ACTIVE", "LOCKED", "DISABLED"} /\ failed \in Nat /\ failed <= guesses /\ locked \in BOOLEAN
  BY Counters
<1>4. users' = [users EXCEPT ![u].status = status, ![u].failed = failed, ![u].locked = locked,
                             ![u].role = role, ![u].scope = scope]
  BY DEF UpdateUser
<1> HIDE DEF status, failed, locked, role, scope
<1>5. users' = [users EXCEPT ![u] = r]
  <2>1. users'[u] = r
    BY <1>2, <1>4 DEF UserRow
  <2>2. users' = [users EXCEPT ![u] = users'[u]]
    BY <1>2, <1>4
  <2>3. QED
    BY <2>1, <2>2
<1>6. r \in UserRow /\ r.failed <= guesses /\ r.live /\ r.role = role /\ r.scope = scope
  BY <1>1, <1>2, <1>3 DEF UserRow
<1>7. r.status = status /\ r.password = users[u].password
  OBVIOUS
<1> HIDE DEF r, old
<1>8. /\ Administers(s) /\ Assignable(u, form0) /\ roles' = roles
      /\ assigned' = [assigned EXCEPT ![u] = form0.projects] /\ manager' = Bound(u, form0.owned)
  BY DEF UpdateUser
<1>9. \/ sessions' = sessions /\ \A t \in Sid : sessions[t].user = u => SessionFits(sessions[t], r)
      \/ sessions' = Revoked(u)
  <2>1. CASE form0.enabled
    <3>1. sessions' = sessions /\ status = "ACTIVE"
      BY <2>1 DEF UpdateUser, EndedBy, status
    <3>2. QED
      BY <1>2, <1>7, <3>1 DEF AccountsInv, SessionsFit, SessionFits
  <2>2. CASE ~form0.enabled
    BY <2>2 DEF UpdateUser, EndedBy
  <2>3. QED
    BY <2>1, <2>2
<1>10. r.role = form0.role /\ r.scope = form0.scope
  BY <1>6 DEF role, scope
<1>11. QED
  BY <1>5, <1>6, <1>8, <1>9, <1>10, FormWrites

LEMMA SetProjectScopesStep ==
  ASSUME AccountsInv, NEW s \in Sid, NEW u \in User, NEW scope \in Scope, NEW projects \in SUBSET Project,
         SetProjectScopes(s, u, scope, projects)
  PROVE  AccountsInv'
<1> DEFINE old == users[u]
           r == [live |-> old.live, status |-> old.status, failed |-> old.failed, locked |-> old.locked,
                 password |-> old.password, role |-> old.role, scope |-> scope]
<1>1. /\ users' = [users EXCEPT ![u].scope = scope] /\ assigned' = [assigned EXCEPT ![u] = projects]
      /\ UNCHANGED <<manager, roles, sessions>> /\ Administers(s) /\ old.live
      /\ scope \in AllowedScopes(old.role) /\ ScopesFit(scope, projects)
  BY DEF SetProjectScopes
<1>2. /\ users \in [User -> UserRow] /\ old \in UserRow /\ u # Nobody /\ RightsFit(old, assigned[u])
      /\ assigned \in [User -> SUBSET Project] /\ manager \in [Project -> User \cup {Nobody}] /\ Nobody \notin User
  BY <1>1, AccountsAssumption DEF AccountsInv, AccountsTypes
<1>3. users' = [users EXCEPT ![u] = r]
  <2>1. users'[u] = r
    BY <1>1, <1>2 DEF UserRow
  <2>2. users' = [users EXCEPT ![u] = users'[u]]
    BY <1>1, <1>2
  <2>3. QED
    BY <2>1, <2>2
<1>4. /\ r \in UserRow /\ r.failed = old.failed /\ r.live /\ r.role = old.role /\ r.scope = scope
      /\ r.status = old.status /\ r.password = old.password
  BY <1>1, <1>2 DEF UserRow
<1> HIDE DEF r
<1>5. WritesUser(u, r)
  BY <1>1, <1>3, <1>4, AdministersMeans, Counters DEF WritesUser
<1>6. KeepsProjects(u, r)
  <2>1. RightsFit(r, projects)
    BY <1>1, <1>2, <1>4 DEF RightsFit
  <2>2. \A p \in Project : manager[p] = u => r.role = "PROJECT_MANAGER"
    BY <1>2, <1>4 DEF AccountsInv, OwnersAreManagers
  <2>3. assigned'[u] = projects /\ assigned' = [assigned EXCEPT ![u] = assigned'[u]]
    BY <1>1, <1>2
  <2>4. QED
    BY <1>1, <1>2, <2>1, <2>2, <2>3 DEF KeepsProjects
<1>7. KeepsSessions(u, r)
  <2>1. \A t \in Sid : sessions[t].user = u => SessionFits(sessions[t], r)
    BY <1>2, <1>4 DEF AccountsInv, SessionsFit, SessionFits
  <2>2. QED
    BY <1>1, <2>1, AdministersMeans, SameSessions
<1>8. QED
  BY <1>4, <1>5, <1>6, <1>7, WriteUserStep

\* Steps on sessions and requests alone, where no session is opened.
LEMMA RequestStep ==
  ASSUME AccountsInv, UNCHANGED <<users, assigned, manager, roles, accountEdits, guesses>>, NEW s \in Sid,
         sessions' = sessions \/ sessions' = [sessions EXCEPT ![s].open = FALSE],
         \/ request' = request \/ Answered(s)
         \/ Live(s) /\ request' = [request EXCEPT ![s] = AccessOf(sessions[s].user)]
  PROVE  AccountsInv'
<1>1. sessions \in [Sid -> SessionRow] /\ request \in [Sid -> Identity]
  BY DEF AccountsInv, AccountsTypes
<1>2. /\ sessions' \in [Sid -> SessionRow]
      /\ \A t \in Sid : /\ sessions'[t].user = sessions[t].user /\ sessions'[t].password = sessions[t].password
                        /\ sessions'[t].open => sessions[t].open
  <2> DEFINE no == FALSE
  <2>1. sessions' = sessions \/ sessions' = [sessions EXCEPT ![s].open = no]
    OBVIOUS
  <2>2. no \in BOOLEAN /\ ~no
    OBVIOUS
  <2> HIDE DEF no
  <2>3. QED
    BY <1>1, <2>1, <2>2 DEF SessionRow
<1>3. request' \in [Sid -> Identity] /\ \A t \in Sid : request'[t].user \in {Nobody, sessions[t].user}
  <2>1. \A t \in Sid : request[t].user \in {Nobody, sessions[t].user}
    BY DEF AccountsInv, SessionsFit
  <2>2. CASE request' = request
    BY <1>1, <2>1, <2>2
  <2>3. CASE Answered(s)
    <3>1. NoRequest \in Identity /\ NoRequest.user = Nobody
      BY DEF NoRequest, Identity, Scope
    <3>2. QED
      BY <1>1, <2>1, <2>3, <3>1 DEF Answered
  <2>4. CASE Live(s) /\ request' = [request EXCEPT ![s] = AccessOf(sessions[s].user)]
    <3> DEFINE u == sessions[s].user
    <3>1. u \in User
      BY <1>1, <2>4 DEF Live, SessionRow, AccountsInv, SessionsFit
    <3>2. users[u].scope \in Scope /\ \A code \in RoleCode : roles[code].perms \in SUBSET Right
      BY <3>1 DEF AccountsInv, AccountsTypes, UserRow, RoleRow
    <3>3. "NONE" \in Scope
      BY DEF Scope
    <3> HIDE DEF u
    <3>4. AccessOf(u) \in Identity /\ AccessOf(u).user = u
      BY <3>1, <3>2, <3>3 DEF AccessOf, Identity
    <3>5. QED
      BY <1>1, <2>1, <2>4, <3>4 DEF u
  <2>5. QED
    BY <2>2, <2>3, <2>4
<1>4. AccountsTypes'
  BY <1>2, <1>3 DEF AccountsInv, AccountsTypes
<1>5. SessionsFit'
  BY <1>2, <1>3 DEF AccountsInv, SessionsFit, SessionFits
<1>6. QED
  BY <1>4, <1>5 DEF AccountsInv, RolesFit, OwnersAreManagers, RowFits, RightsFit

\* Steps on one role, which is gone only when no account holds it.
LEMMA RoleStep ==
  ASSUME AccountsInv, UNCHANGED <<users, assigned, manager, sessions, guesses>>, NEW s \in Sid, Administers(s),
         NEW code \in RoleCode, NEW r \in RoleRow, roles' = [roles EXCEPT ![code] = r], RolePolicy(code, r.perms),
         code \in SystemRole => r.live /\ r.enabled,
         r.live \/ \A u \in User : users[u].live => users[u].role # code
  PROVE  AccountsInv'
<1>1. roles \in [RoleCode -> RoleRow] /\ sessions \in [Sid -> SessionRow] /\ request \in [Sid -> Identity]
  BY DEF AccountsInv, AccountsTypes
<1>2. roles' \in [RoleCode -> RoleRow] /\ roles'[code] = r /\ \A c \in RoleCode \ {code} : roles'[c] = roles[c]
  BY <1>1
<1>3. request' \in [Sid -> Identity] /\ \A t \in Sid : request'[t].user \in {Nobody, request[t].user}
  <2>1. NoRequest \in Identity /\ NoRequest.user = Nobody
    BY DEF NoRequest, Identity, Scope
  <2>2. QED
    BY <1>1, <2>1, AdministersMeans DEF Answered
<1>4. AccountsTypes'
  BY <1>2, <1>3, AdministersMeans DEF AccountsInv, AccountsTypes
<1>5. RolesFit'
  BY <1>2 DEF AccountsInv, RolesFit
<1>6. SessionsFit'
  BY <1>3 DEF AccountsInv, SessionsFit
<1>7. \A u \in User : users[u].live => RightsFit(users[u], assigned[u])'
  BY <1>2 DEF AccountsInv, RightsFit
<1>8. QED
  BY <1>4, <1>5, <1>6, <1>7 DEF AccountsInv, OwnersAreManagers, RowFits

LEMMA AccountsStep == ASSUME AccountsInv, [Next]_vars PROVE AccountsInv'
<1>1. CASE AccountsNext
  <2>1. ASSUME NEW u \in User, Login(u) \/ WechatLogin(u) \/ WrongPassword(u) \/ LockRunsOut(u) PROVE AccountsInv'
    BY <2>1, IssueStep, WrongPasswordStep, LockRunsOutStep DEF Login, WechatLogin
  <2>2. ASSUME NEW s \in Sid, SessionRunsOut(s) \/ Authenticate(s) \/ EndRequest(s) \/ Logout(s) PROVE AccountsInv'
    <3>1. CASE SessionRunsOut(s)
      BY <3>1, RequestStep DEF SessionRunsOut
    <3>2. CASE Authenticate(s)
      BY <3>2, RequestStep DEF Authenticate
    <3>3. CASE EndRequest(s)
      BY <3>3, RequestStep DEF EndRequest
    <3>4. CASE Logout(s)
      BY <3>4, RequestStep DEF Logout
    <3>5. QED
      BY <2>2, <3>1, <3>2, <3>3, <3>4
  <2>3. ASSUME NEW s \in Sid, ChangePassword(s) PROVE AccountsInv'
    BY <2>3, ChangePasswordStep
  <2>4. ASSUME NEW s \in Sid, NEW u \in User, NEW status \in {"ACTIVE", "DISABLED"},
               Unlock(s, u) \/ ResetPassword(s, u) \/ SetUserStatus(s, u, status)
        PROVE  AccountsInv'
    BY <2>4, SwitchStep
  <2>5. ASSUME NEW s \in Sid, NEW u \in User, NEW form0 \in Form, CreateUser(s, u, form0) \/ UpdateUser(s, u, form0)
        PROVE  AccountsInv'
    BY <2>5, CreateUserStep, UpdateUserStep
  <2>6. ASSUME NEW s \in Sid, NEW u \in User, NEW scope \in Scope, NEW projects \in SUBSET Project,
               SetProjectScopes(s, u, scope, projects)
        PROVE  AccountsInv'
    BY <2>6, SetProjectScopesStep
  <2>7. ASSUME NEW s \in Sid, NEW code \in RoleCode, NEW perms \in Grant, NEW enabled \in BOOLEAN,
               CreateRole(s, code, perms) \/ RemoveRole(s, code) \/ UpdateRole(s, code, perms, enabled)
        PROVE  AccountsInv'
    <3> DEFINE old == roles[code]
               yes == TRUE
               no == FALSE
    <3>1. /\ roles \in [RoleCode -> RoleRow] /\ old \in RoleRow /\ perms \in SUBSET Right
          /\ RolePolicy(code, old.perms) /\ (code \in SystemRole => old.live /\ old.enabled)
      BY AccountsAssumption DEF AccountsInv, AccountsTypes, RolesFit, Right
    <3>2. /\ Administers(s) /\ UNCHANGED <<users, assigned, manager, sessions, guesses>>
      BY <2>7 DEF CreateRole, RemoveRole, UpdateRole, Administers
    <3>3. yes \in BOOLEAN /\ yes /\ no \in BOOLEAN /\ ~no /\ old.enabled \in BOOLEAN /\ old.live \in BOOLEAN
          /\ old.perms \in SUBSET Right
      BY <3>1 DEF RoleRow
    <3>4. CASE CreateRole(s, code, perms)
      <4> DEFINE r == [live |-> yes, enabled |-> yes, perms |-> perms]
      <4>1. roles' = [roles EXCEPT ![code] = r] /\ RolePolicy(code, perms)
        BY <3>4 DEF CreateRole
      <4> HIDE DEF yes
      <4>2. r \in RoleRow /\ r.live /\ r.enabled /\ r.perms = perms
        BY <3>1, <3>3 DEF RoleRow
      <4> HIDE DEF r
      <4>3. QED
        BY <3>2, <4>1, <4>2, RoleStep
    <3>5. CASE RemoveRole(s, code)
      <4> DEFINE r == [live |-> no, enabled |-> old.enabled, perms |-> old.perms]
      <4>1. roles' = [roles EXCEPT ![code].live = no] /\ code \notin SystemRole /\ \A u \in User : users[u].live => users[u].role # code
        BY <3>5 DEF RemoveRole
      <4> HIDE DEF no
      <4>2. roles' = [roles EXCEPT ![code] = r]
        <5>1. roles'[code] = r
          BY <3>1, <4>1 DEF RoleRow
        <5>2. roles' = [roles EXCEPT ![code] = roles'[code]]
          BY <3>1, <4>1
        <5>3. QED
          BY <5>1, <5>2
      <4>3. r \in RoleRow /\ r.perms = old.perms
        BY <3>3 DEF RoleRow
      <4> HIDE DEF r
      <4>4. QED
        BY <3>1, <3>2, <4>1, <4>2, <4>3, RoleStep
    <3>6. CASE UpdateRole(s, code, perms, enabled)
      <4> DEFINE r == [live |-> old.live, enabled |-> enabled, perms |-> perms]
      <4>1. /\ roles' = [roles EXCEPT ![code].perms = perms, ![code].enabled = enabled] /\ old.live
            /\ code \in SystemRole => enabled
            /\ RolePolicy(code, perms)
        BY <3>6 DEF UpdateRole
      <4>2. roles' = [roles EXCEPT ![code] = r]
        <5>1. roles'[code] = r
          BY <3>1, <4>1 DEF RoleRow
        <5>2. roles' = [roles EXCEPT ![code] = roles'[code]]
          BY <3>1, <4>1
        <5>3. QED
          BY <5>1, <5>2
      <4>3. r \in RoleRow /\ r.perms = perms /\ r.live = old.live /\ r.enabled = enabled
        BY <3>1, <3>3 DEF RoleRow
      <4> HIDE DEF r
      <4>4. QED
        BY <3>1, <3>2, <4>1, <4>2, <4>3, RoleStep
    <3>7. QED
      BY <2>7, <3>4, <3>5, <3>6
  <2>8. CASE \E u \in User : Login(u) \/ WechatLogin(u) \/ WrongPassword(u) \/ LockRunsOut(u)
    BY <2>1, <2>8
  <2>9. CASE \E s \in Sid : SessionRunsOut(s) \/ Authenticate(s) \/ EndRequest(s) \/ ChangePassword(s) \/ Logout(s)
    BY <2>2, <2>3, <2>9
  <2>10. CASE \E s \in Sid, u \in User : Unlock(s, u) \/ ResetPassword(s, u)
    BY <2>4, <2>10
  <2>11. CASE \E s \in Sid, u \in User, status \in {"ACTIVE", "DISABLED"} : SetUserStatus(s, u, status)
    BY <2>4, <2>11
  <2>12. CASE \E s \in Sid, code \in RoleCode, perms \in Grant : CreateRole(s, code, perms) \/ RemoveRole(s, code)
    BY <2>7, <2>12
  <2>13. CASE \E s \in Sid, code \in RoleCode, perms \in Grant, enabled \in BOOLEAN : UpdateRole(s, code, perms, enabled)
    BY <2>7, <2>13
  <2>14. QED
    BY <1>1, <2>5, <2>6, <2>8, <2>9, <2>10, <2>11, <2>12, <2>13 DEF AccountsNext
<1>2. UNCHANGED accountsVars => AccountsInv'
  BY DEF accountsVars, AccountsInv, AccountsTypes, RolesFit, SessionsFit, OwnersAreManagers, RowFits, RightsFit
<1>3. CASE UNCHANGED accountsVars
  BY <1>2, <1>3
<1>4. CASE UNCHANGED vars
  BY <1>2, <1>4 DEF vars, accountsVars
<1>5. QED
  BY <1>1, <1>3, <1>4 DEF Next

\* Accounts, sessions, roles and projects fit together: no disabled account and no old password
\* has a session, projects have managers who are managers, an account's scope is one of its role
\* and shows its projects, and the right to administer is the system administrators' alone.
THEOREM AccountsFit == Spec => []AccountsHold
<1>1. AccountsInv /\ [Next]_vars => AccountsInv'
  BY AccountsStep
<1>2. QED
  BY <1>1, AccountsInvInit, AccountsInvHolds, PTL DEF Spec
-----------------------------------------------------------------------------
(* The connection of a service.                                             *)

ServiceRow == [live : BOOLEAN, connection : Connection \union {CHOOSE c \in Connection : TRUE}, key : Nat,
               enabled : BOOLEAN, health : Health, default : BOOLEAN]

\* The row a transaction has locked keeps its connection and its key until it is written.
ServiceInv ==
    /\ services \in [Service -> ServiceRow]
    /\ moving = [e \in Editor |-> moving[e]]
    /\ \A e \in Editor : moving[e].kind = "service" =>
         /\ moving[e].id \in Service /\ moving[e].row \in ServiceRow
         /\ services[moving[e].id].live =>
              /\ moving[e].row.connection = services[moving[e].id].connection
              /\ moving[e].row.key = services[moving[e].id].key
    /\ \A e, f \in Editor : moving[e].kind = "service" /\ moving[f].kind = "service" /\ moving[e].id = moving[f].id
         => e = f

Untests ==
    \A s \in Service :
       services[s].live /\ <<services'[s].connection, services'[s].key>> # <<services[s].connection, services[s].key>>
          => services'[s].health = "UNTESTED"

LEMMA ServiceInit == Init => ServiceInv
<1> SUFFICES ASSUME Init PROVE ServiceInv
  OBVIOUS
<1>1. services \in [Service -> ServiceRow]
  BY DEF Init, ProvidersInit, ServiceRow, Health
<1>2. moving = [e \in Editor |-> Idle]
  BY DEF Init, ProvidersInit
<1>3. \A e \in Editor : moving[e].kind # "service"
  BY <1>2 DEF Idle
<1>4. QED
  BY <1>1, <1>2, <1>3 DEF ServiceInv

\* A row that no transaction has locked is written.
LEMMA EditServiceStep ==
  ASSUME ServiceInv, NEW id \in Service, NEW row \in ServiceRow, ~Locked("service", id),
         services' = [services EXCEPT ![id] = row], UNCHANGED moving,
         row.live => services[id].live,
         <<row.connection, row.key>> # <<services[id].connection, services[id].key>> => row.health = "UNTESTED"
  PROVE  ServiceInv' /\ Untests
<1>1. services' \in [Service -> ServiceRow] /\ services'[id] = row
      /\ \A s \in Service \ {id} : services'[s] = services[s]
  BY DEF ServiceInv
<1>2. \A e \in Editor : moving[e].kind = "service" => moving[e].id # id
  BY DEF Locked
<1>3. ServiceInv'
  BY <1>1, <1>2 DEF ServiceInv
<1>4. Untests
  BY <1>1 DEF Untests
<1>5. QED
  BY <1>3, <1>4

\* A transaction begins on a row that no other has locked.
LEMMA BeginServiceStep ==
  ASSUME ServiceInv, NEW e \in Editor, NEW id \in Service, NEW row \in ServiceRow, NEW seen,
         ~Locked("service", id), UNCHANGED services,
         moving' = [moving EXCEPT ![e] = [kind |-> "service", id |-> id, row |-> row, seen |-> seen]],
         services[id].live => row.connection = services[id].connection /\ row.key = services[id].key
  PROVE  ServiceInv' /\ Untests
<1> DEFINE work == [kind |-> "service", id |-> id, row |-> row, seen |-> seen]
<1>1. work.kind = "service" /\ work.id = id /\ work.row = row
  OBVIOUS
<1>2. moving' = [moving EXCEPT ![e] = work]
  OBVIOUS
<1> HIDE DEF work
<1>3. /\ moving' = [f \in Editor |-> moving'[f]] /\ moving'[e] = work
      /\ \A f \in Editor \ {e} : moving'[f] = moving[f]
  BY <1>2 DEF ServiceInv
<1>4. \A f \in Editor : moving[f].kind = "service" => moving[f].id # id
  BY DEF Locked
<1>5. ServiceInv'
  BY <1>1, <1>3, <1>4 DEF ServiceInv
<1>6. QED
  BY <1>5 DEF Untests

\* A transaction of a service ends, or one of a model begins or ends.
LEMMA OtherMoveStep ==
  ASSUME ServiceInv, NEW e \in Editor, NEW work, work.kind # "service", UNCHANGED services,
         moving' = [moving EXCEPT ![e] = work]
  PROVE  ServiceInv' /\ Untests
<1>1. /\ moving' = [f \in Editor |-> moving'[f]] /\ moving'[e] = work
      /\ \A f \in Editor \ {e} : moving'[f] = moving[f]
  BY DEF ServiceInv
<1>2. ServiceInv'
  BY <1>1 DEF ServiceInv
<1>3. QED
  BY <1>2 DEF Untests

LEMMA EndServiceStep ==
  ASSUME ServiceInv, NEW e \in Editor, EndService(e)
  PROVE  ServiceInv' /\ Untests
<1> DEFINE id == moving[e].id
           row == moving[e].row
           others == moving[e].seen \ {id}
<1>1. moving[e].kind = "service" /\ id \in Service /\ row \in ServiceRow
  BY DEF EndService, ServiceInv
<1>2. /\ services' = [s \in Service |-> CASE s = id -> row
                                          [] s \in others -> [services[s] EXCEPT !.default = FALSE]
                                          [] OTHER -> services[s]]
      /\ moving' = [moving EXCEPT ![e] = Idle]
      /\ services \in [Service -> ServiceRow] /\ id \notin others
  BY DEF EndService, ServiceInv
<1>3. \A f \in Editor : moving[f].kind = "service" => moving[f].id \notin others
  BY DEF EndService, Locked
<1>4. \A f \in Editor \ {e} : moving[f].kind = "service" => moving[f].id # id
  BY <1>1 DEF ServiceInv
<1>5. services[id].live => row.connection = services[id].connection /\ row.key = services[id].key
  BY <1>1 DEF ServiceInv
<1> HIDE DEF id, row, others
<1>6. /\ services'[id] = row
      /\ \A s \in Service : s # id /\ s \notin others => services'[s] = services[s]
      /\ \A s \in others \cap Service : s # id => services'[s] = [services[s] EXCEPT !.default = FALSE]
  <2>1. services'[id] = row
    BY <1>1, <1>2
  <2>2. \A s \in Service : s # id /\ s \notin others => services'[s] = services[s]
    BY <1>2
  <2>3. ASSUME NEW s \in others \cap Service, s # id PROVE services'[s] = [services[s] EXCEPT !.default = FALSE]
    BY <1>2, <2>3
  <2>4. QED
    BY <2>1, <2>2, <2>3
<1>7. \A s \in Service \ {id} : /\ services'[s] \in ServiceRow
                                /\ services'[s].connection = services[s].connection
                                /\ services'[s].key = services[s].key
  <2>1. TAKE s \in Service \ {id}
  <2>2. services[s] \in ServiceRow
    BY <1>2
  <2>3. services'[s] = services[s] \/ services'[s] = [services[s] EXCEPT !.default = FALSE]
    BY <1>6
  <2>4. QED
    BY <2>2, <2>3 DEF ServiceRow
<1>8. services' \in [Service -> ServiceRow]
  <2>1. \A s \in Service : services'[s] \in ServiceRow
    BY <1>1, <1>6, <1>7
  <2>2. services' = [s \in Service |-> services'[s]]
    BY <1>2
  <2>3. QED
    BY <2>1, <2>2
<1>9. Untests
  BY <1>5, <1>6, <1>7 DEF Untests
<1>10. /\ moving' = [f \in Editor |-> moving'[f]] /\ moving'[e].kind # "service"
       /\ \A f \in Editor \ {e} : moving'[f] = moving[f]
  BY <1>2 DEF ServiceInv, Idle
<1>11. \A f \in Editor : moving'[f].kind = "service" =>
          f # e /\ moving'[f] = moving[f] /\ moving[f].id # id /\ services'[moving[f].id] = services[moving[f].id]
  <2>1. ASSUME NEW f \in Editor, moving'[f].kind = "service"
        PROVE  f # e /\ moving'[f] = moving[f] /\ moving[f].id # id /\ services'[moving[f].id] = services[moving[f].id]
    <3>1. f # e /\ moving'[f] = moving[f]
      BY <1>10, <2>1
    <3>2. moving[f].id \in Service /\ moving[f].id # id /\ moving[f].id \notin others
      BY <1>3, <1>4, <2>1, <3>1 DEF ServiceInv
    <3>3. QED
      BY <1>6, <3>1, <3>2
  <2>2. QED
    BY <2>1
<1>12. ServiceInv'
  BY <1>8, <1>10, <1>11 DEF ServiceInv
<1>13. QED
  BY <1>9, <1>12

LEMMA ServiceStep ==
  ASSUME ServiceInv, [Next]_vars
  PROVE  ServiceInv' /\ [Untests]_services
<1>1. CASE ServiceNext
  <2>1. ASSUME NEW s \in Service, NEW c \in Connection, NEW enabled \in BOOLEAN, UpdateService(s, c, enabled)
        PROVE  ServiceInv' /\ Untests
    <3> DEFINE h == IF Untested(services[s].connection, c) THEN "UNTESTED" ELSE services[s].health
               row == [services[s] EXCEPT !.connection = c, !.enabled = enabled, !.health = h]
    <3>1. services[s] \in ServiceRow
      BY DEF ServiceInv
    <3>2. h \in Health /\ (services[s].connection # c => h = "UNTESTED")
      BY <3>1 DEF Untested, Health, ServiceRow
    <3>3. EditService(s, row)
      BY <2>1, <3>1 DEF UpdateService, ServiceRow
    <3> HIDE DEF h
    <3>4. row \in ServiceRow /\ row.live = services[s].live /\ row.connection = c
          /\ row.key = services[s].key /\ row.health = h
      BY <3>1, <3>2 DEF ServiceRow
    <3> HIDE DEF row
    <3>5. QED
      BY <3>2, <3>3, <3>4, EditServiceStep DEF EditService
  <2>2. ASSUME NEW s \in Service, RotateServiceKey(s)
        PROVE  ServiceInv' /\ Untests
    <3> DEFINE k == services[s].key + 1
               h == "UNTESTED"
               row == [services[s] EXCEPT !.key = k, !.health = h]
    <3>1. services[s] \in ServiceRow
      BY DEF ServiceInv
    <3>2. EditService(s, row)
      BY <2>2 DEF RotateServiceKey
    <3>3. k \in Nat /\ h \in Health
      BY <3>1 DEF ServiceRow, Health
    <3> HIDE DEF k, h
    <3>4. row \in ServiceRow /\ row.live = services[s].live /\ row.health = h
      BY <3>1, <3>3 DEF ServiceRow
    <3> HIDE DEF row
    <3>5. QED
      BY <3>2, <3>4, EditServiceStep DEF EditService, h
  <2>3. ASSUME NEW s \in Service, NEW enabled \in BOOLEAN, SetServiceStatus(s, enabled)
        PROVE  ServiceInv' /\ Untests
    <3> DEFINE row == [services[s] EXCEPT !.enabled = enabled]
    <3>1. services[s] \in ServiceRow
      BY DEF ServiceInv
    <3>2. row \in ServiceRow /\ row.live = services[s].live
          /\ row.connection = services[s].connection /\ row.key = services[s].key
      BY <3>1 DEF ServiceRow
    <3>3. EditService(s, row)
      BY <2>3 DEF SetServiceStatus
    <3> HIDE DEF row
    <3>4. QED
      BY <3>2, <3>3, EditServiceStep DEF EditService
  <2>4. ASSUME NEW s \in Service, TestService(s)
        PROVE  ServiceInv' /\ Untests
    <3>1. PICK h \in {"HEALTHY", "FAILED"} : services' = [services EXCEPT ![s].health = h]
      <4>1. PICK c \in Connection : \E answers \in [1..ClientAttempts(c) -> {r.status : r \in Reply}] :
               services' = [services EXCEPT ![s].health =
                   IF ClientOutcome(c, answers) = 200 THEN "HEALTHY" ELSE "FAILED"]
        BY <2>4 DEF TestService
      <4>2. PICK answers : services' = [services EXCEPT ![s].health =
                   IF ClientOutcome(c, answers) = 200 THEN "HEALTHY" ELSE "FAILED"]
        BY <4>1
      <4>3. QED
        BY <4>2
    <3> DEFINE row == [services[s] EXCEPT !.health = h]
    <3>2. services[s] \in ServiceRow /\ h \in Health
      BY DEF ServiceInv, Health
    <3>3. row \in ServiceRow /\ row.live = services[s].live
          /\ row.connection = services[s].connection /\ row.key = services[s].key
      BY <3>2 DEF ServiceRow
    <3>4. services' = [services EXCEPT ![s] = row] /\ UNCHANGED moving /\ ~Locked("service", s)
      BY <2>4, <3>1 DEF TestService
    <3> HIDE DEF row
    <3>5. QED
      BY <3>3, <3>4, EditServiceStep
  <2>5. ASSUME NEW e \in Editor, NEW s \in Service, BeginDefaultService(e, s)
        PROVE  ServiceInv' /\ Untests
    <3> DEFINE row == [services[s] EXCEPT !.default = TRUE]
               found == {t \in Service : services[t].live /\ services[t].default}
    <3>1. services[s] \in ServiceRow
      BY DEF ServiceInv
    <3>2. row \in ServiceRow /\ row.connection = services[s].connection /\ row.key = services[s].key
      BY <3>1 DEF ServiceRow
    <3>3. /\ moving' = [moving EXCEPT ![e] = [kind |-> "service", id |-> s, row |-> row, seen |-> found]]
          /\ ~Locked("service", s) /\ UNCHANGED services
      BY <2>5 DEF BeginDefaultService
    <3> HIDE DEF row, found
    <3>4. QED
      BY <3>2, <3>3, BeginServiceStep
  <2>6. ASSUME NEW e \in Editor, NEW s \in Service, NEW c \in Connection, BeginCreateService(e, s, c)
        PROVE  ServiceInv' /\ Untests
    <3> DEFINE first == \A t \in Service : ~services[t].live
               row == [live |-> TRUE, connection |-> c, key |-> 1, enabled |-> TRUE, health |-> "UNTESTED",
                       default |-> first]
    <3>1. first \in BOOLEAN
      OBVIOUS
    <3>2. /\ moving' = [moving EXCEPT ![e] = [kind |-> "service", id |-> s, row |-> row, seen |-> {}]]
          /\ ~Locked("service", s) /\ UNCHANGED services /\ ~services[s].live
      BY <2>6 DEF BeginCreateService
    <3> HIDE DEF first
    <3>3. row \in ServiceRow
      BY <3>1 DEF ServiceRow, Health
    <3> HIDE DEF row
    <3>4. QED
      BY <3>2, <3>3, BeginServiceStep
  <2>7. QED
    BY <1>1, <2>1, <2>2, <2>3, <2>4, <2>5, <2>6, EndServiceStep DEF ServiceNext
<1>2. CASE ModelNext
  <2>1. ASSUME NEW e \in Editor, NEW m, NEW row, BeginModel(e, m, row) PROVE ServiceInv' /\ Untests
    <3> DEFINE found == IF row.default THEN {n \in Siblings(m) : models[n].default} ELSE {}
               work == [kind |-> "model", id |-> m, row |-> row, seen |-> found]
    <3>1. moving' = [moving EXCEPT ![e] = work] /\ UNCHANGED services
      BY <2>1 DEF BeginModel, ModelsOnly
    <3>2. work.kind # "service"
      OBVIOUS
    <3> HIDE DEF work
    <3>3. QED
      BY <3>1, <3>2, OtherMoveStep
  <2>2. ASSUME NEW e \in Editor, EndModel(e) \/ Abort(e) PROVE ServiceInv' /\ Untests
    <3>1. moving' = [moving EXCEPT ![e] = Idle] /\ UNCHANGED services
      BY <2>2 DEF EndModel, Abort, ModelsOnly
    <3>2. Idle.kind # "service"
      BY DEF Idle
    <3>3. QED
      BY <3>1, <3>2, OtherMoveStep
  <2>3. CASE UNCHANGED <<services, moving>>
    BY <2>3 DEF ServiceInv, Untests
  <2>4. ASSUME NEW a, NEW reply, NEW found, NEW enabled,
               CreateAccount(a) \/ RotateAccountKey(a) \/ DeleteAccount(a) \/ SetAccountStatus(a, enabled)
               \/ DiscoverModels(a, reply, found)
        PROVE  UNCHANGED <<services, moving>>
    BY <2>4 DEF CreateAccount, RotateAccountKey, DeleteAccount, SetAccountStatus, DiscoverModels, EditAccount, ModelsOnly
  <2>5. ASSUME NEW m, NEW reply, NEW enabled,
               DeleteModel(m) \/ SetModelStatus(m, enabled) \/ StartChat \/ CallProvider(reply) \/ TestModel(m, reply)
        PROVE  UNCHANGED <<services, moving>>
    BY <2>5 DEF DeleteModel, SetModelStatus, EditModel, StartChat, CallProvider, TestModel, ModelsOnly
  <2>6. ASSUME NEW e \in Editor, NEW m \in Model, NEW config, NEW enabled, NEW default,
               SaveModel(e, m, config, enabled, default, 100) \/ SetDefaultModel(e, m)
        PROVE  ServiceInv' /\ Untests
    BY <2>1, <2>6 DEF SaveModel, SetDefaultModel
  <2>7. QED
    BY <1>2, <2>2, <2>3, <2>4, <2>5, <2>6 DEF ModelNext
<1>3. CASE UNCHANGED providersVars
  BY <1>3 DEF providersVars, ServiceInv
<1>4. CASE UNCHANGED vars
  BY <1>4 DEF vars, providersVars, ServiceInv
<1>5. QED
  BY <1>1, <1>2, <1>3, <1>4 DEF Next
-----------------------------------------------------------------------------
(* The row a form was opened on.                                            *)

RuleRow == [id : RuleId \union {0}, state : {"none", "live", "deleted"}, version : Nat,
            fields : Draft \union {CHOOSE d \in Draft : TRUE}]

\* A form is at most as new as its row, and shows the row when it has its version.
FormInv ==
    /\ rules \in [RuleId -> RuleRow] /\ form \in [Admin -> RuleRow]
    /\ \A i \in RuleId : rules[i].state # "none" => rules[i].id = i
    /\ \A a \in Admin, i \in RuleId : form[a].id = i =>
         /\ rules[i].state # "none" /\ form[a].version <= rules[i].version
         /\ form[a].version = rules[i].version /\ rules[i].state = "live" => form[a] = rules[i]

Contested == \A i \in RuleId : rules[i].state = "live" /\ rules'[i] # rules[i] => \E a \in Admin : form[a] = rules[i]

LEMMA FormInit == Init => FormInv
<1> SUFFICES ASSUME Init PROVE FormInv
  OBVIOUS
<1>1. NoRow \in RuleRow /\ NoRow.id = 0 /\ NoRow.state = "none"
  BY DEF NoRow, RuleRow
<1>2. rules = [i \in RuleId |-> NoRow] /\ form = [a \in Admin |-> NoRow]
  BY DEF Init, RulesInit
<1>3. 0 \notin RuleId
  BY ScopeRulesAssumption
<1>4. QED
  BY <1>1, <1>2, <1>3 DEF FormInv

\* An edit writes a row of its own: a new one, or a newer version of the one its form shows.
LEMMA EditRuleStep ==
  ASSUME FormInv, NEW p, NEW id \in RuleId, NEW row \in RuleRow, Commit(p, id, row),
         row.id = id, row.state # "none",
         \/ rules[id].state = "none"
         \/ row.version > rules[id].version /\ \E a \in Admin : form[a] = rules[id]
  PROVE  FormInv' /\ Contested
<1>1. form' = form /\ rules' = [rules EXCEPT ![id] = row] /\ rules' \in [RuleId -> RuleRow]
  BY DEF Commit, FormInv
<1>2. rules'[id] = row /\ \A i \in RuleId \ {id} : rules'[i] = rules[i]
  BY <1>1 DEF FormInv
<1>3. ASSUME NEW a \in Admin, form[a].id = id
      PROVE  form[a].version < row.version
  <2>1. rules[id].state # "none" /\ form[a].version <= rules[id].version
    BY <1>3 DEF FormInv
  <2>2. form[a].version \in Nat /\ rules[id].version \in Nat /\ row.version \in Nat
    BY DEF FormInv, RuleRow
  <2>3. QED
    BY <2>1, <2>2
<1>4. \A a \in Admin : form[a].version \in Nat /\ row.version \in Nat
  BY DEF FormInv, RuleRow
<1>5. FormInv'
  BY <1>1, <1>2, <1>3, <1>4 DEF FormInv
<1>6. Contested
  BY <1>2 DEF Contested
<1>7. QED
  BY <1>5, <1>6

LEMMA OpenFormStep ==
  ASSUME FormInv, NEW a \in Admin, NEW id \in RuleId, OpenForm(a, id)
  PROVE  FormInv' /\ Contested
<1>1. form' = [form EXCEPT ![a] = rules[id]] /\ rules' = rules /\ rules[id].state = "live"
  BY DEF OpenForm
<1>2. form' \in [Admin -> RuleRow] /\ form'[a] = rules[id] /\ \A b \in Admin \ {a} : form'[b] = form[b]
  BY <1>1 DEF FormInv
<1>3. rules[id].id = id /\ rules[id].version \in Nat
  BY <1>1 DEF FormInv, RuleRow
<1>4. FormInv'
  BY <1>1, <1>2, <1>3 DEF FormInv
<1>5. QED
  BY <1>1, <1>4 DEF Contested

LEMMA FormStep ==
  ASSUME FormInv, [Next]_vars
  PROVE  FormInv' /\ [Contested]_rulesVars
<1>1. CASE RulesNext
  <2>1. ASSUME NEW p \in Api, NEW id \in RuleId, NEW fields \in Draft, CreateRule(p, id, fields)
        PROVE  FormInv' /\ Contested
    <3> DEFINE row == [id |-> id, state |-> "live", version |-> 1, fields |-> fields]
    <3>1. row \in RuleRow /\ row.id = id /\ row.state # "none"
      BY DEF RuleRow
    <3>2. Commit(p, id, row) /\ rules[id].state = "none"
      BY <2>1 DEF CreateRule
    <3> HIDE DEF row
    <3>3. QED
      BY <3>1, <3>2, EditRuleStep
  <2>2. ASSUME NEW p \in Api, NEW a \in Admin, NEW id \in RuleId, NEW row, Uncontested(a, id), Commit(p, id, row),
               \/ \E fields \in Draft : row = [rules[id] EXCEPT !.fields = fields, !.version = @ + 1]
               \/ row = [rules[id] EXCEPT !.state = "deleted", !.version = @ + 1]
        PROVE  FormInv' /\ Contested
    <3> DEFINE v == rules[id].version + 1
               gone == "deleted"
    <3>1. rules[id] \in RuleRow /\ rules[id].state = "live" /\ rules[id].id = id
      BY <2>2 DEF FormInv, Uncontested
    <3>2. v \in Nat /\ v > rules[id].version
      BY <3>1 DEF RuleRow
    <3>3. gone # "none" /\ gone \in {"none", "live", "deleted"}
      OBVIOUS
    <3>4. \/ \E fields \in Draft : row = [rules[id] EXCEPT !.fields = fields, !.version = v]
          \/ row = [rules[id] EXCEPT !.state = gone, !.version = v]
      BY <2>2
    <3> HIDE DEF v, gone
    <3>5. row \in RuleRow /\ row.id = id /\ row.state # "none" /\ row.version = v
      BY <3>1, <3>2, <3>3, <3>4 DEF RuleRow
    <3>6. form[a] = rules[id]
      BY <2>2 DEF FormInv, Uncontested
    <3>7. QED
      BY <2>2, <3>2, <3>5, <3>6, EditRuleStep
  <2>3. ASSUME NEW p \in Api, NEW a \in Admin, NEW id \in RuleId, NEW fields \in Draft,
               UpdateRule(p, a, id, fields) \/ RemoveRule(p, a, id)
        PROVE  FormInv' /\ Contested
    BY <2>2, <2>3 DEF UpdateRule, RemoveRule
  <2>4. ASSUME NEW p,
               \/ NotifyChanged(p) \/ OnEvent(p) \/ EventLost(p) \/ ReadRules(p) \/ RefreshFails(p)
               \/ Probe(p) \/ RestartProcess(p)
        PROVE  UNCHANGED <<rules, form>>
    BY <2>4 DEF NotifyChanged, OnEvent, EventLost, ReadRules, RefreshFails, Probe, RestartProcess
  <2>5. UNCHANGED <<rules, form>> => FormInv' /\ Contested
    BY DEF FormInv, Contested
  <2>6. QED
    <3>1. CASE \E p \in Api, id \in RuleId, fields \in Draft : CreateRule(p, id, fields)
      BY <2>1, <3>1
    <3>2. CASE \E a \in Admin, id \in RuleId : OpenForm(a, id)
      BY <3>2, OpenFormStep
    <3>3. CASE \E p \in Api, a \in Admin, id \in RuleId, fields \in Draft : UpdateRule(p, a, id, fields) \/ RemoveRule(p, a, id)
      BY <2>3, <3>3
    <3>4. CASE \E p : \/ NotifyChanged(p) \/ OnEvent(p) \/ EventLost(p) \/ ReadRules(p) \/ RefreshFails(p)
                      \/ Probe(p) \/ RestartProcess(p)
      BY <2>4, <2>5, <3>4
    <3>5. CASE \E p \in Api, a \in Admin, id \in RuleId : RemoveRule(p, a, id)
      BY <2>2, <3>5 DEF RemoveRule
    <3>6. QED
      BY <1>1, <3>1, <3>2, <3>3, <3>4, <3>5 DEF RulesNext
<1>2. CASE UNCHANGED rulesVars
  BY <1>2 DEF rulesVars, FormInv
<1>3. CASE UNCHANGED vars
  BY <1>3 DEF vars, rulesVars, FormInv
<1>4. QED
  BY <1>1, <1>2, <1>3 DEF Next
-----------------------------------------------------------------------------
(* The candidates of a chat.                                                *)

ChatStatus == {"none", "calling", "answered", "failed", "exhausted"}
ChatRecord(S) == [status : ChatStatus, candidates : Seq(S), at : Nat, attempt : Nat,
                  calls : Seq([by : S, reply : Reply])]

\* The one in turn is a candidate, and so is whoever was called.
ChatInv ==
    /\ \E S : chat \in ChatRecord(S)
    /\ chat.status = "calling" => chat.at \in DOMAIN chat.candidates
    /\ \A i \in DOMAIN chat.calls : chat.calls[i].by \in ToSet(chat.candidates)

SnapshotKept ==
    chat.status = "calling" => /\ chat'.candidates = chat.candidates
                               /\ \A i \in DOMAIN chat'.calls : chat'.calls[i].by \in ToSet(chat.candidates)

LEMMA ChatInit == Init => ChatInv
<1> SUFFICES ASSUME Init PROVE ChatInv
  OBVIOUS
<1>1. chat = NoChat
  BY DEF Init, ProvidersInit
<1>2. NoChat \in ChatRecord({})
  BY DEF NoChat, ChatRecord, ChatStatus
<1>3. NoChat.status # "calling" /\ NoChat.calls = <<>>
  BY DEF NoChat
<1>4. QED
  BY <1>1, <1>2, <1>3 DEF ChatInv

\* A chat begins with its candidates, and nobody called.
LEMMA StartChatStep ==
  ASSUME ChatInv, StartChat
  PROVE  ChatInv' /\ SnapshotKept
<1>1. CASE Available = {}
  <2> DEFINE st == "failed"
             none == <<>>
  <2>1. chat' = [NoChat EXCEPT !.status = st] /\ NoChat = [status |-> "none", candidates |-> none, at |-> 0, attempt |-> 0, calls |-> none]
    BY <1>1 DEF StartChat, NoChat
  <2>2. st \in ChatStatus /\ st # "calling" /\ none \in Seq({}) /\ none \in Seq([by : {}, reply : Reply]) /\ DOMAIN none = {}
    BY DEF ChatStatus
  <2> HIDE DEF st, none
  <2>3. chat' = [status |-> st, candidates |-> none, at |-> 0, attempt |-> 0, calls |-> none]
    BY <2>1
  <2>4. chat' \in ChatRecord({})
    BY <2>2, <2>3 DEF ChatRecord
  <2>5. chat'.status = st /\ chat'.calls = none
    BY <2>3
  <2>6. ChatInv'
    BY <2>2, <2>4, <2>5 DEF ChatInv
  <2>7. QED
    BY <2>6 DEF SnapshotKept, StartChat
<1>2. CASE Available # {}
  <2> DEFINE n == Cardinality(Available)
             c == CandidateSnapshot
             S == {c[i] : i \in 1 .. n}
  <2>1. n \in Nat /\ n # 0
    <3>1. Available \subseteq Model /\ IsFiniteSet(Model)
      BY ProvidersAssumption DEF Available
    <3>2. IsFiniteSet(Available)
      BY <3>1, FS_Subset
    <3>3. QED
      BY <1>2, <3>2, FS_CardinalityType, FS_EmptySet
  <2>2. c \in [1 .. n -> S] /\ DOMAIN c = 1 .. n
    BY DEF CandidateSnapshot
  <2> DEFINE st == "calling"
             none == <<>>
  <2>3. /\ chat' = [NoChat EXCEPT !.status = st, !.candidates = c, !.at = 1]
        /\ NoChat = [status |-> "none", candidates |-> none, at |-> 0, attempt |-> 0, calls |-> none]
    BY <1>2 DEF StartChat, NoChat
  <2>8. st \in ChatStatus /\ none \in Seq([by : S, reply : Reply]) /\ DOMAIN none = {}
    BY DEF ChatStatus
  <2> HIDE DEF n, c, st, none
  <2>4. c \in Seq(S) /\ 1 \in DOMAIN c
    BY <2>1, <2>2
  <2> HIDE DEF S
  <2>9. chat' = [status |-> st, candidates |-> c, at |-> 1, attempt |-> 0, calls |-> none]
    BY <2>3
  <2>10. chat' \in ChatRecord(S)
    BY <2>4, <2>8, <2>9 DEF ChatRecord
  <2>5. chat'.at = 1 /\ chat'.candidates = c /\ DOMAIN chat'.calls = {}
    BY <2>8, <2>9
  <2>6. ChatInv'
    BY <2>4, <2>5, <2>10 DEF ChatInv
  <2>7. QED
    BY <2>6 DEF SnapshotKept, StartChat
<1>3. QED
  BY <1>1, <1>2

\* What an answer changes: the call is recorded, and status, place and attempt go on.
LEMMA CalledMeans ==
  ASSUME ChatInv, chat.status = "calling", NEW reply \in Reply, NEW by, by = chat.candidates[chat.at],
         NEW st \in ChatStatus, NEW at \in Nat, NEW n \in Nat, st = "calling" => at \in DOMAIN chat.candidates,
         chat' = [status |-> st, candidates |-> chat.candidates, at |-> at, attempt |-> n,
                  calls |-> Append(chat.calls, [by |-> by, reply |-> reply])]
  PROVE  ChatInv' /\ SnapshotKept
<1> DEFINE call == [by |-> by, reply |-> reply]
           calls == Append(chat.calls, call)
<1>1. PICK S : chat \in ChatRecord(S)
  BY DEF ChatInv
<1>2. /\ chat.candidates \in Seq(S) /\ chat.calls \in Seq([by : S, reply : Reply])
      /\ chat.at \in DOMAIN chat.candidates
  BY <1>1 DEF ChatRecord, ChatInv
<1>3. by \in S /\ by \in ToSet(chat.candidates)
  BY <1>2 DEF ToSet
<1>4. call \in [by : S, reply : Reply] /\ call.by = by
  BY <1>3
<1> HIDE DEF call
<1>5. /\ calls \in Seq([by : S, reply : Reply])
      /\ \A i \in DOMAIN calls : (i \in DOMAIN chat.calls /\ calls[i] = chat.calls[i]) \/ calls[i] = call
  BY <1>2, <1>4
<1>6. chat' = [status |-> st, candidates |-> chat.candidates, at |-> at, attempt |-> n, calls |-> calls]
  BY DEF call
<1> HIDE DEF calls
<1>7. chat' \in ChatRecord(S)
  BY <1>2, <1>5, <1>6 DEF ChatRecord
<1>8. \A i \in DOMAIN calls : calls[i].by \in ToSet(chat.candidates)
  BY <1>3, <1>4, <1>5 DEF ChatInv
<1>9. chat'.candidates = chat.candidates /\ chat'.calls = calls /\ chat'.status = st /\ chat'.at = at
  BY <1>6
<1>10. ChatInv'
  BY <1>7, <1>8, <1>9 DEF ChatInv
<1>11. QED
  BY <1>8, <1>9, <1>10 DEF SnapshotKept

LEMMA CallStep ==
  ASSUME ChatInv, NEW reply \in Reply, chat.status = "calling", chat' = After(reply)
  PROVE  ChatInv' /\ SnapshotKept
<1> DEFINE last == Len(chat.candidates)
           turn == Min({chat.at, last})
           by == chat.candidates[turn]
           calls == Append(chat.calls, [by |-> by, reply |-> reply])
           made == [chat EXCEPT !.candidates = chat.candidates, !.calls = calls]
           error == ErrorOf(reply)
<1>1. PICK S : chat \in ChatRecord(S)
  BY DEF ChatInv
<1>2. /\ chat.candidates \in Seq(S) /\ chat.at \in DOMAIN chat.candidates /\ chat.attempt \in Nat
      /\ chat = [status |-> "calling", candidates |-> chat.candidates, at |-> chat.at, attempt |-> chat.attempt,
                 calls |-> chat.calls]
  BY <1>1 DEF ChatRecord, ChatInv
<1>3. chat.at \in Nat /\ last \in Nat /\ chat.at <= last /\ DOMAIN chat.candidates = 1 .. last
  <2>1. DOMAIN chat.candidates = 1 .. last /\ last \in Nat
    BY <1>2, LenProperties
  <2> HIDE DEF last
  <2>2. QED
    BY <1>2, <2>1
<1>4. turn = chat.at
  <2>1. chat.at \in {chat.at, last} /\ \A y \in {chat.at, last} : chat.at <= y
    BY <1>3
  <2>2. turn \in {chat.at, last} /\ \A y \in {chat.at, last} : turn <= y
    BY <2>1 DEF Min
  <2>3. QED
    BY <1>3, <2>2
<1>5. made = [status |-> "calling", candidates |-> chat.candidates, at |-> chat.at, attempt |-> chat.attempt,
              calls |-> calls]
  <2> DEFINE candidates == chat.candidates
             done == calls
  <2>1. ASSUME NEW old, NEW m, old = [status |-> "calling", candidates |-> candidates, at |-> chat.at,
                                      attempt |-> chat.attempt, calls |-> chat.calls],
               m = [old EXCEPT !.candidates = candidates, !.calls = done]
        PROVE  m = [status |-> "calling", candidates |-> candidates, at |-> chat.at, attempt |-> chat.attempt,
                    calls |-> done]
    <3> HIDE DEF candidates, done, calls
    <3>1. QED
      BY <2>1
  <2>2. QED
    BY <1>2, <2>1
<1>6. \/ chat' = [made EXCEPT !.status = "answered"]
      \/ chat' = [made EXCEPT !.attempt = @ + 1]
      \/ chat' = [made EXCEPT !.status = "failed"]
      \/ chat' = [made EXCEPT !.status = "exhausted"]
      \/ chat.at # last /\ chat' = [made EXCEPT !.at = @ + 1, !.attempt = 0]
  BY DEF After, Current
<1> HIDE DEF made
<1> DEFINE Turned(st, at, n) == [status |-> st, candidates |-> chat.candidates, at |-> at, attempt |-> n,
                                 calls |-> calls]
<1> HIDE DEF calls
<1>7. \E st \in ChatStatus, at \in Nat, n \in Nat :
        (st = "calling" => at \in DOMAIN chat.candidates) /\ chat' = Turned(st, at, n)
  <2>1. ASSUME NEW st \in {"answered", "failed", "exhausted"}, chat' = [made EXCEPT !.status = st]
        PROVE  \E s0 \in ChatStatus, at \in Nat, n \in Nat :
                  (s0 = "calling" => at \in DOMAIN chat.candidates) /\ chat' = Turned(s0, at, n)
    <3>1. chat' = Turned(st, chat.at, chat.attempt)
      BY <1>5, <2>1
    <3> HIDE DEF Turned
    <3>2. st \in ChatStatus /\ st # "calling"
      BY <2>1 DEF ChatStatus
    <3>3. QED
      BY <1>2, <1>3, <3>1, <3>2
  <2>2. CASE chat' = [made EXCEPT !.attempt = @ + 1]
    <3> DEFINE n == chat.attempt + 1
    <3>1. chat' = Turned("calling", chat.at, n)
      BY <1>5, <2>2
    <3>2. n \in Nat /\ "calling" \in ChatStatus
      BY <1>2 DEF ChatStatus
    <3> HIDE DEF Turned, n
    <3>3. QED
      BY <1>2, <1>3, <3>1, <3>2
  <2>3. CASE chat.at # last /\ chat' = [made EXCEPT !.at = @ + 1, !.attempt = 0]
    <3> DEFINE at == chat.at + 1
    <3>1. chat' = Turned("calling", at, 0)
      BY <1>5, <2>3
    <3>2. at \in DOMAIN chat.candidates /\ at \in Nat /\ "calling" \in ChatStatus
      BY <1>2, <1>3, <2>3 DEF ChatStatus
    <3> HIDE DEF Turned, at
    <3>3. QED
      BY <3>1, <3>2
  <2>4. QED
    BY <1>6, <2>1, <2>2, <2>3
<1>8. by = chat.candidates[chat.at]
  BY <1>4
<1>9. QED
  BY <1>7, <1>8, CalledMeans DEF calls

LEMMA ChatStep ==
  ASSUME ChatInv, [Next]_vars
  PROVE  ChatInv' /\ [SnapshotKept]_chat
<1>1. CASE ModelNext
  <2>1. ASSUME NEW reply \in Reply, CallProvider(reply) PROVE ChatInv' /\ SnapshotKept
    BY <2>1, CallStep DEF CallProvider
  <2>2. ASSUME NEW e, NEW m, NEW row, BeginModel(e, m, row) \/ EndModel(e) \/ Abort(e) PROVE UNCHANGED chat
    BY <2>2 DEF BeginModel, EndModel, Abort, ModelsOnly
  <2>3. ASSUME NEW e, NEW m, NEW config, NEW enabled, NEW default,
               SaveModel(e, m, config, enabled, default, 100) \/ SetDefaultModel(e, m)
        PROVE  UNCHANGED chat
    BY <2>2, <2>3 DEF SaveModel, SetDefaultModel
  <2>4. ASSUME NEW a, NEW reply, NEW found, NEW enabled,
               CreateAccount(a) \/ RotateAccountKey(a) \/ DeleteAccount(a) \/ SetAccountStatus(a, enabled)
               \/ DiscoverModels(a, reply, found)
        PROVE  UNCHANGED chat
    BY <2>4 DEF CreateAccount, RotateAccountKey, DeleteAccount, SetAccountStatus, DiscoverModels, EditAccount, ModelsOnly
  <2>5. ASSUME NEW m, NEW reply, NEW enabled, DeleteModel(m) \/ SetModelStatus(m, enabled) \/ TestModel(m, reply)
        PROVE  UNCHANGED chat
    BY <2>5 DEF DeleteModel, SetModelStatus, EditModel, TestModel, ModelsOnly
  <2>6. UNCHANGED chat => ChatInv'
    BY DEF ChatInv
  <2>7. QED
    BY <1>1, <2>1, <2>2, <2>3, <2>4, <2>5, <2>6, StartChatStep DEF ModelNext
<1>2. CASE ServiceNext
  <2>1. UNCHANGED chat
    BY <1>2 DEF ServiceNext, UpdateService, RotateServiceKey, SetServiceStatus, EditService, TestService,
                BeginDefaultService, BeginCreateService, EndService, ServicesOnly
  <2>2. QED
    BY <2>1 DEF ChatInv
<1>3. CASE UNCHANGED providersVars
  BY <1>3 DEF providersVars, ChatInv
<1>4. CASE UNCHANGED vars
  BY <1>4 DEF vars, providersVars, ChatInv
<1>5. QED
  BY <1>1, <1>2, <1>3, <1>4 DEF Next
-----------------------------------------------------------------------------
\* No edit passes over what its author could not see: no project is taken from its manager, no
\* service is shown tested with another connection, no chat changes its candidates, and a rule is
\* written only by who has it open as it is.
THEOREM EditsSee == Spec => EditsAreSeen
<1>1. Init => ServiceInv /\ FormInv /\ ChatInv
  BY ServiceInit, FormInit, ChatInit
<1>2. ServiceInv /\ FormInv /\ ChatInv /\ [Next]_vars => (ServiceInv /\ FormInv /\ ChatInv)'
  BY ServiceStep, FormStep, ChatStep
<1>3. [Next]_vars => [Handover]_manager
  BY TakeoverStep
<1>4. ServiceInv /\ [Next]_vars => [Untests]_services
  BY ServiceStep
<1>5. FormInv /\ [Next]_vars => [Contested]_rulesVars
  BY FormStep
<1>6. ChatInv /\ [Next]_vars => [SnapshotKept]_chat
  BY ChatStep
<1>7. Spec => [][Handover]_manager /\ [][Untests]_services /\ [][Contested]_rulesVars /\ [][SnapshotKept]_chat
  BY <1>1, <1>2, <1>3, <1>4, <1>5, <1>6, PTL DEF Spec
<1>8. QED
  BY <1>7 DEF EditsAreSeen, NoSilentTakeover, ConnectionChangeUntests, NoBlindRuleEdit, ChatKeepsItsSnapshot,
              Handover, Untests, Contested, SnapshotKept
=============================================================================
