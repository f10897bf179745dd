-------------------------------- MODULE Accounts --------------------------------
(***************************************************************************)
(* Accounts, their sessions, roles and projects: login with its lock,       *)
(* passwords, the administration of users and roles, and the project scope  *)
(* every query is filtered by (auth/service.py, auth/repository.py,         *)
(* admin/users, admin/roles, rbac).                                         *)
(*                                                                         *)
(* A request authenticates in one transaction and acts in a later one with  *)
(* the identity it got; "request" is what it carries in between.  A         *)
(* transaction that changes a user locks its row first and is one step.     *)
(***************************************************************************)
EXTENDS Integers, FiniteSets, Sequences, FiniteSetsExt

CONSTANTS User, Root,      \* accounts; Root is the seeded system administrator
          Sid,             \* sessions, in the order they are created
          Project, Archived,
          RoleCode,        \* codes of roles; the seeded ones are SystemRole
          MaxAttempts,     \* loginMaxAttempts of the settings in force
          Grant,           \* permission sets a role can be given
          Form,            \* what the form of a user is submitted with
          MaxAccountEdits, MaxGuesses

SystemRole == {"SYSTEM_ADMIN", "RISK_ADMIN", "PROJECT_MANAGER", "VIEWER_AUDITOR"}
Scope == {"ALL", "OWNED", "ASSIGNED", "OWNED_OR_ASSIGNED", "NONE"}
Nobody == "nobody"

\* admin.user, role, scope, ai, import and config.manage; mailbox.manage_self and sync_self
Manage == "manage"
Mailbox == "mailbox"
Required == {"view", Manage}

ASSUME AccountsAssumption ==
    /\ Root \in User /\ Nobody \notin User /\ Archived \subseteq Project
    /\ Sid \subseteq Nat /\ SystemRole \subseteq RoleCode
    /\ MaxAttempts \in Nat \ {0} /\ MaxAccountEdits \in Nat /\ MaxGuesses \in Nat
    /\ Grant \subseteq SUBSET (Required \cup {Mailbox})
    /\ Form \subseteq [role : RoleCode, scope : Scope, projects : SUBSET Project, owned : SUBSET Project,
                      enabled : BOOLEAN]

VARIABLES users, assigned,  \* users with their role; user_project_scopes
          manager,          \* projects.managerId
          roles, sessions, request,
          accountEdits, guesses

accountsVars == <<users, assigned, manager, roles, sessions, request, accountEdits, guesses>>

NoUser == [live |-> FALSE, status |-> "DISABLED", failed |-> 0, locked |-> FALSE, password |-> 0,
           role |-> "NONE", scope |-> "NONE"]
NoSession == [user |-> Nobody, password |-> 0, open |-> FALSE]
NoRequest == [user |-> Nobody, perms |-> {}, scope |-> "NONE"]

-----------------------------------------------------------------------------
(* Policies.                                                               *)

\* admin/users/policy: the scopes a user of a seeded role may have
AllowedScopes(code) ==
    CASE code = "SYSTEM_ADMIN" -> {"ALL"}
      [] code = "RISK_ADMIN" -> {"ALL", "ASSIGNED"}
      [] code = "PROJECT_MANAGER" -> {"OWNED", "ASSIGNED", "OWNED_OR_ASSIGNED", "NONE"}
      [] code = "VIEWER_AUDITOR" -> {"ASSIGNED", "NONE"}
      [] OTHER -> Scope

\* validate_role_policy
RolePolicy(code, perms) ==
    /\ code = "SYSTEM_ADMIN" => Required \subseteq perms
    /\ code # "SYSTEM_ADMIN" => Manage \notin perms
    /\ code = "RISK_ADMIN" <=> Mailbox \in perms

\* _validate_project_scopes
ScopesFit(scope, projects) ==
    /\ scope \notin {"ASSIGNED", "OWNED_OR_ASSIGNED"} => projects = {}
    /\ scope = "ASSIGNED" => projects # {}

\* _validate_owned_projects
Bindable(u, projects) ==
    projects \cap Archived = {} /\ \A p \in projects : manager[p] \in {Nobody, u}

\* project_scope_predicate
Visible(u, scope) ==
    LET owned == {p \in Project : manager[p] = u} IN
    (CASE scope = "ALL" -> Project
       [] scope = "OWNED" -> owned
       [] scope = "ASSIGNED" -> assigned[u]
       [] scope = "OWNED_OR_ASSIGNED" -> owned \cup assigned[u]
       [] OTHER -> {}) \ Archived

\* user_access: a disabled role grants nothing and no scope.
AccessOf(u) ==
    LET role == users[u].role IN
    IF role \in RoleCode /\ roles[role].live /\ roles[role].enabled
    THEN [user |-> u, perms |-> roles[role].perms, scope |-> users[u].scope]
    ELSE [user |-> u, perms |-> {}, scope |-> "NONE"]

-----------------------------------------------------------------------------
(* Sessions.                                                               *)

\* neither revoked nor expired
Live(s) == sessions[s].open

Revoked(u) == [s \in Sid |-> IF sessions[s].user = u THEN [sessions[s] EXCEPT !.open = FALSE] ELSE sessions[s]]

\* _issue_session
IssueSession(u) ==
    /\ \E s \in Sid : /\ sessions[s].user = Nobody /\ \A t \in Sid : t < s => sessions[t].user # Nobody
                      /\ sessions' = [sessions EXCEPT ![s] = [user |-> u, open |-> TRUE,
                                                              password |-> users[u].password]]
    /\ users' = [users EXCEPT ![u].status = "ACTIVE", ![u].failed = 0, ![u].locked = FALSE]
    /\ UNCHANGED <<assigned, manager, roles, request, accountEdits, guesses>>

\* _account_status_error, and the same tests of a password login
MayLogin(u) ==
    users[u].live /\ users[u].status # "DISABLED" /\ ~(users[u].status = "LOCKED" /\ users[u].locked)

Login(u) == MayLogin(u) /\ IssueSession(u)

\* wechat_login and issue_wechat_session: the account is found by its mobile number.
WechatLogin(u) == MayLogin(u) /\ IssueSession(u)

\* A wrong password; a lock that has run out starts the count anew.
WrongPassword(u) ==
    /\ guesses < MaxGuesses /\ MayLogin(u)
    /\ LET failed == (IF users[u].status = "LOCKED" THEN 0 ELSE users[u].failed) + 1
           locks == failed >= MaxAttempts
       IN  users' = [users EXCEPT ![u].failed = failed, ![u].locked = locks,
                                  ![u].status = IF locks THEN "LOCKED" ELSE "ACTIVE"]
    /\ guesses' = guesses + 1
    /\ UNCHANGED <<assigned, manager, roles, sessions, request, accountEdits>>

LockRunsOut(u) ==
    /\ users[u].locked
    /\ users' = [users EXCEPT ![u].locked = FALSE]
    /\ UNCHANGED <<assigned, manager, roles, sessions, request, accountEdits, guesses>>

SessionRunsOut(s) ==
    /\ Live(s)
    /\ sessions' = [sessions EXCEPT ![s].open = FALSE]
    /\ UNCHANGED <<users, assigned, manager, roles, request, accountEdits, guesses>>

\* authenticate: the identity a request of this session acts with
Authenticate(s) ==
    /\ Live(s) /\ users[sessions[s].user].status = "ACTIVE" /\ request[s] = NoRequest
    /\ request' = [request EXCEPT ![s] = AccessOf(sessions[s].user)]
    /\ UNCHANGED <<users, assigned, manager, roles, sessions, accountEdits, guesses>>

Answered(s) == request' = [request EXCEPT ![s] = NoRequest]

\* The handler refuses, or only reads.
EndRequest(s) ==
    /\ request[s] # NoRequest
    /\ Answered(s)
    /\ UNCHANGED <<users, assigned, manager, roles, sessions, accountEdits, guesses>>

\* _change_password_transaction
ChangePassword(s) ==
    LET u == request[s].user IN
    /\ accountEdits < MaxAccountEdits /\ u # Nobody /\ users[u].status = "ACTIVE" /\ Live(s)
    /\ users' = [users EXCEPT ![u].password = @ + 1, ![u].failed = 0, ![u].locked = FALSE]
    /\ sessions' = Revoked(u)
    /\ Answered(s) /\ accountEdits' = accountEdits + 1
    /\ UNCHANGED <<assigned, manager, roles, guesses>>

Logout(s) ==
    /\ request[s] # NoRequest
    /\ sessions' = [sessions EXCEPT ![s].open = FALSE]
    /\ Answered(s)
    /\ UNCHANGED <<users, assigned, manager, roles, accountEdits, guesses>>

-----------------------------------------------------------------------------
(* Administration, with the rights the request was authenticated with.      *)

Administers(s) ==
    /\ accountEdits < MaxAccountEdits /\ Manage \in request[s].perms
    /\ Answered(s) /\ accountEdits' = accountEdits + 1
    /\ UNCHANGED guesses

\* _role_or_error, validate_scope_for_role, validate_owned_projects_for_role
Assignable(u, form) ==
    /\ roles[form.role].live /\ roles[form.role].enabled
    /\ form.scope \in AllowedScopes(form.role) /\ ScopesFit(form.scope, form.projects)
    /\ form.owned # {} => form.role = "PROJECT_MANAGER"
    /\ Bindable(u, form.owned)

\* mutant: a project that is no longer selected keeps its manager
Bound_Adds(u, owned) == [p \in Project |-> IF p \in owned THEN u ELSE manager[p]]

\* _replace_owned_projects
Bound(u, owned) ==
    [p \in Project |-> CASE p \in owned -> u [] p \notin owned /\ manager[p] = u -> Nobody [] OTHER -> manager[p]]

CreateUser(s, u, form) ==
    /\ Administers(s) /\ ~users[u].live /\ Assignable(u, form)
    /\ users' = [users EXCEPT ![u] = [NoUser EXCEPT !.live = TRUE, !.status = IF form.enabled THEN "ACTIVE" ELSE @,
                                     !.password = 1, !.role = form.role, !.scope = form.scope]]
    /\ assigned' = [assigned EXCEPT ![u] = form.projects] /\ manager' = Bound(u, form.owned)
    /\ UNCHANGED <<roles, sessions>>

EndedBy(u, enabled) == IF enabled THEN sessions ELSE Revoked(u)

\* The form replaces everything; nobody changes the own role, scope or state.
UpdateUser(s, u, form) ==
    /\ Administers(s) /\ users[u].live /\ Assignable(u, form)
    /\ u = request[s].user => form.role = users[u].role /\ form.scope = users[u].scope /\ form.enabled
    /\ users' = [users EXCEPT ![u].status = IF form.enabled THEN "ACTIVE" ELSE "DISABLED",
                              ![u].failed = IF form.enabled THEN @ ELSE 0, ![u].locked = @ /\ form.enabled,
                              ![u].role = form.role, ![u].scope = form.scope]
    /\ assigned' = [assigned EXCEPT ![u] = form.projects] /\ manager' = Bound(u, form.owned)
    /\ sessions' = EndedBy(u, form.enabled)
    /\ UNCHANGED roles

SetUserStatus(s, u, status) ==
    /\ Administers(s) /\ users[u].live /\ ~(u = request[s].user /\ status = "DISABLED")
    /\ users' = [users EXCEPT ![u].status = status, ![u].failed = 0, ![u].locked = FALSE]
    /\ sessions' = IF status = "DISABLED" THEN Revoked(u) ELSE sessions
    /\ UNCHANGED <<assigned, manager, roles>>

\* Unlocking makes any account active, a disabled one included.
Unlock(s, u) ==
    /\ Administers(s) /\ users[u].live
    /\ users' = [users EXCEPT ![u].status = "ACTIVE", ![u].failed = 0, ![u].locked = FALSE]
    /\ UNCHANGED <<assigned, manager, roles, sessions>>

ResetPassword(s, u) ==
    /\ Administers(s) /\ users[u].live
    /\ users' = [users EXCEPT ![u].password = @ + 1, ![u].failed = 0, ![u].locked = FALSE,
                              ![u].status = IF @ = "DISABLED" THEN @ ELSE "ACTIVE"]
    /\ sessions' = Revoked(u)
    /\ UNCHANGED <<assigned, manager, roles>>

SetProjectScopes(s, u, scope, projects) ==
    /\ Administers(s) /\ users[u].live /\ roles[users[u].role].enabled
    /\ scope \in AllowedScopes(users[u].role) /\ ScopesFit(scope, projects)
    /\ u = request[s].user => scope = users[u].scope
    /\ users' = [users EXCEPT ![u].scope = scope] /\ assigned' = [assigned EXCEPT ![u] = projects]
    /\ UNCHANGED <<manager, roles, sessions>>

CreateRole(s, code, perms) ==
    /\ Administers(s) /\ ~roles[code].live /\ RolePolicy(code, perms)
    /\ roles' = [roles EXCEPT ![code] = [live |-> TRUE, enabled |-> TRUE, perms |-> perms]]
    /\ UNCHANGED <<users, assigned, manager, sessions>>

UpdateRole(s, code, perms, enabled) ==
    /\ Administers(s) /\ roles[code].live /\ (code \in SystemRole => enabled) /\ RolePolicy(code, perms)
    /\ roles' = [roles EXCEPT ![code].perms = perms, ![code].enabled = enabled]
    /\ UNCHANGED <<users, assigned, manager, sessions>>

RemoveRole(s, code) ==
    /\ Administers(s) /\ roles[code].live /\ code \notin SystemRole /\ \A u \in User : users[u].live => users[u].role # code
    /\ roles' = [roles EXCEPT ![code].live = FALSE]
    /\ UNCHANGED <<users, assigned, manager, sessions>>

-----------------------------------------------------------------------------
Seeded(code) ==
    [live |-> code \in SystemRole, enabled |-> TRUE,
     perms |-> CASE code = "SYSTEM_ADMIN" -> Required [] code = "RISK_ADMIN" -> {"view", Mailbox} [] OTHER -> {"view"}]

AccountsInit ==
    /\ users = [u \in User |-> IF u = Root THEN [NoUser EXCEPT !.live = TRUE, !.status = "ACTIVE", !.password = 1,
                                                 !.role = "SYSTEM_ADMIN", !.scope = "ALL"] ELSE NoUser]
    /\ assigned = [u \in User |-> {}] /\ manager = [p \in Project |-> Nobody]
    /\ roles = [code \in RoleCode |-> Seeded(code)]
    /\ sessions = [s \in Sid |-> NoSession] /\ request = [s \in Sid |-> NoRequest]
    /\ accountEdits = 0 /\ guesses = 0

AccountsNext ==
    \/ \E u \in User : Login(u) \/ WechatLogin(u) \/ WrongPassword(u) \/ LockRunsOut(u)
    \/ \E s \in Sid : SessionRunsOut(s) \/ Authenticate(s) \/ EndRequest(s) \/ ChangePassword(s) \/ Logout(s)
    \/ \E s \in Sid, u \in User : Unlock(s, u) \/ ResetPassword(s, u)
    \/ \E s \in Sid, u \in User, status \in {"ACTIVE", "DISABLED"} : SetUserStatus(s, u, status)
    \/ \E s \in Sid, u \in User, form \in Form : CreateUser(s, u, form) \/ UpdateUser(s, u, form)
    \/ \E s \in Sid, u \in User, scope \in Scope, projects \in SUBSET Project : SetProjectScopes(s, u, scope, projects)
    \/ \E s \in Sid, code \in RoleCode, perms \in Grant : CreateRole(s, code, perms) \/ RemoveRole(s, code)
    \/ \E s \in Sid, code \in RoleCode, perms \in Grant, enabled \in BOOLEAN : UpdateRole(s, code, perms, enabled)

-----------------------------------------------------------------------------
AccountsTypeOK ==
    /\ \A u \in User : /\ users[u].status \in {"ACTIVE", "LOCKED", "DISABLED"} /\ users[u].failed \in 0..MaxGuesses
                       /\ users[u].password \in Nat /\ users[u].role \in RoleCode \cup {"NONE"} /\ users[u].scope \in Scope
                       /\ assigned[u] \subseteq Project
    /\ manager \in [Project -> User \cup {Nobody}] /\ \A code \in RoleCode : roles[code].perms \subseteq Required \cup {Mailbox}
    /\ \A s \in Sid : sessions[s].open => sessions[s].user # Nobody
    /\ \A s \in Sid : sessions[s].user \in User \cup {Nobody} /\ request[s].user \in {Nobody, sessions[s].user}
    /\ accountEdits \in 0..MaxAccountEdits /\ guesses \in 0..MaxGuesses

\* A disabled account has no open session, however logins, the form, the switch
\* and the requests of two administrators interleave (_revoke_sessions).
DisabledHasNoSession == \A s \in Sid : Live(s) => users[sessions[s].user].status # "DISABLED"

\* Every open session began under the password the account has now: changing or
\* resetting it ends all of them, those of the other device and of WeChat too.
SessionKnowsPassword == \A s \in Sid : Live(s) => sessions[s].password = users[sessions[s].user].password

\* A project passes from one manager to another only over being unbound, whoever
\* saves a form last (PROJECT_MANAGER_CONFLICT).
NoSilentTakeover ==
    [][\A p \in Project : manager'[p] # manager[p] => Nobody \in {manager[p], manager'[p]}]_manager

\* Only project managers manage projects, also after their role was changed.
OwnersAreManagers == \A p \in Project : manager[p] # Nobody => users[manager[p]].role = "PROJECT_MANAGER"

\* The scope of an account is one its role allows, and goes with the projects
\* assigned to it: an assigned scope shows at least those, any other has none.
ScopeFitsRole ==
    \A u \in User : users[u].live =>
        /\ users[u].scope \in AllowedScopes(users[u].role) /\ ScopesFit(users[u].scope, assigned[u])
        /\ users[u].scope = "ASSIGNED" => Visible(u, users[u].scope) = assigned[u] \ Archived

\* The right to administer is held by the system administrators and no others,
\* and no account is left holding a role that is gone, whatever is created,
\* changed and removed in which order (validate_role_policy, remove).
RolesKeepTheirRights ==
    /\ \A u \in User : users[u].live => roles[users[u].role].live
    /\ \A u \in User : users[u].live /\ users[u].role = "SYSTEM_ADMIN" => Manage \in AccessOf(u).perms
    /\ \A u \in User : users[u].live /\ users[u].role # "SYSTEM_ADMIN" => Manage \notin AccessOf(u).perms

\* Accounts, sessions, roles and projects fit together whatever forms, logins and requests
\* overlap.
AccountsHold ==
    /\ AccountsTypeOK /\ DisabledHasNoSession /\ SessionKnowsPassword
    /\ OwnersAreManagers /\ ScopeFitsRole /\ RolesKeepTheirRights
=============================================================================
