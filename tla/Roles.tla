------------------------------- MODULE Roles -------------------------------
(***************************************************************************)
(* Organisations, their roles and users, and the roles that documents name.*)
(* A request is authorised once, with the permissions its user's role has  *)
(* at that moment; the statements it then runs interleave with those of    *)
(* other requests.  A role may be deleted between two of them.             *)
(***************************************************************************)
EXTENDS Integers, FiniteSets

CONSTANTS
  Orgs, Users, Docs,
  Requests,   \* processes, each of which serves one request
  RoleIds,    \* values of roles.id, a BIGSERIAL
  Grants,     \* sets of permissions that payloads name
  RoleLists,  \* allowed_role_ids that payloads name
  NoOrg, NoUser

\* No row has this id: BIGSERIAL starts at 1, and the handlers refuse ids <= 0.
NoRole == 0

ManageRoles == "can_manage_roles"
ManageUsers == "can_manage_users"
UploadDocs == "can_upload_docs"

\* The permissions that routes of this module ask for.
Permissions == {ManageRoles, ManageUsers, UploadDocs}

ASSUME RolesAssumption ==
  /\ RoleIds \subseteq Nat \ {NoRole}
  /\ Grants \subseteq SUBSET Permissions
  /\ RoleLists \subseteq SUBSET RoleIds
  /\ NoOrg \notin Orgs
  /\ NoUser \notin Users

VARIABLES
  lastId,       \* the sequence behind roles.id
  roles,        \* ids of the rows of table roles
  orgOfRole,    \* roles.org_id
  isDefault,    \* ids with roles.is_default
  permissions,  \* roles.permissions
  orgOfUser,    \* users.org_id
  roleOf,       \* users.role_id
  orgOfDoc,     \* documents.org_id
  allowed,      \* documents.allowed_role_ids
  request,      \* the request each process serves
  idsBefore     \* history: lastId when the roles of a document were checked

roleVars == <<lastId, roles, orgOfRole, isDefault, permissions>>
userVars == <<orgOfUser, roleOf>>
docVars == <<orgOfDoc, allowed, idsBefore>>
vars == <<roleVars, userVars, docVars, request>>

Steps == {"waiting", "authorised", "update", "count", "delete", "assign", "insert", "done"}

\* What a request has read and still uses: its user, the permission its route
\* asked for, the role and the user it is about, the roles it has validated.
RoleRequests ==
  [at : Steps, user : Users \cup {NoUser}, for : Permissions \cup {"none"},
   role : RoleIds \cup {NoRole}, subject : Users \cup {NoUser},
   ids : SUBSET RoleIds, seen : Nat]

RolesTypeOK ==
  /\ lastId \in Nat
  /\ roles \subseteq RoleIds
  /\ orgOfRole \in [RoleIds -> Orgs \cup {NoOrg}]
  /\ isDefault \subseteq roles
  /\ permissions \in [RoleIds -> SUBSET Permissions]
  /\ orgOfUser \in [Users -> Orgs \cup {NoOrg}]
  /\ roleOf \in [Users -> RoleIds \cup {NoRole}]
  /\ orgOfDoc \in [Docs -> Orgs \cup {NoOrg}]
  /\ allowed \in [Docs -> SUBSET RoleIds]
  /\ idsBefore \in [Docs -> Nat]
  /\ request \in [Requests -> RoleRequests]

NewRequest ==
  [at |-> "waiting", user |-> NoUser, for |-> "none",
   role |-> NoRole, subject |-> NoUser, ids |-> {}, seen |-> 0]

RolesInit ==
  /\ lastId = 0
  /\ roles = {} /\ isDefault = {}
  /\ orgOfRole = [x \in RoleIds |-> NoOrg]
  /\ permissions = [x \in RoleIds |-> {}]
  /\ orgOfUser = [u \in Users |-> NoOrg]
  /\ roleOf = [u \in Users |-> NoRole]
  /\ orgOfDoc = [d \in Docs |-> NoOrg]
  /\ allowed = [d \in Docs |-> {}]
  /\ idsBefore = [d \in Docs |-> 0]
  /\ request = [r \in Requests |-> NewRequest]

-----------------------------------------------------------------------------
(* Rows *)

Registered(u) == orgOfUser[u] # NoOrg
RolesOf(o) == {x \in roles : orgOfRole[x] = o}
Holders(x) == {u \in Users : roleOf[u] = x}
At(r, step) == request[r].at = step
OrgOf(r) == orgOfUser[request[r].user]

\* Request r goes on, or is over.
GoTo(r, q) == request' = [request EXCEPT ![r] = q]
End(r) == GoTo(r, [request[r] EXCEPT !.at = "done"])

-----------------------------------------------------------------------------
(* Organisations and users *)

\* CreateOrganizationWithOwner: one transaction inserts Owner, Admin, Member
\* (the default role) and Viewer, and the owner.
CreateOrganization(o, u) ==
  LET owner == lastId + 1
      member == lastId + 3
      new == owner .. lastId + 4
  IN  /\ \A v \in Users : orgOfUser[v] # o
      /\ ~Registered(u)
      /\ new \subseteq RoleIds
      /\ lastId' = lastId + 4
      /\ roles' = roles \cup new
      /\ isDefault' = isDefault \cup {member}
      /\ orgOfRole' = [x \in RoleIds |-> IF x \in new THEN o ELSE orgOfRole[x]]
      /\ permissions' = [x \in RoleIds |->
           CASE x \in {owner, owner + 1} -> Permissions
             [] x = member -> {UploadDocs}
             [] OTHER -> permissions[x]]
      /\ orgOfUser' = [orgOfUser EXCEPT ![u] = o]
      /\ roleOf' = [roleOf EXCEPT ![u] = owner]
      /\ UNCHANGED <<docVars, request>>

\* No handler creates further users: an administrator inserts their rows, with
\* a role of their organisation.
Enroll(u, x) ==
  /\ ~Registered(u)
  /\ x \in roles
  /\ orgOfUser' = [orgOfUser EXCEPT ![u] = orgOfRole[x]]
  /\ roleOf' = [roleOf EXCEPT ![u] = x]
  /\ UNCHANGED <<roleVars, docVars, request>>

\* requirePermission and hasPermission, of the permissions that were read.
HasPermission(u, p) == p \in permissions[roleOf[u]]

\* GetUserByID joins the user with the role, and the permission of the route is
\* looked for in what it read.
Authorise(r, u, p) ==
  /\ At(r, "waiting")
  /\ Registered(u)
  /\ HasPermission(u, p)
  /\ GoTo(r, [request[r] EXCEPT !.at = "authorised", !.user = u, !.for = p])
  /\ UNCHANGED <<roleVars, userVars, docVars>>

\* A refusal, an error, or a client that has gone: a transaction rolls back.
Fail(r) ==
  /\ ~At(r, "waiting") /\ ~At(r, "done")
  /\ End(r)
  /\ UNCHANGED <<roleVars, userVars, docVars>>

-----------------------------------------------------------------------------
(* Roles *)

\* Mutant: ids of deleted roles are used again.
InsertReusedRole(r, g) ==
  /\ At(r, "authorised") /\ request[r].for = ManageRoles
  /\ \E id \in RoleIds \ roles :
       /\ \A x \in RoleIds : x < id => x \in roles
       /\ lastId' = IF id > lastId THEN id ELSE lastId
       /\ roles' = roles \cup {id}
       /\ orgOfRole' = [orgOfRole EXCEPT ![id] = OrgOf(r)]
       /\ permissions' = [permissions EXCEPT ![id] = g]
  /\ End(r)
  /\ UNCHANGED <<isDefault, userVars, docVars>>

\* CreateRole.  The sequence moves on even when UNIQUE (org_id, name) then
\* refuses the row.
InsertRole(r, g) ==
  LET id == lastId + 1
  IN  /\ At(r, "authorised") /\ request[r].for = ManageRoles
      /\ id \in RoleIds
      /\ lastId' = id
      /\ \/ /\ roles' = roles \cup {id}
            /\ orgOfRole' = [orgOfRole EXCEPT ![id] = OrgOf(r)]
            /\ permissions' = [permissions EXCEPT ![id] = g]
         \/ UNCHANGED <<roles, orgOfRole, permissions>>
      /\ End(r)
      /\ UNCHANGED <<isDefault, userVars, docVars>>

\* Mutant: the role may be one of any organisation.
LoadRoleOfAny(r, x, step) ==
  /\ At(r, "authorised") /\ request[r].for = ManageRoles
  /\ x \in roles
  /\ x \notin isDefault
  /\ GoTo(r, [request[r] EXCEPT !.at = step, !.role = x])
  /\ UNCHANGED <<roleVars, userVars, docVars>>

\* SELECT is_default of UpdateRole and DeleteRole: default roles are refused.
LoadRole(r, x, step) ==
  /\ At(r, "authorised") /\ request[r].for = ManageRoles
  /\ x \in RolesOf(OrgOf(r))
  /\ x \notin isDefault
  /\ GoTo(r, [request[r] EXCEPT !.at = step, !.role = x])
  /\ UNCHANGED <<roleVars, userVars, docVars>>

\* The UPDATE of UpdateRole: a role that is gone meanwhile is ErrNotFound (Fail).
UpdateRole(r, g) ==
  /\ At(r, "update")
  /\ request[r].role \in roles
  /\ permissions' = [permissions EXCEPT ![request[r].role] = g]
  /\ End(r)
  /\ UNCHANGED <<lastId, roles, orgOfRole, isDefault, userVars, docVars>>

\* SELECT COUNT(*) of DeleteRole: a role with users is ErrRoleAssigned.
CountUsers(r) ==
  /\ At(r, "count")
  /\ \A u \in Holders(request[r].role) : orgOfUser[u] # OrgOf(r)
  /\ GoTo(r, [request[r] EXCEPT !.at = "delete"])
  /\ UNCHANGED <<roleVars, userVars, docVars>>

\* The DELETE of DeleteRole.  users.role_id REFERENCES roles(id): a role that
\* somebody has been given meanwhile cannot be deleted.
DeleteRole(r) ==
  LET x == request[r].role
  IN  /\ At(r, "delete")
      /\ x \in roles
      /\ Holders(x) = {}
      /\ roles' = roles \ {x}
      /\ End(r)
      /\ UNCHANGED <<lastId, orgOfRole, isDefault, permissions, userVars, docVars>>

-----------------------------------------------------------------------------
(* The role of a user *)

\* Mutant: EXISTS looks among the roles of all organisations.
FindAnyRole(r, u, x) ==
  /\ At(r, "authorised") /\ request[r].for = ManageUsers
  /\ orgOfUser[u] = OrgOf(r)
  /\ x \in roles
  /\ GoTo(r, [request[r] EXCEPT !.at = "assign", !.subject = u, !.role = x])
  /\ UNCHANGED <<roleVars, userVars, docVars>>

\* The WHERE of UpdateUserRole, on the snapshot of its statement: user and role
\* belong to the organisation.
FindRole(r, u, x) ==
  /\ At(r, "authorised") /\ request[r].for = ManageUsers
  /\ orgOfUser[u] = OrgOf(r)
  /\ x \in RolesOf(OrgOf(r))
  /\ GoTo(r, [request[r] EXCEPT !.at = "assign", !.subject = u, !.role = x])
  /\ UNCHANGED <<roleVars, userVars, docVars>>

\* The SET of UpdateUserRole, which the foreign key lets through while the role
\* is still there.
AssignRole(r) ==
  /\ At(r, "assign")
  /\ request[r].role \in roles
  /\ roleOf' = [roleOf EXCEPT ![request[r].subject] = request[r].role]
  /\ End(r)
  /\ UNCHANGED <<roleVars, orgOfUser, docVars>>

-----------------------------------------------------------------------------
(* The roles of a document *)

\* uploadDocument and the first half of CreateDocument: all the ids must be
\* among those GetRoleIDsForOrg reads.
CheckRoles(r, ids) ==
  /\ At(r, "authorised") /\ request[r].for = UploadDocs
  /\ ids # {}
  /\ ids \subseteq RolesOf(OrgOf(r))
  /\ GoTo(r, [request[r] EXCEPT !.at = "insert", !.ids = ids, !.seen = lastId])
  /\ UNCHANGED <<roleVars, userVars, docVars>>

\* The INSERT of CreateDocument: an array of ids references nothing, so roles
\* deleted meanwhile stay in it.
InsertDocument(r, d) ==
  /\ At(r, "insert")
  /\ orgOfDoc[d] = NoOrg
  /\ orgOfDoc' = [orgOfDoc EXCEPT ![d] = OrgOf(r)]
  /\ allowed' = [allowed EXCEPT ![d] = request[r].ids]
  /\ idsBefore' = [idsBefore EXCEPT ![d] = request[r].seen]
  /\ End(r)
  /\ UNCHANGED <<roleVars, userVars>>

-----------------------------------------------------------------------------

\* createRole, updateRole, deleteRole
ManageRole(r) ==
  \/ \E g \in Grants : InsertRole(r, g) \/ UpdateRole(r, g)
  \/ \E x \in RoleIds, step \in {"update", "count"} : LoadRole(r, x, step)
  \/ CountUsers(r) \/ DeleteRole(r)

UpdateUserRole(r) ==
  \/ \E u \in Users, x \in RoleIds : FindRole(r, u, x)
  \/ AssignRole(r)

UploadDocument(r) ==
  \/ \E ids \in RoleLists : CheckRoles(r, ids)
  \/ \E d \in Docs : InsertDocument(r, d)

Serve(r) ==
  \/ \E u \in Users, p \in Permissions : Authorise(r, u, p)
  \/ Fail(r)
  \/ ManageRole(r) \/ UpdateUserRole(r) \/ UploadDocument(r)

RolesNext ==
  \/ \E o \in Orgs, u \in Users : CreateOrganization(o, u)
  \/ \E u \in Users, x \in RoleIds : Enroll(u, x)
  \/ \E r \in Requests : Serve(r)

RolesSpec == RolesInit /\ [][RolesNext]_vars

-----------------------------------------------------------------------------
(* Properties *)

\* A user has a role, and one of the user's own organisation, although
\* UpdateUserRole looks for the role and DeleteRole for users of it before
\* either writes: GetUserByID joins the two, so a user without a role could
\* not sign in any more.
MembersHaveRoles ==
  \A u \in Users : Registered(u) => roleOf[u] \in RolesOf(orgOfUser[u])

\* Nobody comes to read a document through a role that is created after the
\* upload was checked: the ids it names that still are roles are roles of its
\* organisation that existed then, even when some were deleted since.
NoInheritedAccess ==
  \A d \in Docs : \A x \in allowed[d] \cap roles :
    orgOfRole[x] = orgOfDoc[d] /\ x <= idsBefore[d]

\* A role has an id that was issued once, and belongs to an organisation.
IdsAreIssued ==
  \A x \in RoleIds :
    /\ x \in roles => orgOfRole[x] \in Orgs
    /\ orgOfRole[x] # NoOrg => x <= lastId

\* Whoever makes a request is registered and was permitted what its steps need,
\* and what it has looked up belongs to the organisation and does not leave it.
RequestsStayInside ==
  \A r \in Requests :
    LET q == request[r]
    IN  /\ ~At(r, "waiting") => q.user \in Users /\ Registered(q.user)
        /\ At(r, "update") \/ At(r, "count") \/ At(r, "delete") =>
             /\ q.for = ManageRoles
             /\ q.role \in RoleIds \ isDefault /\ orgOfRole[q.role] = OrgOf(r)
        /\ At(r, "assign") =>
             /\ q.for = ManageUsers
             /\ q.role \in RoleIds /\ orgOfRole[q.role] = OrgOf(r)
             /\ q.subject \in Users /\ orgOfUser[q.subject] = OrgOf(r)
        /\ At(r, "insert") =>
             \A x \in q.ids : orgOfRole[x] = OrgOf(r) /\ x <= q.seen

\* The ids of a document are those of its organisation's roles, present or past.
DocumentsStayInside ==
  \A d \in Docs : \A x \in allowed[d] :
    orgOfDoc[d] # NoOrg /\ orgOfRole[x] = orgOfDoc[d] /\ x <= idsBefore[d]

\* The inductive invariant.
RolesInv ==
  /\ RolesTypeOK
  /\ IdsAreIssued
  /\ MembersHaveRoles
  /\ RequestsStayInside
  /\ DocumentsStayInside

\* What a user's role permits.
Granted(u) == IF Registered(u) THEN permissions[roleOf[u]] ELSE {}

\* What a registered user may do changes only by a request of a user of the
\* same organisation whom its role permitted to manage roles or users when the
\* request began; no request of another organisation ever reaches it.
TenantsApart ==
  [][\A u \in Users : Registered(u) /\ Granted(u)' # Granted(u) =>
       \E r \in Requests :
         /\ At(r, "update") \/ At(r, "assign")
         /\ request'[r].at = "done"
         /\ request[r].for \in {ManageRoles, ManageUsers}
         /\ OrgOf(r) = orgOfUser[u]]_vars
=============================================================================
