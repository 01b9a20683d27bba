---------------------------- MODULE RolesProofs ----------------------------
(***************************************************************************)
(* RolesInv is an inductive invariant of RolesSpec, for any number of      *)
(* organisations, users, documents and requests: one lemma for each group  *)
(* of actions, and in it one step for each conjunct.  From it follow       *)
(* MembersHaveRoles, NoInheritedAccess and TenantsApart.                   *)
(* A request is a record that stays folded: what a step leaves of it is    *)
(* said once, by Moved.                                                    *)
(***************************************************************************)
EXTENDS Roles, TLAPS

\* What a request is made of.
LEMMA RequestFields ==
  \A q \in RoleRequests :
    /\ q.at \in Steps
    /\ q.user \in Users \cup {NoUser}
    /\ q.role \in RoleIds \cup {NoRole}
    /\ q.subject \in Users \cup {NoUser}
    /\ q.ids \in SUBSET RoleIds
    /\ q.seen \in Nat
  BY DEF RoleRequests

\* What a step of request r leaves of the requests.
Moved(r, q) ==
  /\ request' \in [Requests -> RoleRequests]
  /\ request'[r] = q
  /\ \A o \in Requests : o # r => request'[o] = request[o]

LEMMA Moves ==
  ASSUME NEW r \in Requests, NEW q \in RoleRequests,
         request \in [Requests -> RoleRequests], GoTo(r, q)
  PROVE  Moved(r, q)
  BY DEF GoTo, Moved

LEMMA EndMoves ==
  ASSUME NEW r \in Requests, request \in [Requests -> RoleRequests], End(r)
  PROVE  \E q \in RoleRequests :
           /\ Moved(r, q)
           /\ q.at = "done" /\ q.user = request[r].user
<1> DEFINE q == [request[r] EXCEPT !.at = "done"]
<1>1. q \in RoleRequests /\ q.at = "done" /\ q.user = request[r].user
  BY DEF RoleRequests, Steps
<1> QED
  BY <1>1, Moves DEF End

\* No request has begun and nothing is in the tables.
LEMMA InitEstablishesRolesInv == RolesInit => RolesInv
<1> SUFFICES ASSUME RolesInit PROVE RolesInv
  OBVIOUS
<1>1. NewRequest \in RoleRequests /\ NewRequest.at = "waiting"
  BY DEF NewRequest, RoleRequests, Steps
<1>2. RolesTypeOK
  BY <1>1 DEF RolesInit, RolesTypeOK
<1>3. IdsAreIssued /\ MembersHaveRoles /\ DocumentsStayInside
  BY DEF RolesInit, IdsAreIssued, MembersHaveRoles, DocumentsStayInside, Registered
<1>4. RequestsStayInside
  BY <1>1 DEF RolesInit, RequestsStayInside, At
<1> QED
  BY <1>2, <1>3, <1>4 DEF RolesInv

\* New ids are greater than all that any row, request or document knows.
LEMMA CreateOrganizationStep ==
  ASSUME RolesInv, NEW o \in Orgs, NEW u \in Users, CreateOrganization(o, u)
  PROVE  RolesInv'
<1> USE DEF RolesInv, RolesTypeOK, roleVars, userVars, docVars
<1>1. lastId' = lastId + 4 /\ lastId \in Nat /\ \A x \in RoleIds : x \in Nat /\ x # 0
  BY RolesAssumption DEF CreateOrganization, NoRole
<1>2. \A x \in RoleIds : orgOfRole'[x] = IF x > lastId /\ x <= lastId + 4 THEN o ELSE orgOfRole[x]
  BY <1>1 DEF CreateOrganization
<1>3. RolesTypeOK'
  <2>1. permissions' \in [RoleIds -> SUBSET Permissions]
    BY <1>1 DEF CreateOrganization, Permissions
  <2>2. /\ (lastId + 1) \in RoleIds /\ (lastId + 1) \in roles'
        /\ lastId + 3 \in roles' /\ roles' \subseteq RoleIds
    BY <1>1 DEF CreateOrganization
  <2>3. orgOfRole' \in [RoleIds -> Orgs \cup {NoOrg}]
    BY DEF CreateOrganization
  <2> QED
    BY <1>1, <2>1, <2>2, <2>3 DEF CreateOrganization
<1>4. IdsAreIssued'
  BY <1>1, <1>2 DEF CreateOrganization, IdsAreIssued
<1>5. \A x \in RoleIds : orgOfRole[x] # NoOrg => orgOfRole'[x] = orgOfRole[x]
  BY <1>1, <1>2 DEF IdsAreIssued
<1>6. \A v \in Users : Registered(v) => Registered(v)' /\ orgOfUser'[v] = orgOfUser[v]
                                       /\ roleOf'[v] = roleOf[v]
  BY RolesAssumption DEF CreateOrganization, Registered
<1>7. MembersHaveRoles'
  <2> SUFFICES ASSUME NEW v \in Users, Registered(v)'
               PROVE  (roleOf[v] \in RolesOf(orgOfUser[v]))'
    BY DEF MembersHaveRoles
  <2>1. CASE Registered(v)
    BY <1>5, <1>6, <2>1, RolesAssumption
       DEF CreateOrganization, MembersHaveRoles, RolesOf, IdsAreIssued
  <2>2. CASE ~Registered(v)
    <3>1. v = u /\ roleOf'[v] = lastId + 1 /\ orgOfUser'[v] = o
      BY <2>2 DEF CreateOrganization, Registered
    <3>2. lastId + 1 \in RoleIds /\ lastId + 1 \in roles'
      BY <1>1 DEF CreateOrganization
    <3>3. orgOfRole'[lastId + 1] = o
      BY <1>1, <1>2, <3>2
    <3> QED
      BY <3>1, <3>2, <3>3 DEF RolesOf
  <2> QED
    BY <2>1, <2>2
<1>8. RequestsStayInside'
  BY <1>5, <1>6, RequestFields, RolesAssumption
     DEF CreateOrganization, RequestsStayInside, At, OrgOf, Registered
<1>9. DocumentsStayInside'
  BY <1>5 DEF CreateOrganization, DocumentsStayInside
<1> QED
  BY <1>3, <1>4, <1>7, <1>8, <1>9

\* A user who is enrolled was nobody's subject and made no request.
LEMMA EnrollStep ==
  ASSUME RolesInv, NEW u \in Users, NEW x \in RoleIds, Enroll(u, x)
  PROVE  RolesInv'
<1> USE DEF RolesInv, RolesTypeOK, roleVars, userVars, docVars
<1>1. RolesTypeOK' /\ IdsAreIssued'
  BY DEF Enroll, IdsAreIssued
<1>2. \A v \in Users : Registered(v) => Registered(v)' /\ orgOfUser'[v] = orgOfUser[v]
  BY DEF Enroll, Registered
<1>3. MembersHaveRoles'
  BY DEF Enroll, MembersHaveRoles, Registered, RolesOf
<1>4. RequestsStayInside'
  BY <1>2, RequestFields, RolesAssumption, IdsAreIssued
     DEF Enroll, RequestsStayInside, At, OrgOf, Registered
<1>5. DocumentsStayInside'
  BY DEF Enroll, DocumentsStayInside
<1> QED
  BY <1>1, <1>3, <1>4, <1>5

\* Steps that only read.
Reads(r) ==
  \/ \E u \in Users, p \in Permissions : Authorise(r, u, p)
  \/ Fail(r)
  \/ \E x \in RoleIds, step \in {"update", "count"} : LoadRole(r, x, step)
  \/ CountUsers(r)
  \/ \E u \in Users, x \in RoleIds : FindRole(r, u, x)
  \/ \E ids \in RoleLists : CheckRoles(r, ids)

LEMMA ReadStep ==
  ASSUME RolesInv, NEW r \in Requests, Reads(r)
  PROVE  RolesInv'
<1> USE DEF RolesInv, RolesTypeOK, roleVars, userVars, docVars
<1>0. request[r] \in RoleRequests
  OBVIOUS
<1>1. UNCHANGED <<roleVars, userVars, docVars>>
  BY DEF Reads, Authorise, Fail, LoadRole, CountUsers, FindRole, CheckRoles
<1>2. IdsAreIssued' /\ MembersHaveRoles' /\ DocumentsStayInside'
  BY <1>1 DEF IdsAreIssued, MembersHaveRoles, DocumentsStayInside, Registered, RolesOf
<1>3. ASSUME NEW q \in RoleRequests, Moved(r, q),
             q.at # "waiting" => q.user \in Users /\ Registered(q.user),
             q.at \in {"update", "count", "delete"} =>
               /\ q.for = ManageRoles
               /\ q.role \in RoleIds \ isDefault /\ orgOfRole[q.role] = orgOfUser[q.user],
             q.at = "assign" =>
               /\ q.for = ManageUsers
               /\ q.role \in RoleIds /\ orgOfRole[q.role] = orgOfUser[q.user]
               /\ q.subject \in Users /\ orgOfUser[q.subject] = orgOfUser[q.user],
             q.at = "insert" =>
               \A x \in q.ids : orgOfRole[x] = orgOfUser[q.user] /\ x <= q.seen
      PROVE  RolesInv'
  BY <1>1, <1>2, <1>3 DEF Moved, RequestsStayInside, At, OrgOf, Registered
<1>4. \A x \in RoleIds : x \in RolesOf(OrgOf(r)) => orgOfRole[x] = OrgOf(r) /\ x <= lastId
  BY RolesAssumption DEF RolesOf, IdsAreIssued
<1>5. ASSUME NEW u \in Users, NEW p \in Permissions, Authorise(r, u, p)
      PROVE  RolesInv'
  <2> DEFINE q == [request[r] EXCEPT !.at = "authorised", !.user = u, !.for = p]
  <2>1. q \in RoleRequests /\ q.at = "authorised" /\ q.user = u
    BY <1>0 DEF RoleRequests, Steps
  <2>2. Moved(r, q) /\ Registered(u)
    BY <1>5, <2>1, Moves DEF Authorise
  <2> QED
    BY <1>3, <2>1, <2>2
<1>6. CASE Fail(r)
  BY <1>3, <1>6, EndMoves DEF Fail, RequestsStayInside
<1>7. ASSUME NEW x \in RoleIds, NEW step \in {"update", "count"}, LoadRole(r, x, step)
      PROVE  RolesInv'
  <2> DEFINE q == [request[r] EXCEPT !.at = step, !.role = x]
  <2>1. /\ q \in RoleRequests /\ q.at = step /\ q.role = x
        /\ q.user = request[r].user /\ q.for = request[r].for
    BY <1>0 DEF RoleRequests, Steps
  <2>2. Moved(r, q)
    BY <1>7, <2>1, Moves DEF LoadRole
  <2>3. /\ q.user \in Users /\ Registered(q.user) /\ q.for = ManageRoles
        /\ x \in RolesOf(OrgOf(r)) /\ x \notin isDefault
    BY <1>7, <2>1 DEF LoadRole, RequestsStayInside, At
  <2> QED
    BY <1>3, <1>4, <2>1, <2>2, <2>3 DEF OrgOf
<1>8. CASE CountUsers(r)
  <2> DEFINE q == [request[r] EXCEPT !.at = "delete"]
  <2>1. /\ q \in RoleRequests /\ q.at = "delete" /\ q.role = request[r].role
        /\ q.user = request[r].user /\ q.for = request[r].for
    BY <1>0 DEF RoleRequests, Steps
  <2>2. Moved(r, q)
    BY <1>8, <2>1, Moves DEF CountUsers
  <2> QED
    BY <1>3, <1>8, <2>1, <2>2 DEF CountUsers, RequestsStayInside, At, OrgOf
<1>9. ASSUME NEW u \in Users, NEW x \in RoleIds, FindRole(r, u, x)
      PROVE  RolesInv'
  <2> DEFINE q == [request[r] EXCEPT !.at = "assign", !.subject = u, !.role = x]
  <2>1. /\ q \in RoleRequests /\ q.at = "assign" /\ q.role = x /\ q.subject = u
        /\ q.user = request[r].user /\ q.for = request[r].for
    BY <1>0 DEF RoleRequests, Steps
  <2>2. Moved(r, q)
    BY <1>9, <2>1, Moves DEF FindRole
  <2>3. /\ q.user \in Users /\ Registered(q.user) /\ q.for = ManageUsers
        /\ x \in RolesOf(OrgOf(r)) /\ orgOfUser[u] = OrgOf(r)
    BY <1>9, <2>1 DEF FindRole, RequestsStayInside, At
  <2> QED
    BY <1>3, <1>4, <2>1, <2>2, <2>3 DEF OrgOf
<1>10. ASSUME NEW ids \in RoleLists, CheckRoles(r, ids)
       PROVE  RolesInv'
  <2> DEFINE q == [request[r] EXCEPT !.at = "insert", !.ids = ids, !.seen = lastId]
  <2>1. /\ q \in RoleRequests /\ q.at = "insert" /\ q.ids = ids /\ q.seen = lastId
        /\ q.user = request[r].user
    BY <1>0, RolesAssumption DEF RoleRequests, Steps
  <2>2. Moved(r, q)
    BY <1>10, <2>1, Moves DEF CheckRoles
  <2>3. /\ q.user \in Users /\ Registered(q.user)
        /\ ids \subseteq RolesOf(OrgOf(r)) /\ ids \subseteq RoleIds
    BY <1>10, <2>1, RolesAssumption DEF CheckRoles, RequestsStayInside, At
  <2> QED
    BY <1>3, <1>4, <2>1, <2>2, <2>3, ZenonT(40) DEF OrgOf
<1> QED
  BY <1>5, <1>6, <1>7, <1>8, <1>9, <1>10 DEF Reads

\* A request that ends leaves nothing to say of it but its user.
LEMMA EndedStaysInside ==
  ASSUME RolesInv, NEW r \in Requests, End(r), ~At(r, "waiting"),
         UNCHANGED <<orgOfUser, isDefault>>,
         \A x \in RoleIds : orgOfRole[x] # NoOrg => orgOfRole'[x] = orgOfRole[x]
  PROVE  RequestsStayInside' /\ request' \in [Requests -> RoleRequests]
<1> PICK q \in RoleRequests : Moved(r, q) /\ q.at = "done" /\ q.user = request[r].user
  BY EndMoves DEF RolesInv, RolesTypeOK
<1>1. \A o \in Requests : o # r => request'[o] = request[o]
  BY DEF Moved
<1>2. ASSUME NEW o \in Requests, o # r, ~At(o, "waiting")
      PROVE  OrgOf(o) # NoOrg /\ OrgOf(o)' = OrgOf(o)
  BY <1>1, <1>2 DEF RolesInv, RequestsStayInside, Registered, OrgOf
<1> QED
  BY <1>1, <1>2, RequestFields
     DEF RolesInv, RolesTypeOK, RequestsStayInside, Moved, At, Registered, OrgOf

LEMMA InsertRoleStep ==
  ASSUME RolesInv, NEW r \in Requests, NEW g \in Grants, InsertRole(r, g)
  PROVE  RolesInv'
<1> USE DEF RolesInv, RolesTypeOK, roleVars, userVars, docVars
<1>1. /\ lastId \in Nat /\ lastId + 1 \in RoleIds /\ lastId' = lastId + 1
      /\ \A x \in RoleIds : x \in Nat
      /\ g \in SUBSET Permissions
  BY RolesAssumption DEF InsertRole
<1>2. OrgOf(r) \in Orgs
  BY DEF InsertRole, RequestsStayInside, At, OrgOf, Registered
<1>3. /\ roles \subseteq roles' /\ roles' \subseteq roles \cup {lastId + 1}
      /\ \A x \in RoleIds : x # lastId + 1 => orgOfRole'[x] = orgOfRole[x]
      /\ lastId + 1 \in roles' => lastId + 1 \in roles \/ orgOfRole'[lastId + 1] = OrgOf(r)
      /\ orgOfRole' \in [RoleIds -> Orgs \cup {NoOrg}]
      /\ permissions' \in [RoleIds -> SUBSET Permissions]
  BY <1>1, <1>2 DEF InsertRole
<1>4. \A x \in RoleIds : orgOfRole[x] # NoOrg => orgOfRole'[x] = orgOfRole[x] /\ x <= lastId
  BY <1>1, <1>3 DEF IdsAreIssued
<1>5. RequestsStayInside' /\ request' \in [Requests -> RoleRequests]
  BY <1>4, EndedStaysInside DEF InsertRole, At
<1>6. RolesTypeOK'
  BY <1>1, <1>3, <1>5 DEF InsertRole
<1>7. IdsAreIssued'
  <2> SUFFICES ASSUME NEW x \in RoleIds
               PROVE  /\ x \in roles' => orgOfRole'[x] \in Orgs
                      /\ orgOfRole'[x] # NoOrg => x <= lastId'
    BY DEF IdsAreIssued
  <2>1. CASE x = lastId + 1
    BY <1>1, <1>2, <1>3, <1>4, <2>1, RolesAssumption DEF IdsAreIssued
  <2>2. CASE x # lastId + 1
    BY <1>1, <1>3, <2>2 DEF IdsAreIssued
  <2> QED
    BY <2>1, <2>2
<1>8. MembersHaveRoles'
  <2>1. \A x \in roles : orgOfRole'[x] = orgOfRole[x] /\ x \in roles'
    BY <1>3, <1>4, RolesAssumption DEF IdsAreIssued
  <2> QED
    BY <2>1 DEF InsertRole, MembersHaveRoles, Registered, RolesOf
<1>9. DocumentsStayInside'
  BY <1>4 DEF InsertRole, DocumentsStayInside
<1> QED
  BY <1>5, <1>6, <1>7, <1>8, <1>9

LEMMA UpdateRoleStep ==
  ASSUME RolesInv, NEW r \in Requests, NEW g \in Grants, UpdateRole(r, g)
  PROVE  RolesInv'
<1> USE DEF RolesInv, RolesTypeOK, roleVars, userVars, docVars
<1>1. RequestsStayInside' /\ request' \in [Requests -> RoleRequests]
  BY EndedStaysInside DEF UpdateRole, At
<1>2. RolesTypeOK'
  BY <1>1, RolesAssumption DEF UpdateRole
<1>3. IdsAreIssued' /\ MembersHaveRoles' /\ DocumentsStayInside'
  BY DEF UpdateRole, IdsAreIssued, MembersHaveRoles, DocumentsStayInside, Registered, RolesOf
<1> QED
  BY <1>1, <1>2, <1>3

\* The foreign key keeps a role that somebody has.
LEMMA DeleteRoleStep ==
  ASSUME RolesInv, NEW r \in Requests, DeleteRole(r)
  PROVE  RolesInv'
<1> USE DEF RolesInv, RolesTypeOK, roleVars, userVars, docVars
<1>1. RequestsStayInside' /\ request' \in [Requests -> RoleRequests]
  BY EndedStaysInside DEF DeleteRole, At
<1>2. isDefault \subseteq roles'
  BY DEF DeleteRole, RequestsStayInside
<1>3. RolesTypeOK'
  BY <1>1, <1>2 DEF DeleteRole
<1>4. MembersHaveRoles'
  BY DEF DeleteRole, MembersHaveRoles, Registered, RolesOf, Holders
<1>5. IdsAreIssued' /\ DocumentsStayInside'
  BY DEF DeleteRole, IdsAreIssued, DocumentsStayInside
<1> QED
  BY <1>1, <1>3, <1>4, <1>5

LEMMA AssignRoleStep ==
  ASSUME RolesInv, NEW r \in Requests, AssignRole(r)
  PROVE  RolesInv'
<1> USE DEF RolesInv, RolesTypeOK, roleVars, userVars, docVars
<1>1. RequestsStayInside' /\ request' \in [Requests -> RoleRequests]
  BY EndedStaysInside DEF AssignRole, At
<1>2. RolesTypeOK'
  BY <1>1 DEF AssignRole
<1>3. /\ request[r].role \in roles /\ orgOfRole[request[r].role] = OrgOf(r)
      /\ request[r].subject \in Users /\ orgOfUser[request[r].subject] = OrgOf(r)
  BY DEF AssignRole, RequestsStayInside
<1>4. MembersHaveRoles'
  BY <1>3 DEF AssignRole, MembersHaveRoles, Registered, RolesOf
<1>5. IdsAreIssued' /\ DocumentsStayInside'
  BY DEF AssignRole, IdsAreIssued, DocumentsStayInside
<1> QED
  BY <1>1, <1>2, <1>4, <1>5

LEMMA InsertDocumentStep ==
  ASSUME RolesInv, NEW r \in Requests, NEW d \in Docs, InsertDocument(r, d)
  PROVE  RolesInv'
<1> USE DEF RolesInv, RolesTypeOK, roleVars, userVars, docVars
<1>1. RequestsStayInside' /\ request' \in [Requests -> RoleRequests]
  BY EndedStaysInside DEF InsertDocument, At
<1>2. /\ OrgOf(r) \in Orgs /\ request[r].ids \in SUBSET RoleIds /\ request[r].seen \in Nat
      /\ \A x \in request[r].ids : orgOfRole[x] = OrgOf(r) /\ x <= request[r].seen
  BY RequestFields DEF InsertDocument, RequestsStayInside, At, OrgOf, Registered
<1>3. RolesTypeOK'
  BY <1>1, <1>2 DEF InsertDocument
<1>4. IdsAreIssued' /\ MembersHaveRoles'
  BY DEF InsertDocument, IdsAreIssued, MembersHaveRoles, Registered, RolesOf
<1>5. DocumentsStayInside'
  BY <1>2, RolesAssumption DEF InsertDocument, DocumentsStayInside
<1> QED
  BY <1>1, <1>3, <1>4, <1>5

\* Every step preserves the invariant.
LEMMA StepPreservesRolesInv ==
  ASSUME RolesInv, [RolesNext]_vars
  PROVE  RolesInv'
<1>1. CASE UNCHANGED vars
  BY <1>1 DEF vars, roleVars, userVars, docVars, RolesInv, RolesTypeOK, IdsAreIssued,
     MembersHaveRoles, RequestsStayInside, DocumentsStayInside, At, OrgOf, Registered, RolesOf
<1>2. ASSUME NEW r \in Requests, Serve(r) PROVE RolesInv'
  BY <1>2, ReadStep, InsertRoleStep, UpdateRoleStep, DeleteRoleStep, AssignRoleStep,
     InsertDocumentStep DEF Serve, ManageRole, UpdateUserRole, UploadDocument, Reads
<1> QED
  BY <1>1, <1>2, CreateOrganizationStep, EnrollStep DEF RolesNext

\* The invariant holds whatever the requests do and however they fail.
THEOREM RolesInvariant == RolesSpec => []RolesInv
  BY InitEstablishesRolesInv, StepPreservesRolesInv, PTL DEF RolesSpec

\* MembersHaveRoles is a conjunct of the invariant.
THEOREM EveryMemberHasARole == RolesSpec => []MembersHaveRoles
<1>1. RolesInv => MembersHaveRoles
  BY DEF RolesInv
<1> QED
  BY <1>1, RolesInvariant, PTL

\* NoInheritedAccess follows from what documents know of ids, deleted or not.
THEOREM NobodyInheritsAccess == RolesSpec => []NoInheritedAccess
<1>1. RolesInv => NoInheritedAccess
  BY DEF RolesInv, DocumentsStayInside, NoInheritedAccess
<1> QED
  BY <1>1, RolesInvariant, PTL

\* The step of a request that changes what user u is permitted.
LEMMA OnlyByManagers ==
  ASSUME RolesInv, [RolesNext]_vars,
         NEW u \in Users, Registered(u), Granted(u)' # Granted(u)
  PROVE  \E r \in Requests :
           /\ At(r, "update") \/ At(r, "assign")
           /\ request'[r].at = "done"
           /\ request[r].for \in {ManageRoles, ManageUsers}
           /\ OrgOf(r) = orgOfUser[u]
<1> USE DEF RolesInv, RolesTypeOK, roleVars, userVars, docVars
<1>1. /\ roleOf[u] \in roles /\ orgOfRole[roleOf[u]] = orgOfUser[u]
      /\ roleOf[u] <= lastId /\ lastId \in Nat /\ roleOf[u] \in Nat
  BY RolesAssumption DEF MembersHaveRoles, RolesOf, IdsAreIssued, Registered
<1>2. ASSUME UNCHANGED roleOf, UNCHANGED orgOfUser, permissions'[roleOf[u]] = permissions[roleOf[u]]
      PROVE  FALSE
  BY <1>2 DEF Granted, Registered
<1>3. CASE UNCHANGED vars
  BY <1>2, <1>3 DEF vars
<1>4. ASSUME NEW o \in Orgs, NEW v \in Users, CreateOrganization(o, v)
      PROVE  FALSE
  <2>1. u # v
    BY <1>4 DEF CreateOrganization
  <2>2. roleOf'[u] = roleOf[u] /\ Registered(u)'
    BY <1>4, <2>1 DEF CreateOrganization, Registered
  <2>3. permissions'[roleOf[u]] = permissions[roleOf[u]]
    BY <1>1, <1>4 DEF CreateOrganization
  <2> QED
    BY <2>2, <2>3 DEF Granted
<1>5. ASSUME NEW v \in Users, NEW x \in RoleIds, Enroll(v, x)
      PROVE  FALSE
  BY <1>5 DEF Enroll, Granted, Registered
<1>6. ASSUME NEW r \in Requests, Serve(r)
      PROVE  /\ At(r, "update") \/ At(r, "assign")
             /\ request'[r].at = "done"
             /\ request[r].for \in {ManageRoles, ManageUsers}
             /\ OrgOf(r) = orgOfUser[u]
  <2>1. CASE Reads(r)
    BY <1>2, <2>1 DEF Reads, Authorise, Fail, LoadRole, CountUsers, FindRole, CheckRoles
  <2>2. ASSUME NEW g \in Grants, InsertRole(r, g)
        PROVE  FALSE
    BY <1>1, <1>2, <2>2 DEF InsertRole
  <2>3. ASSUME NEW g \in Grants, UpdateRole(r, g)
        PROVE  /\ At(r, "update") /\ request'[r].at = "done"
               /\ request[r].for = ManageRoles /\ OrgOf(r) = orgOfUser[u]
    <3>1. request[r].role = roleOf[u]
      BY <1>2, <2>3 DEF UpdateRole
    <3> QED
      BY <1>1, <2>3, <3>1, EndMoves DEF UpdateRole, RequestsStayInside, Moved
  <2>4. ASSUME AssignRole(r)
        PROVE  /\ At(r, "assign") /\ request'[r].at = "done"
               /\ request[r].for = ManageUsers /\ OrgOf(r) = orgOfUser[u]
    <3>1. request[r].subject = u
      BY <2>4 DEF AssignRole, Granted, Registered, RequestsStayInside
    <3> QED
      BY <2>4, <3>1, EndMoves DEF AssignRole, RequestsStayInside, Moved
  <2>5. ASSUME DeleteRole(r) \/ (\E d \in Docs : InsertDocument(r, d))
        PROVE  FALSE
    BY <1>2, <2>5 DEF DeleteRole, InsertDocument
  <2> QED
    BY <1>6, <2>1, <2>2, <2>3, <2>4, <2>5
       DEF Serve, ManageRole, UpdateUserRole, UploadDocument, Reads
<1> QED
  BY <1>3, <1>4, <1>5, <1>6 DEF RolesNext

\* TenantsApart: an action property, by the invariant before the step.
THEOREM TenantsStayApart == RolesSpec => TenantsApart
<1>1. RolesInv /\ [RolesNext]_vars =>
        [\A u \in Users : Registered(u) /\ Granted(u)' # Granted(u) =>
           \E r \in Requests :
             /\ At(r, "update") \/ At(r, "assign")
             /\ request'[r].at = "done"
             /\ request[r].for \in {ManageRoles, ManageUsers}
             /\ OrgOf(r) = orgOfUser[u]]_vars
  BY OnlyByManagers
<1> QED
  BY <1>1, RolesInvariant, PTL DEF RolesSpec, TenantsApart

=============================================================================
