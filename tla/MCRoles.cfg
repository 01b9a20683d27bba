SPECIFICATION RolesSpec
CONSTANTS
  o1 = o1
  o2 = o2
  u1 = u1
  u2 = u2
  d1 = d1
  r1 = r1
  r2 = r2
  r3 = r3
  Orgs = {o1, o2}
  Users = {u1, u2}
  Docs = {d1}
  Requests = {r1, r2, r3}
  RoleIds <- Ids
  Grants <- Some
  RoleLists <- Lists
  NoOrg = NoOrg
  NoUser = NoUser
SYMMETRY Symmetry
CHECK_DEADLOCK FALSE
INVARIANTS
  RolesInv
  MembersHaveRoles
  NoInheritedAccess
PROPERTIES
  TenantsApart
