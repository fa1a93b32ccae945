\* One unit of any kind, one request at a time; u1 needs no row to manage it.
CONSTANTS
  Users = {u1, u2, u3}
  Requests = {r1}
  Kinds = {"factory", "line", "team", "group"}
  Overseers = {u1}
  RoleId = RoleId
  RoleCode = RoleCode
  Failures = TRUE
  Absent = Absent
  Nobody = Nobody
SPECIFICATION AloneSpec
INVARIANTS
  TypeOK
  AtMostOnePrimary
PROPERTIES
  GroupKeepsPrimary
  LeadersRemain
