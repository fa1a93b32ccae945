\* No call fails and no two requests overlap.
CONSTANTS
  Users = {u1, u2}
  Requests = {r1}
  Kinds = {"factory"}
  Overseers = {u1}
  RoleId = RoleId
  RoleCode = RoleCode
  Failures = FALSE
  Absent = Absent
  Nobody = Nobody
SPECIFICATION AloneSpec
PROPERTY PrimaryGetsRole
