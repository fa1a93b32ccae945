\* An approval and a rejection of one form overlap.
CONSTANTS
  Users = {leader, admin}
  Admins = {admin}
  Workers = {w1}
  Placed = {w1}
  Forms = {f1}
  Entries = {e1}
  Items = {i1}
  Contents = {c1}
  Requests = {r1, r2}
  Null = Null
SPECIFICATION Spec
PROPERTY OnlyPendingDecided
CHECK_DEADLOCK FALSE
