\* An entry is addressed under another form; no requests overlap.
CONSTANTS
  Users = {leader, admin}
  Admins = {admin}
  Workers = {w1}
  Placed = {w1}
  Forms = {f1, f2}
  Entries = {e1}
  Items = {i1}
  Contents = {c1}
  Requests = {r1}
  Null = Null
SPECIFICATION Spec
PROPERTY EntriesFrozen
CHECK_DEADLOCK FALSE
