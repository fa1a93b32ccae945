\* One request per form at a time, over two forms.
CONSTANTS
  Users = {leader, admin}
  Admins = {admin}
  Workers = {w1}
  Placed = {w1}
  Forms = {f1, f2}
  Entries = {e1, e2}
  Items = {i1}
  Contents = {c1, c2}
  Requests = {r1, r2}
  Null = Null
SPECIFICATION OrderlySpec
SYMMETRY Symmetry
INVARIANTS
  DecisionsOnRecord
  SubmittedHasEntries
PROPERTIES
  FrozenUnlessStrayed
  ImplementsWorkflow
CHECK_DEADLOCK FALSE
