\* Two requests overlap at will on one form.
CONSTANTS
  Users = {leader, other, admin}
  Admins = {admin}
  Workers = {w1, w2}
  Placed = {w1}
  Forms = {f1}
  Entries = {e1, e2}
  Items = {i1, i2}
  Contents = {c1}
  Requests = {r1, r2}
  Null = Null
SPECIFICATION Spec
SYMMETRY Symmetry
INVARIANTS
  TypeOK
  StampsTellHistory
  EntriesBelong
  NoCombinationTwice
  CheckedFactsLast
\* all ids may be used up and every form deleted
CHECK_DEADLOCK FALSE
