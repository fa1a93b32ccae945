CONSTANTS
  d1 = d1
  g1 = g1
  g2 = g2
  i1 = i1
  i2 = i2
  r1 = r1
  r2 = r2
  u1 = u1
  u2 = u2
  m1 = m1
  m2 = m2
  f1 = f1
  f2 = f2
  e1 = e1
  e2 = e2
  b1 = b1
  p1 = p1
  p2 = p2
  line = line
  teams = teams
  Depts = {d1, d2, d3}
  Walks = {w1}
  MaxShown = 4
  MaxMoves = 1
  Groups = {g1, g2}
  Leaving = {g2}
  Ids = {i1, i2}
  Outputs = {1, 2}
  Batches <- MCBatches
  RateChanges <- MCRateChanges
  Callers = {r1, r2}
  x1 = x1
  x2 = x2
  x3 = x3
  Listed = {x1, x2, x3}
  Ranks <- MCRanks
  Limits = {1, 2}
  Most = 1
  ListChanges = 1
  Readers = {q1}
  Writers = {c1, c2}
  MaxWrites = 2
  Missing = Missing
  Units = {u1, u2}
  Workers = {m1, m2}
  Places <- MCPlaces
  Forms = {f1, f2}
  Entries = {e1, e2}
  WorkerOf <- MCWorkerOf
  DayOf <- MCDayOf
  FormOf <- MCFormOf
  BagOf <- MCBagOf
  ProcessOf <- MCProcessOf
  Recorded <- MCRecorded
  Scenes <- MCScenes
  MaxChanges = 1
  Elsewhere = Elsewhere
  Requests = {s1, s2}
  UnitTypes = {line}
  Compared = {teams}
  Codes = {k1}
  MaxTime = 1
  NoCode = NoCode
  Nobody = Nobody
  Unborn = Unborn
  Gone = Gone
SPECIFICATION FairSpec
INVARIANTS
  TypeOK
  KeptIsTrue
  BreakdownsAccount
  StatisticsOfOneMoment
  FilesHoldReports
PROPERTIES
  StayersShownOnce
  HierarchyEnds
  SuccessCoversBatch
  EveryItemSettles
  PagesMissForReason
CHECK_DEADLOCK FALSE
