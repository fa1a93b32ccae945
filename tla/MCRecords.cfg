\* Two requests at a time on one scene.
CONSTANTS
  Rows <- MCRows
  TableOf <- MCTableOf
  Requests = {r1, r2}
  Texts <- MCTexts
  Scenes <- MCScenes
  RowsOf <- MCRowsOf
  CallsOf <- MCCallsOf
  Within <- MCWithin
  Failures = TRUE
  Unborn = Unborn
  Gone = Gone
  None = None
SYMMETRY Alike
SPECIFICATION Spec
INVARIANT TypeOK
PROPERTIES
  DeletionTakesOnlyNews
  RecordedWorkStays
  DoublesHaveReasons
CHECK_DEADLOCK FALSE
