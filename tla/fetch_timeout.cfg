SPECIFICATION Spec
CONSTANTS
  c1 = c1
  c2 = c2
  NoCursor = NoCursor
  Absent = Absent
  Cursors = {c1, c2}
  Pages <- MCPages
  Counts <- MCCounts
  Feeds <- MCFeeds
  Jobs <- MCJobs
CHECK_DEADLOCK FALSE
INVARIANTS
  FallsBackOnFailure
