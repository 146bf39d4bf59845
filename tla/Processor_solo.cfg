SPECIFICATION FairSpec
CONSTANTS
  ann = ann
  bob = bob
  rec1 = rec1
  up1 = up1
  one = one
  two = two
  three = three
  None = None
  Users = {ann}
  RecordingIDs = {rec1}
  SessionIDs = {rec1, up1}
  Announcements <- SoloEvents
  Jobs = {one, two}
  MaxChunks = 2
  MaxAttempts = 2
  CleanupChunks = TRUE
  Podless = {}
  Faults = {"s3"}
INVARIANTS TypeOK ExclusiveJobs SweptIsSaved DoneIsFiled DoneIsLinked
PROPERTIES JobsEnd
CHECK_DEADLOCK FALSE
