SPECIFICATION Spec
CONSTANTS
  ann = ann
  bob = bob
  rec1 = rec1
  up1 = up1
  one = one
  two = two
  three = three
  None = None
  Users = {ann, bob}
  RecordingIDs = {rec1}
  SessionIDs = {rec1}
  Announcements <- PairEvents
  Jobs = {one, two}
  MaxChunks = 2
  MaxAttempts = 2
  CleanupChunks = TRUE
  Podless = {bob}
  Faults = {"s3", "db", "crash"}
SYMMETRY JobSymmetry
INVARIANTS ProcessorInvariant
CHECK_DEADLOCK FALSE
