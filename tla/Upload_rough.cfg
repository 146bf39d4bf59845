\* Two requests at a time of one user, for two recordings whose chunks share a
\* session; every habit, no faults.  The indexes asked for do not matter here.
SPECIFICATION Spec
CONSTANTS
  ann = ann
  bob = bob
  show = show
  rec1 = rec1
  rec2 = rec2
  up1 = up1
  one = one
  two = two
  None = None
  Users = {ann}
  Podcasts = {show}
  RecordingIDs = {rec1, rec2}
  PodcastOf <- SamePodcast
  UploadIDs = {up1}
  Requests = {one, two}
  AskedIndexes = {1}
  MaxURLs = 2
  Habits = {"overlap", "after final", "early next", "revoke"}
  Faults = {}
SYMMETRY RequestSymmetry
INVARIANTS CompleteIsFinal GraceIsQuiet FinalIsAnnounced
PROPERTIES RevokedStays
CHECK_DEADLOCK FALSE
