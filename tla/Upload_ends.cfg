\* One request at a time of one user, for two recordings whose chunks share a
\* session; every habit, refused pushes and restarts of the service.
SPECIFICATION FairSpec
CONSTANTS
  ann = ann
  bob = bob
  show = show
  rec1 = rec1
  rec2 = rec2
  up1 = up1
  one = one
  two = two
  None = None
  Users = {ann}
  Podcasts = {show}
  RecordingIDs = {rec1, rec2}
  PodcastOf <- SamePodcast
  UploadIDs = {up1}
  Requests = {one}
  AskedIndexes = {0, 1}
  MaxURLs = 1
  Habits = {"overlap", "after final", "early next", "revoke"}
  Faults = {"crash", "refuse"}
INVARIANTS TypeOK OneRecordingPerJob NamesAgree SomeoneWillEndIt
PROPERTIES SessionsEnd
CHECK_DEADLOCK FALSE
