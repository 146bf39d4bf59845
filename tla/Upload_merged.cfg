SPECIFICATION Spec
CONSTANTS
  ann = ann
  bob = bob
  show = show
  rec1 = rec1
  rec2 = rec2
  up1 = up1
  one = one
  two = two
  None = None
  Users = {ann}
  Podcasts = {show}
  RecordingIDs = {rec1, rec2}
  PodcastOf <- SamePodcast
  UploadIDs = {}
  Requests = {one}
  AskedIndexes = {0}
  MaxURLs = 2
  Habits = {"early next"}
  Faults = {}
INVARIANTS FinishedIsAnnounced
CHECK_DEADLOCK FALSE
