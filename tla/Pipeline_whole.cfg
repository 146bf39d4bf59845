\* One client, two recordings one after the other, two chunks each; Redis
\* refuses events and the processor restarts.
SPECIFICATION Spec
CONSTANTS
  ann = ann
  bob = bob
  show = show
  rec1 = rec1
  rec2 = rec2
  up1 = up1
  one = one
  two = two
  None = None
  Users = {ann}
  Podcasts = {show}
  RecordingIDs = {rec1, rec2}
  PodcastOf <- SamePodcast
  UploadIDs = {}
  Requests = {one}
  MaxURLs = 2
  Jobs = {one, two}
  MaxAttempts = 1
  CleanupChunks = TRUE
  Podless = {}
  UploadFaults = {"refuse"}
  ProcessorFaults = {"crash"}
INVARIANTS AnnouncesWhole VideosAreWhole
PROPERTIES Delivers
CHECK_DEADLOCK FALSE
