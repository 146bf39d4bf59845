SPECIFICATION Spec
CONSTANTS
  ann = ann
  bob = bob
  cat = cat
  rec1 = rec1
  rec2 = rec2
  show1 = show1
  show2 = show2
  None = None
  Users = {ann, bob, cat}
  Unlucky = {bob}
  PodcastIDs = {show1, show2}
  RecordingIDs = {rec1}
  MaxPods = 2
INVARIANTS TypeOK HostHasPods ShownToOneParticipant
PROPERTIES HostsRecordingIsFiled
CHECK_DEADLOCK FALSE
