\* Every fault: Redis refuses, forgets or expires, and the server crashes.
CONSTANTS
  ann = ann
  bob = bob
  Clients = {1, 3}
  Users = {ann, bob}
  UserOf <- TwoOfOneUser
  Podcasts = {p1}
  RecordingIDs = {r1, r2}
  MaxClients = 2
  Faults <- AllFaults
  None = None
SPECIFICATION Spec
SYMMETRY Interchangeable
INVARIANTS SignalingInvariant
PROPERTIES RecordIsFinal
CHECK_DEADLOCK FALSE
