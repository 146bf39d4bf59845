\* Every fault: Redis refuses, forgets or expires, and the server crashes.
CONSTANTS
  ann = ann
  bob = bob
  Clients = {1, 3}
  Users = {ann, bob}
  UserOf <- OneOfEach
  Podcasts = {p1}
  RecordingIDs = {r1}
  MaxClients = 2
  Faults <- AllFaults
  Askers = {bob}
  None = None
SPECIFICATION AccessSpec
SYMMETRY Interchangeable
PROPERTIES RunningAdmits
CHECK_DEADLOCK FALSE
