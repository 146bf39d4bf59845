\* No faults.  Podcasts with room for three and for the fourth client's refusal.
CONSTANTS
  ann = ann
  bob = bob
  Clients = {1, 2, 3, 4}
  Users = {ann, bob}
  UserOf <- TwoOfOneUser
  Podcasts = {p1, p2}
  RecordingIDs = {r1}
  MaxClients = 3
  Faults <- NoFaults
  None = None
SPECIFICATION CalmSpec
SYMMETRY Interchangeable
INVARIANTS TypeOK MembershipAgrees HostHasSession EventsReplay ClientsAreTold PairingAgrees
PROPERTIES StopEndsRecord ReadyPairs ImplementsRooms
CHECK_DEADLOCK FALSE
