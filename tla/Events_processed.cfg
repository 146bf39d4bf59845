SPECIFICATION Spec
CONSTANTS
  ann = ann
  bob = bob
  pod1 = pod1
  pod2 = pod2
  None = None
  Users = {ann, bob}
  Pods = {pod1, pod2}
  MaxEvents = 2
PROPERTIES EventsAreProcessed
CHECK_DEADLOCK FALSE
