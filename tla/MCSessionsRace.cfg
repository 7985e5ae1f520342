\* The network thread shuts a connection while its logon is answered.
CONSTANTS
  Users = {1, 2}
  Slots = {0, 1}
  MaxConnections = 3
  MaxRequests = 1
  RoomLimit = 2
SPECIFICATION Spec
INVARIANT SessionsOwned
CHECK_DEADLOCK FALSE
