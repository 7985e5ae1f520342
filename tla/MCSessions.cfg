\* Two users on two slots, two connections: one after the other on a slot, or side
\* by side on both; logons that are answered late, refused and doubled.
CONSTANTS
  Users = {1, 2}
  Slots = {0, 1}
  MaxConnections = 2
  MaxRequests = 1
  RoomLimit = 0
SPECIFICATION Spec
INVARIANTS SourceBound OwnSession EntriesBalanced
PROPERTY EntriesClosed
CHECK_DEADLOCK FALSE
