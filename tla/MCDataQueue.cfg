\* Packets of one size; the buffer wraps and grows.
CONSTANTS
  Sizes = {3}
  MaxBuffer = 60
  MaxPackets = 14
SPECIFICATION Spec
INVARIANT PartsAddUp
PROPERTY FifoOrder
CHECK_DEADLOCK FALSE
