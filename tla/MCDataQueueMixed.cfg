\* Packets of several sizes in a buffer that may grow once.
CONSTANTS
  Sizes = {1, 2, 4}
  MaxBuffer = 20
  MaxPackets = 9
SPECIFICATION Spec
PROPERTY RectifyAsserts
CHECK_DEADLOCK FALSE
