\* A build for two channels: a message is queued again.
SPECIFICATION Spec
CONSTANTS
  channels = 2
  MAX_CHANNELS = 2
  mac <- Mac
  Devices = {0}
  Addresses = {"a", "b"}
  Slots = {0, 1}
  Programs = {{"RECEIVE"}}
  Timeouts = {1}
  RcvBuf = 2
  MaxFrames = 3
  MaxPackets = 3
INVARIANTS
  FramesOnce
CHECK_DEADLOCK FALSE
