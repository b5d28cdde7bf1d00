\* A build for one channel, a params file of two, one without a device.
SPECIFICATION FairSpec
CONSTANTS
  channels = 2
  MAX_CHANNELS = 1
  mac <- Mac
  Devices = {0}
  Addresses = {"a", "b"}
  Slots = {0, 1}
  Programs = {{"RECEIVE", "SYNC_SLAVE"}, {"CREATE", "SEND", "SYNC_MASTER"}}
  Timeouts = {1}
  RcvBuf = 2
  MaxFrames = 3
  MaxPackets = 3
INVARIANTS
  FramesOnce
  Freshest
PROPERTIES
  SyncReturns
CHECK_DEADLOCK FALSE
