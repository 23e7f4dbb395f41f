SPECIFICATION Spec
CONSTANTS
  Mac = {m1, m2, m3, m4}
  NoMac = NoMac
  MaxPeers = 2
  RadioPeers = 3
  PingIdle = 1
  PingInterval = 2
  PingMaxRetries = 2
  RxQueueSize = 1
SYMMETRY Devices
INVARIANTS TypeOK NoDuplicateMac ProbeClock SilentPeerEvicted
PROPERTIES EvictionNeedsSilence StrayOnlyWhenFull
