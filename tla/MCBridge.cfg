CONSTANTS
  MaxClients = 2
  Sockets = 3
  Waiting = 1
  Inbox = 1
  Chunks = 1
  Setups <- MCSetups
  ShortOn = 1
  ShortOff = 9
  LongOn = 5
  LongOff = 5
  Net = {w1, w2}
  Known = {w1}
  NoNet = none
  Task = {t1, t2, t3}
  NoTask = null
  Rssi = {1, 2}
  MinBackoff = 1
  MaxBackoff = 3
  Function = {1, 2}
  Gpio = {4, 5}
  OddGpio = 3
  NoPin = 255
  ZeroPin = 0
  Sensor = {s1}
  NoSensor = unbound
  Ssid = {w1, w2}
  MaxNetworks = 2
  Good = {good}
  Default = good
  Invalid = bad
  Older <- MCOlder
  MaxFailures = 1
  s1 = s1
  w1 = w1
SPECIFICATION MCSpec
INVARIANTS
  TypeOK SocketsOwned RecvNeverWaits
  LedShows
  WifiTypeOK HandleIsLive FewTasks SomebodyReconnects FreshBackoff
  ConfigTypeOK PinsApart OneFunctionPerSensor SavedUnbinds RestartKeeps
PROPERTIES ChunkReachesAll LedSpells TelnetComesBack TelnetPinFollows ComesBack
