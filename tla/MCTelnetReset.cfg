CONSTANTS
  MaxClients = 2
  Sockets = 3
  Waiting = 1
  Inbox = 1
  Chunks = 1
  Setups <- MCSetups
SPECIFICATION Spec
PROPERTIES LeaveIsReset
