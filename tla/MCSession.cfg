CONSTANTS
  HDR = 4
  BUFFER_SIZE = 8
  Streams <- MCStreams
  GameStreams <- MCGameStreams
  Terminal <- MCTerminal
  LOGINVALIDATE = 1
  LOGINERRORRESP = 2
  LOGINTOLRESP = 3
  RESP_ACTIVE = 4
  CFG_IGG_ID = 6
  INTERVAL = 2
  MAX_NOW = 7
SPECIFICATION Spec_Session
INVARIANTS
  OneSocketOpen
  CleanGameStream
  LoginAsGranted
  HeartbeatKept
