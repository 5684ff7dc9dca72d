CONSTANTS
  HDR = 4
  BUFFER_SIZE = 8
  Streams <- MCStreams
  Terminal <- MCTerminal
SPECIFICATION FairSpec
INVARIANTS
  RoomToReceive
  NothingLeftBehind
  BufferIsWindow
PROPERTY ImplementsFrames
