SPECIFICATION MCSpec

CONSTANTS
  Base = 3
  PrefixBytes = 2
  Bodies <- MCBodies
  SenderMax = 3
  ReaderMax = 2
  Readers = {"rust", "typescript"}
  MaxFrames = 3
  MaxWriteFails = 2
  MaxTimeouts = 1

  MaxCalls = 3
  Closed = Closed

  SeqSpace = 4
  EpochSpace = 2
  NoEpoch = NoEpoch
  None = None
  MaxDatagrams = 4
  MaxRestarts = 2
  MaxRepeats = 1

INVARIANTS
  TypeOK
  CleanEndLosesNothing
  AlignedUnlessBytesLost
  OverlappingCallsKeepStep
  EachResponseOnce
  GapsCountLosses
  RestartsReported

PROPERTIES
  ImplementsFrameQueue
  FramesArrive
  CallsReturnWhileOpen
  NewerExactlyWhenNewer

CHECK_DEADLOCK FALSE
