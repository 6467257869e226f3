\* Liveness: the smallest sizes the assumption allows.
CONSTANTS
  IntQSize = 3
  CmdQSize = 3
  FrameQSize = 1
  AudioQSize = 1
  AudioInfos = 1
SPECIFICATION FairSpec
PROPERTIES
  FrameComesBack
  AudioReplyArrives
  StageChanges
