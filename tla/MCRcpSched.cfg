\* Safety: interruptQ has one slot more than the reserve, the message queues fill.
CONSTANTS
  IntQSize = 4
  CmdQSize = 3
  FrameQSize = 2
  AudioQSize = 1
  AudioInfos = 3
SPECIFICATION Spec
INVARIANTS
  TypeOK
  TaskDoneNeverLost
  PendingGfxExact
  
  ViIndexCorrelates
  SubmitNeverWaits
PROPERTIES
  ImplementsPipeline
