CONSTANTS
  NumStates = 2
  MaxEvents = 3
  MaxSounds = 1
  Sounds <- const_Sounds
  Frame = 2
  Short = 1
  Attack = 1
  Decay = 1
  Release = 1
  Retries = 1
SPECIFICATION Spec
INVARIANTS SoundsAccounted 
PROPERTIES ImplementsSchedule
