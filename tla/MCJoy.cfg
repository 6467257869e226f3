CONSTANTS
  SampleLen = 4
  InputSize = 2
SPECIFICATION FairSpec
INVARIANTS
  TypeOK
  SerialInterfaceIsMains
  BusyMeansAnswered
  WindowUntouched
  PressReportedOnce
PROPERTIES
  RequestAnswered
  PollingGoesOn
