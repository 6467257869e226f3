CONSTANTS
  NumMain = 2
  RowLength = 2
  Folder = {0}
  DemoMission = {0, 2, 3}
  DemoPage <- const_DemoPage
SPECIFICATION Spec
INVARIANTS RunsWhatIsUnlocked NoGaps  BriefingPageValid
PROPERTIES OnlyMissionsWriteProgress
