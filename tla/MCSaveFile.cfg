CONSTANTS
  NumFolders = 2
  MaxDone = 1
  Rest = {0, 1}
  FreshRest = 0
  MaxFails = 1
SPECIFICATION Spec
INVARIANTS
  OneSlotEach
  SavedOnceWritten
PROPERTIES
  ImplementsStore
