CONSTANTS
  HeapStart = 5
  HeapSize = 11
  Slots = 3
  Quick = 2
  Close = 1
  Passes = 1
  NumRooms = 3
  Need <- const_Need
  Bounds <- const_Bounds
  Preloads = {3}
  MaxAge = 2
SPECIFICATION Spec
INVARIANTS LongestIsLongest
