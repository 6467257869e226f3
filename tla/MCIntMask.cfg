\* One section is leaked; the thread m is transient.
CONSTANTS
  Threads = {m, a, s}
  Transient = {m}
  Stuck = 2
  MaxNest = 2
  MaxLeaks = 1
  Nobody = Nobody
SPECIFICATION FairSpec
INVARIANTS
  TypeOK
  MutualExclusion
  OwnerKeepsOuterSection
PROPERTIES
  
  EveryWaiterEnters
