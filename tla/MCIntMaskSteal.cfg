\* Two waiters behind one leaked section.
CONSTANTS
  Threads = {m, a, s}
  Transient = {}
  Stuck = 2
  MaxNest = 1
  MaxLeaks = 1
  Nobody = Nobody
SPECIFICATION Spec
PROPERTY StolenOnlyWhenStuck
