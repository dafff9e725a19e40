CONSTANTS
  CounterMod = 5
  Holdoff = 6
  MinEdges = 2
  MaxEdges = 5
SPECIFICATION Spec
INVARIANTS
  EveryFrameCounted
  LedShowsActivity
