CONSTANTS
  Clients = {c1, c2}
  nullopt = nullopt
  Free = Free
  MaxSends = 2
  MaxStops = 2
  MaxStarts = 2
  Modes = {TRUE, FALSE}
SPECIFICATION FairSpec
INVARIANTS TypeOK SemCounts NeverEmpty InOrder StopDrains
PROPERTIES StopReturns AllOffered
