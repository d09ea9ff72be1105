CONSTANTS
  Clients = {c1, c2}
  nullopt = nullopt
  Free = Free
  MaxSends = 1
  MaxStops = 2
  MaxStarts = 2
  Modes = {FALSE}
SPECIFICATION Spec
INVARIANT Documented
CHECK_DEADLOCK FALSE
