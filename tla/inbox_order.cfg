SPECIFICATION FairSpec
CONSTANTS
  Procs = {p1, p2}
  Stages = {"approved", "on_hold"}
  StaffTransitions <- NoTransitions
  Environment = {"disorder"}
  MaxSnapshots = 2
  MaxResets = 0
PROPERTY
  Converges
CHECK_DEADLOCK FALSE
