SPECIFICATION FairSpec
CONSTANTS
  Procs = {p1, p2}
  Stages = {"unstated", "draft", "approved", "on_hold", "payment_received", "dispatched", "rejected"}
  StaffTransitions <- NoTransitions
  Environment = {"refusal"}
  MaxSnapshots = 3
  MaxResets = 0
PROPERTIES
  MergesForward
  EventsSettle
  Converges
CHECK_DEADLOCK FALSE
