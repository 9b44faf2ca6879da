SPECIFICATION Spec
CONSTANTS
  Procs = {p1, p2}
  Stages = {"approved", "dispatched"}
  StaffTransitions <- FewTransitions
  Environment = {"disorder", "replay", "crash", "refusal", "reset", "staff"}
  MaxSnapshots = 2
  MaxResets = 1
SYMMETRY Symmetry
INVARIANTS
  TypeOK
  
PROPERTIES
  SignOffStaysHere
  KeepsPromise
CHECK_DEADLOCK FALSE
