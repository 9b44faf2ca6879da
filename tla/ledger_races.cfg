SPECIFICATION Spec
CONSTANTS
  Procs = {p1, p2}
  FinalAmounts = {1, 2, 3}
  Receipts <- Forms
  Largest = 1
  Snapshots <- Paid
  NoRef = "none"
  NoKey = "none"
SYMMETRY Symmetry
INVARIANTS
  TypeOK
  CollectedWithinPlan
  BankedOnce
