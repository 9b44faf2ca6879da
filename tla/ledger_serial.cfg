SPECIFICATION Spec
CONSTANTS
  Procs = {p1}
  FinalAmounts = {0, 1, 2, 3}
  Receipts <- Forms
  Largest = 1
  Snapshots = {}
  NoRef = "none"
  NoKey = "none"
INVARIANTS
  AmountPaidIsLedgerSum
  StatusIsDerived
  CollectedWithinPlan
