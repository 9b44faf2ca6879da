SPECIFICATION Spec
CONSTANTS
  Procs = {p1, p2}
  FinalAmounts = {2}
  Receipts <- Forms
  Largest = 1
  Snapshots = {}
  NoRef = "none"
  NoKey = "none"
INVARIANT
  AmountPaidIsLedgerSum
