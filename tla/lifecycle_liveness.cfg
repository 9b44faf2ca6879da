SPECIFICATION FairSpec
CONSTANTS
  Procs = {p1, p2}
  EntryStatuses <- LateStages
  FinalAmounts = {0}
  MaxVersions = 1
  Crashes = FALSE
PROPERTIES
  PaymentReceivedIsTransient
  EveryRequestEnds
