SPECIFICATION Spec
CONSTANTS
  Procs = {p1, p2}
  EntryStatuses <- Intake
  FinalAmounts = {1}
  MaxVersions = 1
  Crashes = FALSE
PROPERTY
  AdvanceOnlyFromWhatItSaw
