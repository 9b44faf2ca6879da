SPECIFICATION Spec
CONSTANTS
  Procs = {p1, p2}
  EntryStatuses <- OpenStatuses
  FinalAmounts = {0, 2}
  MaxVersions = 2
  Crashes = TRUE
SYMMETRY Symmetry
INVARIANTS
  TypeOK
  NoGateBypassed
  TerminalIsLocked
