SPECIFICATION Spec
CONSTANTS
  Procs = {p1, p2}
  Life = 2
  MaxWrites = 2
  Kinds = {"email", "link"}
  MaxMessages = 2
  MaxAttempts = 2
  MaxJobs = 2
INVARIANTS
  TypeOK
  SavedIsServed
  AcceptedOnce
PROPERTIES
  StalenessEnds
  OutcomeRecorded
  ArtefactsGo
CHECK_DEADLOCK FALSE
