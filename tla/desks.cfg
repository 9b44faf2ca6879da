SPECIFICATION Spec
CONSTANTS
  Procs = {p1, p2}
  MaxSessions = 2
  MaxVersion = 1
  MaxAttempts = 2
  MaxMisses = 3
  MaxLinks = 2
  MaxEntries = 3
  Stages = {"submitted", "on_hold", "approved", "rejected", "cancelled"}
  MaxChanges = 2
  FormStatuses = {"packed", "delivered", "returned"}
  MaxRows = 3
  Payments = {pay1, pay2}
  MaxInvoices = 3
  LeadStatuses = {"new", "lost", "converted"}
  MaxLeads = 2
  MaxAgain = 1
  LastDay = 2
  MaxLeave = 2
  Months = {may, june}
  MaxSlips = 4
  Contents = {f1, f2}
  Uploads = {u1, u2}
  MaxFiles = 3
  MaxApplicants = 2
  MaxRecords = 3
  Queries = {q1, q2}
  MaxTokens = 3
  MaxCertificates = 3
  MaxEdits = 2
SYMMETRY Symmetry
INVARIANTS
  TypeOK
  EndedStaysEnded
  OneHolder
  GateHolds
  FlagFollowsRegister
  WebsiteAgrees
  RecordShowsCurrent
  SerialsRunOn
  OneProfile
  LeaveIsOnRegister
  VaultAddsUp
CHECK_DEADLOCK FALSE
