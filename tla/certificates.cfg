SPECIFICATION Spec
CONSTANTS
  Procs = {p1, p2}
  Records = {r1, r2}
  Chosen = {c1, 2}
  Minted = {w1}
  NoNumber = NoNumber
  MaxVersions = 2
SYMMETRY Symmetry
INVARIANTS
  TypeOK
  CurrentIsLatestFile
  SeriesHasNoGaps
  SerialOfOneRecord
