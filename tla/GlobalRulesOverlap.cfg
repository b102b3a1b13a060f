\* Two overlapping polls of one worker, with deletions, respawns and lost polls.
SPECIFICATION Spec
CONSTANTS
  Workers = {w1}
  Ticks = {t1, t2}
  Publishers = {p1}
  JsonBlobs = {jsonA}
  SeclangBlobs = {secA, secBad}
  Unparseable = {secBad}
  Ruleless = {jsonA}
  NoBlob = NoBlob
  NoHash = NoHash
  NoPack = NoPack
  HmacRequired = TRUE
  MayDelete = TRUE
  MaxWrites = 3
  MaxRestarts = 1
  MaxFaults = 1
SYMMETRY Symmetry
INVARIANTS TypeOK ServesWhatItReports
PROPERTIES NeverStepsBack LastGoodPackStays
