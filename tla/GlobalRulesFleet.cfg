\* Two workers poll while one publisher writes: do they agree, and do they get there?
SPECIFICATION FairSpec
CONSTANTS
  Workers = {w1, w2}
  Ticks = {t1}
  Publishers = {p1}
  JsonBlobs = {jsonA}
  SeclangBlobs = {secA, secBad}
  Unparseable = {secBad}
  Ruleless = {}
  NoBlob = NoBlob
  NoHash = NoHash
  NoPack = NoPack
  HmacRequired = TRUE
  MayDelete = FALSE
  MaxWrites = 2
  MaxRestarts = 1
  MaxFaults = 1
INVARIANTS VersionIdentifiesRules
PROPERTIES EveryWorkerApplies
