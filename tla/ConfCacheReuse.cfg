\* Two instances share two addresses: rebuilds, stragglers, reused addresses and an edit on disk.
\* The worker has nothing left to do when both instances are removed.
SPECIFICATION Spec
CONSTANTS
  Instances = {p1, p2}
  Addresses = {a1, a2}
  Requests = {r1, r2}
  Contents = {c1, c2}
  DiskContents = {d1, d2}
  ReadsDisk = {c1}
  Prefixes = {plugin_dyn_rules}
  DynRules = plugin_dyn_rules
  HashAvailable = TRUE
  None = None
  Uncacheable = Uncacheable
  MaxSeq = 3
  MaxEdits = 1
CHECK_DEADLOCK FALSE
SYMMETRY Symmetry
INVARIANTS TypeOK ServesOwnConfiguration OneGenerationPerInstance
PROPERTIES LiveNeverGoesBack
