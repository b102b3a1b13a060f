SPECIFICATION Spec
CONSTANTS
  c1 = c1
  i1 = i1
  Instances = {i1, i2}
  Services = {s1}
  NoService = NoService
  Clients = {c1}
  Identities = {address}
  NoIdentity = NoIdentity
  IdentityOf <- OneIdentity
  Requests = {r1, r2}
  Blocking = {i1}
  BanPolicy = TRUE
  Stuck <- NoStuck
  MayFail = TRUE
  Observed <- BannableKeys
  Limit = 1
  Window = 2
  Excess = 1
  BanTime = 2
  NoTTL = NoTTL
SYMMETRY Symmetry
INVARIANTS FreshWindowAfterBan FewerThanTwoWindows
PROPERTIES RefusedForOwnHits BanHolds BanDeadlineKept
