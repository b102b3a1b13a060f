SPECIFICATION FairSpec
CONSTANTS
  c1 = c1
  i1 = i1
  Instances = {i1}
  Services = {}
  NoService = NoService
  Clients = {c1}
  Identities = {address}
  NoIdentity = NoIdentity
  IdentityOf <- OneIdentity
  Requests = {r1, r2}
  Blocking = {i1}
  BanPolicy = FALSE
  Stuck <- StuckCounter
  MayFail = TRUE
  Observed <- AllKeys
  Limit = 2
  Window = 3
  Excess = 1
  BanTime = 1
  NoTTL = NoTTL
INVARIANTS TypeOK
PROPERTIES EveryWindowEnds
