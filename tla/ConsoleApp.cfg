\* One tab of the whole console, while others change the same things.
SPECIFICATION Spec
CONSTANTS
  None = None
  MaxAsks = 2
  MaxRows = 2
  PageSize = 1
  ruleA = ruleA
  ruleB = ruleB
  fieldQ = fieldQ
  fieldN = fieldN
  upperN = upperN
  RuleIds = {ruleA, ruleB}
  Tags = {"crs"}
  Several = several
  Names = {fieldQ, fieldN, upperN}
  Lower <- LowerCase
  First = fieldQ
  Comma = comma
  OthersRules <- SomeRules
  Services = {s1, s2, s3}
  NoPlugin = s3
  Plugins = {c1, c2}
  Installed = {c1}
  Outdated = {s2}
  Targets = {k1, k2}
  Texts = {u, w}
  Invalid = Invalid
  Profiles = {p1, p2}
  Endpoints = {e1, e2}
  Remote = remote
CHECK_DEADLOCK FALSE
INVARIANTS
  SignedInHasToken ActiveIsSaved KeyGoesHome PageNeverEmpty ReopensTheSame PasswordStaysHome
PROPERTIES SwitchesToWhatAnswered
