\* Two conversations, an action and a proposal, two runs under way together.
SPECIFICATION FairSpec
CONSTANTS
  Convs = {A, B}
  Actions = {a1}
  Proposals = {p1}
  Runs = {r1, r2}
  None = None
  MaxAsks = 4
  MaxChanges = 1
  MaxFaults = 1
INVARIANTS TellsTheTruth
PROPERTIES KeepsThePromise ButtonsComeBack
CHECK_DEADLOCK FALSE
