\* Two operators write rules, the mode and the advanced settings of one plugin.
SPECIFICATION Spec
CONSTANTS
  t1 = t1
  t2 = t2
  Consoles = {c1, c2}
  Kinds = {"rule", "override"}
  Texts = {t1, t2}
  InitialLists <- TwoRules
  Limits = {l1, l2}
  MaxCalls = 2
  MaxFaults = 1
  None = None
SYMMETRY Symmetry
CHECK_DEADLOCK FALSE
PROPERTIES SoloWriteIsAsSeen
